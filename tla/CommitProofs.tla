----------------------------- MODULE CommitProofs -----------------------------
(***************************************************************************)
(* Theorems about Commit.tla, for any device graphs, edits and orders of   *)
(* the actions.                                                            *)
(***************************************************************************)
EXTENDS Commit, FiniteSetTheorems, SequenceTheorems, WellFoundedInduction, TLAPS

-----------------------------------------------------------------------------
(* The device graph (Devicegraph.tla): what the functions that clients edit it  *)
(* with keep, whatever the graph.                                              *)

\* A set of natural numbers has a least one.
LEMMA LeastNat ==
  ASSUME NEW T \in SUBSET Nat, T # {}
  PROVE  \E m \in T : \A k \in T : m <= k
<1> DEFINE U == {1 .. k : k \in T}
<1>1. IsWellFoundedOn(StrictSubsetOrdering(Nat), FiniteSubsetsOf(Nat))
  BY FS_StrictSubsetOrderingWellFounded
<1>2. U \subseteq FiniteSubsetsOf(Nat) /\ U # {}
  <2>1. \A k \in T : 1 .. k \in SUBSET Nat /\ IsFiniteSet(1 .. k)
    BY FS_Interval
  <2> QED BY <2>1 DEF FiniteSubsetsOf
<1>3. PICK x \in U : \A y \in U : ~ (<<y, x>> \in StrictSubsetOrdering(Nat))
  <2> HIDE DEF U
  <2> QED BY <1>1, <1>2, WFMin
<1>4. PICK m \in T : x = 1 .. m
  OBVIOUS
<1>5. ASSUME NEW k \in T, ~ m <= k PROVE FALSE
  <2>1. 1 .. k \subseteq 1 .. m /\ m \in 1 .. m /\ m \notin 1 .. k /\ 1 .. m \subseteq Nat
    BY <1>5
  <2>2. <<1 .. k, 1 .. m>> \in StrictSubsetOrdering(Nat)
    BY <2>1 DEF StrictSubsetOrdering
  <2> QED BY <1>3, <1>4, <2>2
<1> QED BY <1>5

-----------------------------------------------------------------------------
(* Descendants: nothing but what is reached, and closed under children.    *)

Spread(g, S) == S \cup UNION {Children(g, c) : c \in S}

\* The sets that are collected in N steps.
Steps(g, d, N, f) == \A n \in 0 .. N : f[n] = IF n = 0 THEN {d} ELSE Spread(g, f[n - 1])
StepsFunction(g, d, N, f) == f = [n \in 0 .. N |-> IF n = 0 THEN {d} ELSE Spread(g, f[n - 1])]

\* They exist, for any number of steps.
LEMMA DownExists ==
  ASSUME NEW g, NEW d, NEW N \in Nat
  PROVE  \E f : Steps(g, d, N, f)
<1> DEFINE Down(k, f) == \A n \in 0 .. k : f[n] = IF n = 0 THEN {d} ELSE Spread(g, f[n - 1])
           T == {k \in Nat : ~ \E f : Down(k, f)}
<1>1. ASSUME T # {} PROVE FALSE
  <2>1. PICK m \in T : \A k \in T : m <= k
    <3> HIDE DEF T
    <3>1. T \in SUBSET Nat
      BY DEF T
    <3> QED BY <1>1, <3>1, LeastNat
  <2>2. Down(0, [n \in 0 .. 0 |-> {d}])
    OBVIOUS
  <2>3. m \in Nat /\ m # 0
    BY <2>1, <2>2
  <2>4. PICK f : Down(m - 1, f)
    <3>1. m - 1 \in Nat /\ m - 1 \notin T
      <4> HIDE DEF T
      <4> QED BY <2>1, <2>3
    <3> HIDE DEF Down
    <3> QED BY <3>1
  <2> DEFINE h == [n \in 0 .. m |-> IF n = m THEN Spread(g, f[m - 1]) ELSE f[n]]
  <2>5. \A n \in 0 .. m : h[n] = IF n = 0 THEN {d} ELSE Spread(g, h[n - 1])
    <3> SUFFICES ASSUME NEW n \in 0 .. m
                 PROVE  h[n] = IF n = 0 THEN {d} ELSE Spread(g, h[n - 1])
      OBVIOUS
    <3>1. CASE n = m
      <4>1. h[n] = Spread(g, f[m - 1]) /\ h[n - 1] = f[m - 1]
        BY <2>3, <3>1
      <4> QED BY <2>3, <3>1, <4>1
    <3>2. CASE n # m
      <4>1. n \in 0 .. m - 1 /\ h[n] = f[n]
        BY <2>3, <3>2
      <4>2. f[n] = IF n = 0 THEN {d} ELSE Spread(g, f[n - 1])
        BY <2>4, <4>1
      <4>3. n # 0 => h[n - 1] = f[n - 1]
        BY <2>3, <3>2
      <4> QED BY <4>1, <4>2, <4>3
    <3> QED BY <3>1, <3>2
  <2>6. Down(m, h)
    <3> HIDE DEF h
    <3> QED BY <2>5
  <2> QED BY <2>1, <2>6
<1>2. \E f : Down(N, f)
  BY <1>1
<1> QED BY <1>2 DEF Steps

\* The recursion of Descendants as an equation.
LEMMA DownFunction ==
  ASSUME NEW g, NEW d, NEW N \in Nat
  PROVE  \E f : StepsFunction(g, d, N, f)
<1>1. PICK f : Steps(g, d, N, f)
  BY DownExists
<1> DEFINE h == [n \in 0 .. N |-> f[n]]
<1>2. ASSUME NEW n \in 0 .. N
      PROVE  h[n] = IF n = 0 THEN {d} ELSE Spread(g, h[n - 1])
  <2>1. CASE n = 0
    BY <1>1, <2>1 DEF Steps
  <2>2. CASE n # 0
    <3>1. n - 1 \in 0 .. N
      BY <2>2
    <3>2. h[n] = f[n] /\ h[n - 1] = f[n - 1]
      BY <3>1
    <3>3. f[n] = Spread(g, f[n - 1])
      BY <1>1, <2>2 DEF Steps
    <3> QED BY <2>2, <3>2, <3>3
  <2> QED BY <2>1, <2>2
<1>3. h = [n \in 0 .. N |-> h[n]]
  OBVIOUS
<1>4. h = [n \in 0 .. N |-> IF n = 0 THEN {d} ELSE Spread(g, h[n - 1])]
  <2> HIDE DEF h
  <2> QED BY <1>2, <1>3
<1> QED BY <1>4 DEF StepsFunction

\* Descendants by that equation.
LEMMA DescendantsDown ==
  ASSUME NEW g, NEW d, Cardinality(DOMAIN g) \in Nat
  PROVE  \E f : /\ Steps(g, d, Cardinality(DOMAIN g), f)
                /\ Descendants(g, d) = f[Cardinality(DOMAIN g)] \ {d}
<1> DEFINE N == Cardinality(DOMAIN g)
           Q(f) == StepsFunction(g, d, N, f)
<1>1. \E f : Q(f)
  BY DownFunction
<1>2. Q(CHOOSE f : Q(f))
  <2> HIDE DEF Q
  <2> QED BY <1>1
<1>3. Descendants(g, d) = (CHOOSE f : Q(f))[N] \ {d}
  BY DEF Descendants, Spread, StepsFunction
<1>4. PICK f : Q(f) /\ Descendants(g, d) = f[N] \ {d}
  <2> HIDE DEF Q
  <2> QED BY <1>2, <1>3
<1>5. Steps(g, d, N, f)
  <2> HIDE DEF N
  <2> QED BY <1>4 DEF Steps, StepsFunction
<1> QED BY <1>4, <1>5

\* What is removed with a device: the device and all that is on it, at any
\* distance, and nothing else.
LEMMA DescendantsClosed ==
  ASSUME NEW g, IsFiniteSet(DOMAIN g), NEW d \in DOMAIN g
  PROVE  LET D == Descendants(g, d) \cup {d}
         IN  /\ d \notin Descendants(g, d)
             /\ D \subseteq DOMAIN g
             /\ \A x \in D : Children(g, x) \subseteq D
             /\ \A S : d \in S /\ (\A x \in S : Children(g, x) \subseteq S) => D \subseteq S
<1> DEFINE N == Cardinality(DOMAIN g)
<1>1. N \in Nat
  BY FS_CardinalityType
<1>2. PICK f : /\ \A n \in 0 .. N : f[n] = IF n = 0 THEN {d} ELSE Spread(g, f[n - 1])
               /\ Descendants(g, d) = f[N] \ {d}
  BY <1>1, DescendantsDown DEF Steps
<1> HIDE DEF N
<1>3. /\ f[0] = {d}
      /\ \A n \in 0 .. N - 1 : f[n + 1] = Spread(g, f[n]) /\ f[n] \subseteq f[n + 1]
  <2>1. \A n \in 0 .. N - 1 : n + 1 \in 0 .. N /\ n + 1 # 0 /\ (n + 1) - 1 = n
    BY <1>1
  <2>2. \A n \in 0 .. N - 1 : f[n + 1] = Spread(g, f[n])
    BY <1>2, <2>1
  <2>3. 0 \in 0 .. N
    BY <1>1
  <2>4. f[0] = {d}
    BY <1>2, <2>3
  <2>5. \A n \in 0 .. N - 1 : f[n] \subseteq f[n + 1]
    BY <2>2 DEF Spread
  <2> QED BY <2>2, <2>4, <2>5
\* A property of the start that every step keeps.
<1>4. ASSUME NEW S, d \in S, \A x \in S : Children(g, x) \subseteq S,
             NEW n \in 0 .. N
      PROVE  f[n] \subseteq S
  <2> DEFINE T == {k \in 0 .. N : ~ f[k] \subseteq S}
  <2>1. ASSUME T # {} PROVE FALSE
    <3>1. T \in SUBSET Nat
      BY <1>1
    <3>2. PICK m \in T : \A k \in T : m <= k
      <4> HIDE DEF T
      <4> QED BY <2>1, <3>1, LeastNat
    <3>3. m # 0
      BY <1>3, <1>4, <3>2
    <3>4. m - 1 \in 0 .. N - 1 /\ f[m - 1] \subseteq S /\ (m - 1) + 1 = m
      BY <1>1, <3>2, <3>3
    <3>5. f[m] = Spread(g, f[m - 1])
      BY <1>3, <3>4
    <3>6. f[m] \subseteq S
      BY <1>4, <3>4, <3>5 DEF Spread
    <3> QED BY <3>2, <3>6
  <2> QED BY <2>1
<1>5. \A n \in 0 .. N : f[n] \subseteq DOMAIN g /\ IsFiniteSet(f[n])
  <2>1. \A n \in 0 .. N : f[n] \subseteq DOMAIN g
    BY <1>4 DEF Children
  <2> QED BY <2>1, FS_Subset
<1>6. \A n \in 0 .. N : d \in f[n]
  <2> DEFINE T == {k \in 0 .. N : d \notin f[k]}
  <2>1. ASSUME T # {} PROVE FALSE
    <3>1. T \in SUBSET Nat
      BY <1>1
    <3>2. PICK m \in T : \A k \in T : m <= k
      <4> HIDE DEF T
      <4> QED BY <2>1, <3>1, LeastNat
    <3>3. m # 0
      BY <1>3, <3>2
    <3>4. m - 1 \in 0 .. N - 1 /\ d \in f[m - 1] /\ (m - 1) + 1 = m
      BY <1>1, <3>2, <3>3
    <3> QED BY <1>3, <3>2, <3>4
  <2> QED BY <2>1
\* As long as a step adds something the sets grow.
<1>7. ASSUME NEW n \in 0 .. N, \A k \in 0 .. n - 1 : f[k] # f[k + 1]
      PROVE  Cardinality(f[n]) > n
  <2> DEFINE T == {k \in 0 .. n : ~ Cardinality(f[k]) > k}
  <2>1. ASSUME T # {} PROVE FALSE
    <3>1. T \in SUBSET Nat
      BY <1>1
    <3>2. PICK m \in T : \A k \in T : m <= k
      <4> HIDE DEF T
      <4> QED BY <2>1, <3>1, LeastNat
    <3>3. m # 0
      <4>1. Cardinality({d}) = 1
        BY FS_Singleton
      <4> QED BY <1>3, <3>2, <4>1
    <3>4. /\ m - 1 \in 0 .. N - 1 /\ m - 1 \in 0 .. n - 1 /\ m \in 0 .. N
          /\ Cardinality(f[m - 1]) > m - 1 /\ (m - 1) + 1 = m
      BY <1>1, <3>2, <3>3
    <3>5. f[m - 1] \subseteq f[m] /\ f[m - 1] # f[m] /\ IsFiniteSet(f[m]) /\ IsFiniteSet(f[m - 1])
      BY <1>1, <1>3, <1>5, <1>7, <3>4
    <3>6. Cardinality(f[m - 1]) < Cardinality(f[m])
      BY <3>5, FS_Subset, FS_CardinalityType
    <3>7. Cardinality(f[m]) \in Nat /\ Cardinality(f[m - 1]) \in Nat
      BY <3>5, FS_CardinalityType
    <3> QED BY <3>2, <3>4, <3>6, <3>7
  <2> QED BY <2>1
\* Once nothing is added the set is closed and stays as it is.
<1>8. ASSUME NEW k \in 0 .. N - 1, f[k] = f[k + 1]
      PROVE  f[N] = f[k]
  <2> DEFINE T == {n \in k .. N : f[n] # f[k]}
  <2>1. ASSUME T # {} PROVE FALSE
    <3>1. T \in SUBSET Nat
      BY <1>1
    <3>2. PICK m \in T : \A n \in T : m <= n
      <4> HIDE DEF T
      <4> QED BY <2>1, <3>1, LeastNat
    <3>3. m # k
      BY <3>2
    <3>4. m - 1 \in 0 .. N - 1 /\ m - 1 \in k .. N /\ f[m - 1] = f[k] /\ (m - 1) + 1 = m
      BY <1>1, <3>2, <3>3
    <3>5. f[m] = Spread(g, f[k]) /\ f[k + 1] = Spread(g, f[k])
      BY <1>3, <3>4
    <3> QED BY <1>8, <3>2, <3>5
  <2> QED BY <1>1, <2>1
<1>9. \A x \in f[N] : Children(g, x) \subseteq f[N]
  <2>1. CASE \E k \in 0 .. N - 1 : f[k] = f[k + 1]
    <3>1. PICK k \in 0 .. N - 1 : f[k] = f[k + 1]
      BY <2>1
    <3>2. f[k] = Spread(g, f[k]) /\ f[N] = f[k]
      BY <1>3, <1>8, <3>1
    <3> QED BY <3>2 DEF Spread
  <2>2. CASE \A k \in 0 .. N - 1 : f[k] # f[k + 1]
    <3>1. Cardinality(f[N]) > N /\ f[N] \subseteq DOMAIN g
      BY <1>1, <1>5, <1>7, <2>2
    <3>2. Cardinality(f[N]) <= N
      BY <3>1, FS_Subset DEF N
    <3>3. Cardinality(f[N]) \in Nat
      BY <1>1, <1>5, FS_CardinalityType
    <3> QED BY <1>1, <3>1, <3>2, <3>3
  <2> QED BY <2>1, <2>2
<1>10. Descendants(g, d) \cup {d} = f[N]
  BY <1>1, <1>2, <1>6
<1>11. f[N] \subseteq DOMAIN g
  BY <1>1, <1>5
<1>12. \A S : d \in S /\ (\A x \in S : Children(g, x) \subseteq S) => f[N] \subseteq S
  BY <1>1, <1>4
<1> QED BY <1>2, <1>9, <1>10, <1>11, <1>12

-----------------------------------------------------------------------------
(* What is on what.                                                        *)

\* What each class of devices is on.
LEMMA OnWhat ==
  ASSUME NEW d, NEW p, MayBeOn(d, p)
  PROVE  /\ d \notin Disk /\ p \notin MountPoint
         /\ p \in Table => d \in Partition
         /\ p \in Partition \cup Lv => d \in Luks \cup Pv \cup Filesystem
         /\ p \in Luks => d \in Pv \cup Filesystem
         /\ p \in Pv => d \in Vg
         /\ p \in Vg => d \in Lv
         /\ p \in Filesystem => d \in MountPoint
         /\ d \in Table => p \in Disk
         /\ d \in Partition => p \in Table
         /\ d \in Luks => p \in Partition \cup Lv
         /\ d \in Pv \cup Filesystem => p \in Blk
         /\ d \in Vg => p \in Pv
         /\ d \in Lv => p \in Vg
         /\ d \in MountPoint => p \in Filesystem
BY ClassAssumption DEF MayBeOn, Blk

Fields == {"parents", "size", "start", "name", "active", "listed"}

\* The fields of a new device.
LEMMA BlankFields ==
  ASSUME NEW S
  PROVE  DOMAIN Blank(S) = Fields /\ Blank(S).parents = S
BY DEF Blank, Fields

-----------------------------------------------------------------------------
(* A device graph R that a client made of the device graph L of the system. *)

\* What d is on in one of them.
Over(L, R, d) == (IF d \in DOMAIN L THEN L[d].parents ELSE {})
                 \cup (IF d \in DOMAIN R THEN R[d].parents ELSE {})

\* The graphs taken together have no cycle.
Ordered(L, R) == \A S \in (SUBSET (DOMAIN L \cup DOMAIN R)) \ {{}} :
                    \E d \in S : Over(L, R, d) \cap S = {}

\* Disks stay, and what is in both is on the same devices.
Kept(L, R) == /\ Disk \cap DOMAIN L = Disk \cap DOMAIN R
              /\ \A d \in (DOMAIN L \cap DOMAIN R) \ Vg : R[d].parents = L[d].parents

Fits(L, R) == Shape(R) /\ Kept(L, R) /\ Ordered(L, R)

\* A graph fits to itself.
LEMMA FitsItself ==
  ASSUME NEW g, Shape(g), Grounded(g)
  PROVE  Fits(g, g)
BY DEF Fits, Kept, Ordered, Over, Grounded

\* A graph with parts of the parents only has no cycle either.
LEMMA PartGrounded ==
  ASSUME NEW L, NEW R, Ordered(L, R), NEW g, DOMAIN g \subseteq DOMAIN L \cup DOMAIN R,
         \A d \in DOMAIN g : g[d].parents \subseteq Over(L, R, d)
  PROVE  Grounded(g)
<1> SUFFICES ASSUME NEW S \in (SUBSET DOMAIN g) \ {{}}
             PROVE  \E d \in S : g[d].parents \cap S = {}
  BY DEF Grounded
<1>1. PICK d \in S : Over(L, R, d) \cap S = {}
  BY DEF Ordered
<1> QED BY <1>1

\* Attributes only.
LEMMA AttributesKeepFit ==
  ASSUME NEW L, NEW R, Fits(L, R), NEW g, DOMAIN g = DOMAIN R,
         \A d \in DOMAIN R : /\ DOMAIN g[d] = Fields
                             /\ g[d].parents = R[d].parents
                             /\ d \in MountPoint => g[d].name \in Seq(STRING)
  PROVE  Fits(L, g)
<1>1. \A b : Children(g, b) = Children(R, b)
  BY DEF Children
<1>2. Exclusive(g)
  BY <1>1 DEF Fits, Shape, Exclusive, In
<1>3. \A d \in DOMAIN g : Placed(g, d)
  BY DEF Fits, Shape, Placed
<1>4. Shape(g)
  BY <1>2, <1>3, BlankFields DEF Fits, Shape
<1>5. Kept(L, g)
  BY DEF Fits, Kept
<1>6. \A d : Over(L, g, d) = Over(L, R, d)
  BY DEF Over
<1>7. Ordered(L, g)
  BY <1>6 DEF Fits, Ordered
<1> QED BY <1>4, <1>5, <1>7 DEF Fits

\* A new device with nothing on it, on devices that can take it.
LEMMA LeafKeepsFit ==
  ASSUME NEW L, NEW R, Fits(L, R), Shape(L),
         NEW d \in Device \ (DOMAIN L \cup DOMAIN R \cup Disk),
         NEW g, DOMAIN g = DOMAIN R \cup {d},
         \A x \in DOMAIN R : g[x] = R[x],
         DOMAIN g[d] = Fields, Placed(g, d),
         \A b \in g[d].parents \cap Blk : Children(R, b) = {}
  PROVE  Fits(L, g)
<1>1. \A x \in DOMAIN R : \A p \in R[x].parents : p \in DOMAIN R /\ p # d
  BY DEF Fits, Shape, Placed
<1>2. d \notin g[d].parents
  BY OnWhat, ClassAssumption DEF Placed, MayBeOn, Blk
<1>3. \A b : Children(g, b) = Children(R, b) \cup (IF b \in g[d].parents THEN {d} ELSE {})
  BY DEF Children
<1>4. Exclusive(g)
  <2> SUFFICES ASSUME NEW b \in In(Blk, g),
                      NEW c1 \in Children(g, b), NEW c2 \in Children(g, b)
               PROVE  c1 = c2
    BY DEF Exclusive
  <2>1. CASE b \in g[d].parents
    BY <1>3, <2>1 DEF In
  <2>2. CASE b \notin g[d].parents
    <3>1. c1 \in Children(R, b) /\ c2 \in Children(R, b)
      BY <1>3, <2>2
    <3>2. b \in DOMAIN R
      BY <1>1, <3>1 DEF Children
    <3> QED BY <3>1, <3>2 DEF Fits, Shape, Exclusive, In
  <2> QED BY <2>1, <2>2
<1>5. \A x \in DOMAIN g : DOMAIN g[x] = DOMAIN Blank({}) /\ Placed(g, x)
  BY BlankFields DEF Fits, Shape, Placed
<1>6. IsFiniteSet(DOMAIN g) /\ DOMAIN g \subseteq Device
  BY FS_AddElement DEF Fits, Shape
<1>7. Shape(g)
  BY <1>4, <1>5, <1>6 DEF Shape
<1>8. Kept(L, g)
  BY DEF Fits, Kept
<1>9. Ordered(L, g)
  <2> SUFFICES ASSUME NEW S \in (SUBSET (DOMAIN L \cup DOMAIN g)) \ {{}}
               PROVE  \E x \in S : Over(L, g, x) \cap S = {}
    BY DEF Ordered
  <2>1. \A x \in DOMAIN L \cup DOMAIN R : Over(L, g, x) = Over(L, R, x) /\ d \notin Over(L, R, x)
    BY <1>1 DEF Over, Shape, Placed
  <2>2. CASE S = {d}
    BY <1>2, <2>2 DEF Over
  <2>3. CASE S # {d}
    <3>1. S \ {d} \in (SUBSET (DOMAIN L \cup DOMAIN R)) \ {{}}
      BY <2>3
    <3>2. PICK x \in S \ {d} : Over(L, R, x) \cap (S \ {d}) = {}
      BY <3>1 DEF Fits, Ordered
    <3> QED BY <2>1, <3>1, <3>2
  <2> QED BY <2>2, <2>3
<1> QED BY <1>7, <1>8, <1>9 DEF Fits

\* Devices are removed on which there are, among those that stay, volume groups only.
LEMMA RemoveKeepsFit ==
  ASSUME NEW L, NEW R, Fits(L, R), NEW S, S \cap Disk = {},
         \A x \in DOMAIN R \ S : R[x].parents \cap S # {} => x \in Vg
  PROVE  Fits(L, Remove(R, S))
<1> DEFINE g == Remove(R, S)
<1>1. /\ DOMAIN g = DOMAIN R \ S
      /\ \A x \in DOMAIN g : /\ DOMAIN g[x] = Fields
                             /\ g[x].parents = R[x].parents \ S
                             /\ g[x].name = R[x].name
  BY BlankFields DEF Remove, Fits, Shape, Fields
<1> HIDE DEF g
<1>2. \A x \in DOMAIN g : x \notin Vg => g[x].parents = R[x].parents
  BY <1>1
<1>3. \A x \in DOMAIN g : Placed(g, x)
  BY <1>1, <1>2, ClassAssumption DEF Fits, Shape, Placed
<1>4. Exclusive(g)
  BY <1>1 DEF Fits, Shape, Exclusive, In, Children
<1>5. IsFiniteSet(DOMAIN g)
  BY <1>1, FS_Subset DEF Fits, Shape
<1>6. Shape(g)
  BY <1>1, <1>3, <1>4, <1>5, BlankFields DEF Fits, Shape
<1>7. Kept(L, g)
  BY <1>1, <1>2 DEF Fits, Kept
<1>8. Ordered(L, g)
  <2>1. \A x : Over(L, g, x) \subseteq Over(L, R, x)
    BY <1>1 DEF Over
  <2> QED BY <1>1, <2>1 DEF Fits, Ordered
<1> QED BY <1>6, <1>7, <1>8 DEF Fits, g

\* A device is removed with all that is on it.
LEMMA DeleteKeepsFit ==
  ASSUME NEW L, NEW R, Fits(L, R), NEW d \in DOMAIN R \ Disk
  PROVE  Fits(L, Remove(R, Descendants(R, d) \cup {d}))
<1> DEFINE D == Descendants(R, d) \cup {d}
<1>1. IsFiniteSet(DOMAIN R)
  BY DEF Fits, Shape
<1>2. /\ \A x \in D : Children(R, x) \subseteq D
      /\ \A S : d \in S /\ (\A x \in S : Children(R, x) \subseteq S) => D \subseteq S
  BY <1>1, DescendantsClosed
<1> HIDE DEF D
<1>3. \A x \in DOMAIN R \ Disk : Children(R, x) \subseteq DOMAIN R \ Disk
  BY OnWhat DEF Children, Fits, Shape, Placed
<1>4. D \subseteq DOMAIN R \ Disk
  BY <1>2, <1>3
<1>5. \A x \in DOMAIN R \ D : R[x].parents \cap D = {}
  BY <1>2 DEF Children
<1>6. Fits(L, Remove(R, D))
  BY <1>4, <1>5, RemoveKeepsFit
<1> QED BY <1>6 DEF D

\* All that is on a device is removed.
LEMMA RemoveDescendantsKeepsFit ==
  ASSUME NEW L, NEW R, Fits(L, R), NEW d \in DOMAIN R
  PROVE  Fits(L, remove_descendants(R, d))
<1> DEFINE D == Descendants(R, d) \cup {d}
<1>1. IsFiniteSet(DOMAIN R)
  BY DEF Fits, Shape
<1>2. /\ \A x \in D : Children(R, x) \subseteq D
      /\ \A S : d \in S /\ (\A x \in S : Children(R, x) \subseteq S) => D \subseteq S
      /\ D \subseteq DOMAIN R
      /\ d \in D /\ Descendants(R, d) = D \ {d}
  BY <1>1, DescendantsClosed
<1> HIDE DEF D
<1>3. \A x \in (DOMAIN R \ Disk) \cup {d} : Children(R, x) \subseteq DOMAIN R \ Disk
  BY OnWhat DEF Children, Fits, Shape, Placed
<1>4. D \subseteq (DOMAIN R \ Disk) \cup {d}
  BY <1>2, <1>3
\* Whatever is removed is on something that is removed or on d.
<1>5. ASSUME NEW y \in D \ {d} PROVE R[y].parents \cap D # {}
  <2>1. SUFFICES ASSUME R[y].parents \cap D = {} PROVE FALSE
    OBVIOUS
  <2>2. \A x \in D \ {y} : Children(R, x) \subseteq D \ {y}
    BY <1>2, <2>1 DEF Children
  <2>3. D \subseteq D \ {y}
    BY <1>2, <2>2
  <2> QED BY <2>3
\* So d is on none of them: there would be a cycle.
<1>6. R[d].parents \cap D = {}
  <2>1. Grounded(R)
    BY PartGrounded DEF Fits, Over
  <2>2. \E x \in D : R[x].parents \cap D = {}
    BY <1>2, <2>1 DEF Grounded
  <2> QED BY <1>5, <2>2
<1>7. \A x \in DOMAIN R \ (D \ {d}) : R[x].parents \cap (D \ {d}) = {}
  BY <1>2, <1>6 DEF Children
<1>8. Fits(L, Remove(R, D \ {d}))
  BY <1>4, <1>7, RemoveKeepsFit
<1> QED BY <1>2, <1>8 DEF remove_descendants

\* A LUKS is put under what is on a device, if nothing of that is in L.
LEMMA EncryptionKeepsFit ==
  ASSUME NEW L, NEW R, Fits(L, R), Shape(L),
         NEW b \in In(Partition \cup Lv, R), NEW l \in Luks \ (DOMAIN L \cup DOMAIN R),
         Children(R, b) \cap (Luks \cup DOMAIN L) = {}, NEW listed
  PROVE  Fits(L, create_encryption(R, b, l, listed))
<1> DEFINE g == create_encryption(R, b, l, listed)
           C == Children(R, b)
<1>1. /\ DOMAIN g = DOMAIN R \cup {l}
      /\ DOMAIN g[l] = Fields /\ g[l].parents = {b}
      /\ \A x \in DOMAIN R : /\ DOMAIN g[x] = Fields
                             /\ g[x].parents = (IF x \in C THEN {l} ELSE R[x].parents)
                             /\ g[x].name = R[x].name
  <2> DEFINE r == [Blank({b}) EXCEPT !.active = TRUE, !.listed = listed]
  <2>1. DOMAIN r = Fields /\ r.parents = {b}
    BY BlankFields DEF Fields
  <2>2. \A x \in DOMAIN R : DOMAIN R[x] = Fields
    BY BlankFields DEF Fits, Shape
  <2> HIDE DEF r
  <2>3. l \notin DOMAIN R
    OBVIOUS
  <2>4. /\ DOMAIN g = DOMAIN R \cup {l} /\ g[l] = r
        /\ \A x \in DOMAIN R : g[x] = IF x \in C THEN [R[x] EXCEPT !.parents = {l}] ELSE R[x]
    BY <2>3 DEF create_encryption, Add, r
  <2> HIDE DEF g, C
  <2> QED BY <2>1, <2>2, <2>4 DEF Fields
<1>2. b \in DOMAIN R /\ b # l /\ b \in Blk /\ l \in Blk /\ l \in Device /\ l \notin Disk \cup Vg \cup MountPoint
  BY ClassAssumption DEF In, Blk, Device
<1>3. \A x \in C : x \in DOMAIN R /\ R[x].parents = {b} /\ MayBeOn(x, b) /\ x \in Pv \cup Filesystem /\ x \notin DOMAIN L
  <2>1. \A x \in C : x \in DOMAIN R /\ b \in R[x].parents /\ MayBeOn(x, b) /\ x \notin DOMAIN L
    BY DEF Children, Fits, Shape, Placed
  <2>2. \A x \in C : x \in Pv \cup Filesystem
    BY <2>1, OnWhat DEF In
  <2>3. \A x \in C : x \notin Disk \cup Vg
    BY <2>2, ClassAssumption
  <2> QED BY <2>1, <2>2, <2>3 DEF Fits, Shape, Placed
<1>4. \A x \in DOMAIN R : \A p \in R[x].parents : p \in DOMAIN R /\ p # l
  BY DEF Fits, Shape, Placed
<1> HIDE DEF g, C
<1>5. \A x \in DOMAIN g : Placed(g, x)
  <2> SUFFICES ASSUME NEW x \in DOMAIN g PROVE Placed(g, x)
    OBVIOUS
  <2>1. CASE x = l
    <3>1. MayBeOn(l, b)
      BY DEF MayBeOn, In
    <3> QED BY <1>1, <1>2, <2>1, <3>1 DEF Placed
  <2>2. CASE x \in C
    <3>1. MayBeOn(x, l)
      BY <1>2, <1>3, <2>2 DEF MayBeOn
    <3>2. x \notin MountPoint /\ g[x].parents = {l}
      BY <1>1, <1>3, <2>2, ClassAssumption
    <3> QED BY <1>1, <3>1, <3>2 DEF Placed
  <2>3. CASE x \in DOMAIN R /\ x \notin C
    BY <1>1, <2>3 DEF Fits, Shape, Placed
  <2> QED BY <1>1, <2>1, <2>2, <2>3
<1>6. /\ Children(g, b) = {l}
      /\ Children(g, l) = C
      /\ \A d \in DOMAIN R \ {b} : Children(g, d) = Children(R, d)
  <2>1. C = {x \in DOMAIN R : b \in R[x].parents}
    BY DEF C, Children
  <2> QED BY <1>1, <1>2, <1>3, <1>4, <2>1 DEF Children
<1>7. Exclusive(g)
  <2> SUFFICES ASSUME NEW d \in In(Blk, g), NEW c1 \in Children(g, d), NEW c2 \in Children(g, d)
               PROVE  c1 = c2
    BY DEF Exclusive
  <2>1. d \in Blk /\ d \in DOMAIN R \cup {l}
    BY <1>1 DEF In
  <2>2. \A x \in In(Blk, R) : \A y, z \in Children(R, x) : y = z
    BY DEF Fits, Shape, Exclusive
  <2> QED BY <1>2, <1>6, <2>1, <2>2 DEF C, In
<1>8. IsFiniteSet(DOMAIN g) /\ DOMAIN g \subseteq Device
  BY <1>1, <1>2, FS_AddElement DEF Fits, Shape
<1>9. Shape(g)
  BY <1>1, <1>5, <1>7, <1>8, BlankFields DEF Shape
<1>10. Kept(L, g)
  BY <1>1, <1>2, <1>3 DEF Fits, Kept
<1>11. Ordered(L, g)
  <2> SUFFICES ASSUME NEW S \in (SUBSET (DOMAIN L \cup DOMAIN g)) \ {{}}
               PROVE  \E x \in S : Over(L, g, x) \cap S = {}
    BY DEF Ordered
  <2>1. /\ Over(L, g, l) = {b}
        /\ \A x \in C : Over(L, R, x) = {b} /\ Over(L, g, x) = {l}
        /\ \A x \in (DOMAIN L \cup DOMAIN R) \ C : Over(L, g, x) = Over(L, R, x) /\ l \notin Over(L, R, x)
    BY <1>1, <1>3, <1>4 DEF Over, Shape, Placed
  <2>2. CASE S = {l}
    BY <1>2, <2>1, <2>2
  <2>3. CASE S # {l}
    <3>1. S \ {l} \in (SUBSET (DOMAIN L \cup DOMAIN R)) \ {{}}
      BY <1>1, <2>3
    <3>2. PICK x \in S \ {l} : Over(L, R, x) \cap (S \ {l}) = {}
      BY <3>1 DEF Fits, Ordered
    <3>3. CASE x \in C
      <4>1. b \notin S
        BY <1>2, <2>1, <3>2, <3>3
      <4> QED BY <2>1, <3>2, <3>3, <4>1
    <3>4. CASE x \notin C
      BY <2>1, <3>1, <3>2, <3>4
    <3> QED BY <3>3, <3>4
  <2> QED BY <2>2, <2>3
<1> QED BY <1>9, <1>10, <1>11 DEF Fits, g

WithPvs(g, v, Q) == [g EXCEPT ![v].parents = @ \cup Q]

\* A volume group gets physical volumes, which together with all that they are
\* on, T, do not include the volume group.
LEMMA PvsKeepFit ==
  ASSUME NEW L, NEW R, Fits(L, R), NEW v \in In(Vg, R), NEW Q \in SUBSET In(Pv, R),
         NEW T, v \notin T, Q \subseteq T, \A x \in T : Over(L, R, x) \subseteq T
  PROVE  Fits(L, WithPvs(R, v, Q))
<1> DEFINE g == WithPvs(R, v, Q)
<1>1. /\ DOMAIN g = DOMAIN R
      /\ \A x \in DOMAIN R : /\ DOMAIN g[x] = Fields
                             /\ g[x].parents = (IF x = v THEN R[v].parents \cup Q ELSE R[x].parents)
                             /\ g[x].name = R[x].name
  BY BlankFields DEF Fits, Shape, Fields, In, WithPvs
<1>2. v \in Vg /\ v \in DOMAIN R /\ v \notin MountPoint /\ Q \subseteq DOMAIN R /\ Q \subseteq Pv
  BY ClassAssumption DEF In
<1>3. Q \cap Blk = {}
  BY <1>2, ClassAssumption DEF Blk
<1> HIDE DEF g
<1>4. \A q \in Q : MayBeOn(v, q)
  BY <1>2 DEF MayBeOn
<1>5. \A x \in DOMAIN g : Placed(g, x)
  BY <1>1, <1>2, <1>4 DEF Fits, Shape, Placed
<1>6. \A b \in Blk : Children(g, b) = Children(R, b)
  BY <1>1, <1>3 DEF Children
<1>7. Exclusive(g)
  BY <1>1, <1>6 DEF Fits, Shape, Exclusive, In
<1>8. Shape(g)
  BY <1>1, <1>5, <1>7, BlankFields DEF Fits, Shape
<1>9. Kept(L, g)
  BY <1>1, <1>2 DEF Fits, Kept
<1>10. Ordered(L, g)
  <2> SUFFICES ASSUME NEW S \in (SUBSET (DOMAIN L \cup DOMAIN g)) \ {{}}
               PROVE  \E x \in S : Over(L, g, x) \cap S = {}
    BY DEF Ordered
  <2>1. /\ Over(L, g, v) = Over(L, R, v) \cup Q
        /\ \A x : x # v => Over(L, g, x) = Over(L, R, x)
    BY <1>1, <1>2 DEF Over
  <2>2. S \in (SUBSET (DOMAIN L \cup DOMAIN R)) \ {{}}
    BY <1>1
  <2>3. CASE S \cap T = {}
    <3>1. PICK x \in S : Over(L, R, x) \cap S = {}
      BY <2>2 DEF Fits, Ordered
    <3>2. Q \cap S = {}
      BY <2>3
    <3> QED BY <2>1, <3>1, <3>2
  <2>4. CASE S \cap T # {}
    <3>1. S \cap T \in (SUBSET (DOMAIN L \cup DOMAIN R)) \ {{}}
      BY <2>2, <2>4
    <3>2. PICK x \in S \cap T : Over(L, R, x) \cap (S \cap T) = {}
      BY <3>1 DEF Fits, Ordered
    <3> QED BY <2>1, <3>2
  <2> QED BY <2>3, <2>4
<1> QED BY <1>8, <1>9, <1>10 DEF Fits, g

\* Those on partitions: no volume group is under them.
LEMMA PvsOnPartitionsKeepFit ==
  ASSUME NEW L, NEW R, Fits(L, R), Shape(L), NEW v \in In(Vg, R), NEW Q \in SUBSET In(Pv, R),
         \A q \in Q : R[q].parents \subseteq Partition
  PROVE  Fits(L, WithPvs(R, v, Q))
<1> DEFINE T == Q \cup Partition \cup Table \cup Disk
<1>1. v \notin T
  BY ClassAssumption DEF In
<1>2. ASSUME NEW x \in T PROVE Over(L, R, x) \subseteq T
  <2>1. \A p \in Over(L, R, x) : MayBeOn(x, p)
    BY DEF Over, Fits, Shape, Placed
  <2>2. CASE x \in Q
    <3>1. x \in DOMAIN R /\ x \notin Vg
      BY <2>2, ClassAssumption DEF In
    <3>2. Over(L, R, x) = R[x].parents
      BY <3>1 DEF Over, Fits, Kept
    <3> QED BY <2>2, <3>2
  <2>3. CASE x \in Partition \cup Table \cup Disk
    BY <2>1, <2>3, OnWhat
  <2> QED BY <2>2, <2>3
<1> QED BY <1>1, <1>2, PvsKeepFit

\* The edits of a client, one by one, keep staging fit to the system.
LEMMA AddLvmPvKeepsFit ==
  ASSUME NEW L, NEW R, Fits(L, R), Shape(L),
         NEW v \in In(Vg, R), NEW b \in In(Partition, R), Children(R, b) \subseteq In(Pv, R),
         NEW pv \in Pv \ (DOMAIN L \cup DOMAIN R)
  PROVE  Fits(L, add_lvm_pv(R, v, b, pv))
<1>1. CASE Children(R, b) = {}
  <2> DEFINE g == Add(R, pv, Blank({b}))
  <2>1. /\ DOMAIN g = DOMAIN R \cup {pv}
        /\ \A x \in DOMAIN R : g[x] = R[x]
        /\ DOMAIN g[pv] = Fields /\ g[pv].parents = {b}
    BY BlankFields DEF Add
  <2>2. b \in Partition /\ b \in DOMAIN R /\ v \in Vg /\ v \in DOMAIN R
    BY DEF In
  <2>3. add_lvm_pv(R, v, b, pv) = WithPvs(g, v, {pv})
    BY <1>1 DEF add_lvm_pv, WithPvs
  <2> HIDE DEF g
  <2>4. Placed(g, pv)
    <3>1. MayBeOn(pv, b)
      BY <2>2 DEF MayBeOn, Blk
    <3> QED BY <2>1, <2>2, <3>1, ClassAssumption DEF Placed
  <2>5. pv \in Device \ (DOMAIN L \cup DOMAIN R \cup Disk)
    BY ClassAssumption DEF Device
  <2>6. Fits(L, g)
    BY <1>1, <2>1, <2>4, <2>5, LeafKeepsFit
  <2>7. v \in In(Vg, g) /\ {pv} \in SUBSET In(Pv, g) /\ \A q \in {pv} : g[q].parents \subseteq Partition
    BY <2>1, <2>2 DEF In
  <2> QED BY <2>3, <2>6, <2>7, PvsOnPartitionsKeepFit
<1>2. CASE Children(R, b) # {}
  <2>1. add_lvm_pv(R, v, b, pv) = WithPvs(R, v, Children(R, b))
    BY <1>2 DEF add_lvm_pv, WithPvs
  <2>2. ASSUME NEW q \in Children(R, b) PROVE R[q].parents \subseteq Partition
    <3>1. q \in DOMAIN R /\ b \in R[q].parents /\ q \notin Disk \cup Vg
      BY ClassAssumption DEF Children, In
    <3>2. R[q].parents = {b}
      BY <3>1 DEF Fits, Shape, Placed
    <3> QED BY <3>2 DEF In
  <2> QED BY <2>1, <2>2, PvsOnPartitionsKeepFit
<1> QED BY <1>1, <1>2

\* A new volume group.
LEMMA CreateLvmVgKeepsFit ==
  ASSUME NEW L, NEW R, Fits(L, R), Shape(L), NEW v \in Vg \ (DOMAIN L \cup DOMAIN R),
         NEW pv \in Pv \ (DOMAIN L \cup DOMAIN R), NEW name,
         NEW b \in In(Blk, R), Children(R, b) = {}
  PROVE  Fits(L, add_lvm_pv(create_lvm_vg(R, v, name), v, b, pv))
<1> DEFINE r == [Blank({}) EXCEPT !.name = name]
           h == Add(R, v, r)
           k == Add(R, pv, Blank({b}))
           g == add_lvm_pv(h, v, b, pv)
<1>1. v # pv /\ b # v /\ b # pv /\ b \in DOMAIN R /\ b \in Blk /\ v \notin DOMAIN R /\ pv \notin DOMAIN R
  BY ClassAssumption DEF In, Blk
<1>2. DOMAIN r = Fields /\ r.parents = {}
  BY BlankFields DEF Fields
<1> HIDE DEF r
<1>3. Children(h, b) = {}
  BY <1>1, <1>2 DEF Add, Children
<1>4. g = [Add(h, pv, Blank({b})) EXCEPT ![v].parents = @ \cup {pv}]
  BY <1>3 DEF add_lvm_pv
<1>5. /\ DOMAIN Add(h, pv, Blank({b})) = DOMAIN R \cup {v, pv}
      /\ Add(h, pv, Blank({b}))[v] = r
      /\ Add(h, pv, Blank({b}))[pv] = Blank({b})
      /\ \A x \in DOMAIN R : Add(h, pv, Blank({b}))[x] = R[x]
  BY <1>1 DEF Add
<1>6. /\ DOMAIN g = DOMAIN R \cup {v, pv}
      /\ DOMAIN g[v] = Fields /\ g[v].parents = {pv}
      /\ g[pv] = Blank({b})
      /\ \A x \in DOMAIN R : g[x] = R[x]
  <2> HIDE DEF h, g
  <2> QED BY <1>1, <1>2, <1>4, <1>5 DEF Fields
<1>7. /\ DOMAIN k = DOMAIN R \cup {pv} /\ k[pv] = Blank({b})
      /\ \A x \in DOMAIN R : k[x] = R[x]
  BY <1>1 DEF Add
<1>8. DOMAIN Blank({b}) = Fields /\ Blank({b}).parents = {b}
  BY BlankFields
<1> HIDE DEF h, k, g
<1>9. Fits(L, k)
  <2>1. MayBeOn(pv, b)
    BY <1>1 DEF MayBeOn
  <2>2. Placed(k, pv)
    <3>1. b \in DOMAIN k /\ k[pv].parents = {b} /\ pv \notin MountPoint
      BY <1>1, <1>7, <1>8, ClassAssumption
    <3> QED BY <2>1, <3>1 DEF Placed
  <2>3. pv \in Device \ (DOMAIN L \cup DOMAIN R \cup Disk)
    BY ClassAssumption DEF Device
  <2> QED BY <1>7, <1>8, <2>2, <2>3, LeafKeepsFit
<1>10. Fits(L, g)
  <2>1. MayBeOn(v, pv)
    BY DEF MayBeOn
  <2>2. Placed(g, v)
    BY <1>6, <2>1, ClassAssumption DEF Placed
  <2>3. v \in Device \ (DOMAIN L \cup DOMAIN k \cup Disk)
    BY <1>1, <1>7, ClassAssumption DEF Device
  <2>4. DOMAIN g = DOMAIN k \cup {v} /\ \A x \in DOMAIN k : g[x] = k[x]
    BY <1>6, <1>7
  <2>5. pv \notin Blk
    BY ClassAssumption DEF Blk
  <2> QED BY <1>6, <1>9, <2>2, <2>3, <2>4, <2>5, LeafKeepsFit
<1> QED BY <1>10 DEF g, h, r, create_lvm_vg

\* A new device on one that is there.
LEMMA AddKeepsFit ==
  ASSUME NEW L, NEW R, Fits(L, R), Shape(L), NEW S \in SUBSET Device, S \cap (Disk \cup Vg) = {},
         NEW d \in S \ (DOMAIN L \cup DOMAIN R), NEW b \in DOMAIN R, MayBeOn(d, b),
         b \in Blk => Children(R, b) = {},
         NEW r, DOMAIN r = Fields, r.parents = {b}, d \in MountPoint => r.name \in Seq(STRING)
  PROVE  Fits(L, Add(R, d, r))
<1> DEFINE g == Add(R, d, r)
<1>1. DOMAIN g = DOMAIN R \cup {d} /\ g[d] = r /\ \A x \in DOMAIN R : g[x] = R[x]
  BY DEF Add
<1> HIDE DEF g
<1>2. Placed(g, d)
  BY <1>1 DEF Placed
<1>3. d \in Device \ (DOMAIN L \cup DOMAIN R \cup Disk)
  OBVIOUS
<1>4. Fits(L, g)
  BY <1>1, <1>2, <1>3, LeafKeepsFit
<1> QED BY <1>4 DEF g

\* A partition is deleted and those behind it get other numbers.
LEMMA DeletePartitionKeepsFit ==
  ASSUME NEW L, NEW R, Fits(L, R), NEW p \in In(Partition, R), NEW S
  PROVE  Fits(L, delete_partition(R, S, p))
<1> DEFINE rest == Remove(R, Descendants(R, p) \cup {p})
           g == delete_partition(R, S, p)
<1>1. p \in DOMAIN R \ Disk /\ p \in Partition
  BY ClassAssumption DEF In
<1>2. Fits(L, rest)
  BY <1>1, DeleteKeepsFit
<1>3. R[p].parents \subseteq Table /\ Parent(R, p) \in R[p].parents
  BY <1>1, OnWhat, ClassAssumption DEF Fits, Shape, Placed, Parent
<1>4. /\ DOMAIN g = DOMAIN rest
      /\ \A c \in DOMAIN rest :
            \/ g[c] = rest[c]
            \/ c \in Children(rest, Parent(R, p)) /\ \E n : g[c] = [rest[c] EXCEPT !.name = n]
  BY DEF delete_partition
<1> HIDE DEF rest, g
<1>5. \A c \in Children(rest, Parent(R, p)) : c \notin MountPoint
  <2>1. \A c \in Children(rest, Parent(R, p)) : c \in DOMAIN rest /\ MayBeOn(c, Parent(R, p))
    BY <1>2 DEF Children, Fits, Shape, Placed
  <2> QED BY <1>3, <2>1, OnWhat, ClassAssumption
<1>6. \A c \in DOMAIN rest : /\ DOMAIN g[c] = Fields
                             /\ g[c].parents = rest[c].parents
                             /\ c \in MountPoint => g[c].name \in Seq(STRING)
  <2>1. \A c \in DOMAIN rest : /\ DOMAIN rest[c] = Fields
                               /\ c \in MountPoint => rest[c].name \in Seq(STRING)
    BY <1>2, BlankFields DEF Fits, Shape, Placed
  <2> QED BY <1>4, <1>5, <2>1 DEF Fields
<1>7. Fits(L, g)
  BY <1>2, <1>4, <1>6, AttributesKeepFit
<1> QED BY <1>7 DEF g

-----------------------------------------------------------------------------
(* The actions from L to R.                                                *)

Acts(ops, S) == {Act(x[1], x[2]) : x \in ops \X S}

\* The fields of an action.
LEMMA InActs ==
  ASSUME NEW ops, NEW S
  PROVE  /\ \A op \in ops, d \in S : Act(op, d) \in Acts(ops, S)
         /\ \A a \in Acts(ops, S) : a.op \in ops /\ a.sid \in S /\ a = Act(a.op, a.sid)
<1>1. ASSUME NEW op \in ops, NEW d \in S PROVE Act(op, d) \in Acts(ops, S)
  <2>1. <<op, d>> \in ops \X S /\ Act(op, d) = Act(<<op, d>>[1], <<op, d>>[2])
    OBVIOUS
  <2> QED BY <2>1 DEF Acts
<1>2. ASSUME NEW a \in Acts(ops, S) PROVE a.op \in ops /\ a.sid \in S /\ a = Act(a.op, a.sid)
  BY DEF Acts, Act
<1> QED BY <1>1, <1>2

\* What When() and joined lists of actions are.
LEMMA Pieces ==
  ASSUME NEW X
  PROVE  /\ \A c, op, d : Act(op, d) \in X => When(c, op, d) \in Seq(X)
         /\ \A op, T : (\A x \in T : Act(op, x) \in X) => One(op, T) \in Seq(X)
         /\ \A s, t \in Seq(X) : s \o t \in Seq(X)
<1>1. \A x \in X : <<x>> \in Seq(X)
  OBVIOUS
<1>2. << >> \in Seq(X)
  OBVIOUS
<1>3. ASSUME NEW c, NEW op, NEW d, Act(op, d) \in X
      PROVE  When(c, op, d) \in Seq(X)
  BY <1>1, <1>2, <1>3 DEF When
<1>4. ASSUME NEW op, NEW T, \A x \in T : Act(op, x) \in X PROVE One(op, T) \in Seq(X)
  <2>1. CASE T = {}
    BY <1>2, <2>1 DEF One
  <2>2. CASE T # {}
    <3>1. (CHOOSE x \in T : TRUE) \in T
      BY <2>2
    <3> QED BY <1>1, <1>4, <2>2, <3>1 DEF One
  <2> QED BY <2>1, <2>2
<1>5. \A s, t \in Seq(X) : s \o t \in Seq(X)
  BY ConcatProperties
<1> QED BY <1>3, <1>4, <1>5

CreateOps(d) == IF d \in MountPoint THEN {"mount", "add_fstab"}
                                   ELSE {"create", "activate", "add_crypttab"}
DeleteOps(d) == IF d \in MountPoint THEN {"remove_fstab", "unmount"}
                ELSE IF d \in Luks THEN {"remove_crypttab", "deactivate", "delete"}
                ELSE {"delete"}
MountOps == {"mount", "unmount", "add_fstab", "update_fstab", "remove_fstab"}

\* What the actions of a new device are.
LEMMA CreateChainActions ==
  ASSUME NEW R, NEW d
  PROVE  /\ CreateChain(R, d).actions \in Seq(Acts(CreateOps(d), {d}))
         /\ CreateChain(R, d).rank = 1
<1> DEFINE X == Acts(CreateOps(d), {d})
           c == CreateChain(R, d)
           Q == c.actions \in Seq(X) /\ c.rank = 1
<1>1. /\ \A op \in CreateOps(d) : \A on : When(on, op, d) \in Seq(X)
      /\ \A s, t \in Seq(X) : s \o t \in Seq(X)
  BY Pieces, InActs
<1>2. \A op \in CreateOps(d) : Act(op, d) \in X
  BY InActs
<1> HIDE DEF X
<1>3. ASSUME d \in MountPoint PROVE Q
  <2>1. c = Chain(1, When(R[d].active, "mount", d) \o When(R[d].listed, "add_fstab", d))
    BY <1>3, ClassAssumption DEF CreateChain
  <2> HIDE DEF c
  <2>2. "mount" \in CreateOps(d) /\ "add_fstab" \in CreateOps(d)
    BY <1>3 DEF CreateOps
  <2> QED BY <1>1, <2>1, <2>2 DEF Chain
<1>4. ASSUME d \in Luks PROVE Q
  <2>1. c.rank = 1 /\ c.actions = <<Act("create", d), Act("activate", d)>>
                                  \o When(R[d].listed, "add_crypttab", d)
    BY <1>4, ClassAssumption DEF CreateChain
  <2> HIDE DEF c
  <2>2. {"create", "activate", "add_crypttab"} \subseteq CreateOps(d)
    BY <1>4, ClassAssumption DEF CreateOps
  <2>3. <<Act("create", d), Act("activate", d)>> \in Seq(X)
    BY <1>2, <2>2
  <2> QED BY <1>1, <2>1, <2>2, <2>3
<1>5. ASSUME d \notin MountPoint \cup Luks PROVE Q
  <2>1. c = Chain(1, <<Act("create", d)>>)
    BY <1>5 DEF CreateChain
  <2>2. Act("create", d) \in X
    BY <1>2, <1>5 DEF CreateOps
  <2> HIDE DEF c
  <2> QED BY <2>1, <2>2 DEF Chain
<1>6. Q
  BY <1>3, <1>4, <1>5
<1> QED BY <1>6 DEF X

\* What the actions of a deleted device are.
LEMMA DeleteChainActions ==
  ASSUME NEW L, NEW d
  PROVE  /\ DeleteChain(L, d).actions \in Seq(Acts(DeleteOps(d), {d}))
         /\ DeleteChain(L, d).rank = 4
         /\ d \notin MountPoint => LET s == DeleteChain(L, d).actions
                                   IN  Len(s) \in 1 .. 3 /\ s[Len(s)] = Act("delete", d)
<1> DEFINE X == Acts(DeleteOps(d), {d})
           s == DeleteChain(L, d).actions
           c == DeleteChain(L, d)
           last == <<Act("delete", d)>>
           Q == /\ s \in Seq(X)
                /\ c.rank = 4
                /\ d \notin MountPoint => Len(s) \in 1 .. 3 /\ s[Len(s)] = Act("delete", d)
<1>1. /\ \A op \in DeleteOps(d) : \A on : When(on, op, d) \in Seq(X)
      /\ \A t, u \in Seq(X) : t \o u \in Seq(X)
  BY Pieces, InActs
<1>2. \A op \in DeleteOps(d) : Act(op, d) \in X
  BY InActs
<1>3. \A on, op : Len(When(on, op, d)) \in 0 .. 1
  BY DEF When
<1> HIDE DEF X
<1>4. ASSUME d \in MountPoint PROVE Q
  <2>1. c = Chain(4, When(L[d].listed, "remove_fstab", d) \o When(L[d].active, "unmount", d))
    BY <1>4, ClassAssumption DEF DeleteChain
  <2>2. c.rank = 4 /\ s = When(L[d].listed, "remove_fstab", d) \o When(L[d].active, "unmount", d)
    BY <2>1 DEF Chain
  <2>3. "remove_fstab" \in DeleteOps(d) /\ "unmount" \in DeleteOps(d)
    BY <1>4 DEF DeleteOps
  <2> HIDE DEF s, c
  <2> QED BY <1>1, <1>4, <2>2, <2>3
<1>5. ASSUME d \in Luks PROVE Q
  <2> DEFINE u == When(L[d].listed, "remove_crypttab", d)
             v == When(L[d].active, "deactivate", d)
  <2>1. c = Chain(4, u \o v \o last)
    BY <1>5, ClassAssumption DEF DeleteChain
  <2>2. {"remove_crypttab", "deactivate", "delete"} \subseteq DeleteOps(d)
    BY <1>5, ClassAssumption DEF DeleteOps
  <2>3. u \in Seq(X) /\ v \in Seq(X) /\ u \o v \in Seq(X) /\ Len(u) \in 0 .. 1 /\ Len(v) \in 0 .. 1
    BY <1>1, <1>3, <2>2
  <2>4. last \in Seq(X)
    BY <1>2, <2>2
  <2> HIDE DEF u, v
  <2>5. Len(u \o v) = Len(u) + Len(v)
    BY <2>3, ConcatProperties
  <2>6. s = (u \o v) \o last /\ c.rank = 4 /\ Len(last) = 1 /\ last[1] = Act("delete", d)
    BY <2>1 DEF Chain
  <2>7. PICK w : w = u \o v
    OBVIOUS
  <2>8. w \in Seq(X) /\ Len(w) \in 0 .. 2 /\ s = w \o last
    BY <2>3, <2>5, <2>6, <2>7
  <2> HIDE DEF s, c, last
  <2>9. s \in Seq(X) /\ Len(s) = Len(w) + 1
    <3>1. w \o last \in Seq(X) /\ Len(w \o last) = Len(w) + Len(last)
      BY <2>4, <2>8, ConcatProperties
    <3> QED BY <2>6, <2>8, <3>1
  <2>10. s[Len(w) + 1] = last[1]
    BY <2>4, <2>6, <2>8, <2>9
  <2> QED BY <2>6, <2>8, <2>9, <2>10
<1>6. ASSUME d \notin MountPoint \cup Luks PROVE Q
  <2>1. c = Chain(4, last)
    BY <1>6 DEF DeleteChain
  <2>2. c.rank = 4 /\ s = last
    BY <2>1 DEF Chain
  <2>3. Len(last) = 1 /\ last[1] = Act("delete", d)
    OBVIOUS
  <2>4. last \in Seq(X)
    <3>1. Act("delete", d) \in X
      BY <1>2, <1>6 DEF DeleteOps
    <3> QED BY <3>1
  <2> HIDE DEF last, c, s
  <2> QED BY <2>2, <2>3, <2>4
<1>7. Q
  BY <1>4, <1>5, <1>6
<1> QED BY <1>7 DEF X

\* What the actions of a mount point in both graphs are.
LEMMA MountPointChainActions ==
  ASSUME NEW L, NEW R, NEW m
  PROVE  /\ MountPointChain(L, R, m).actions \in Seq(Acts(MountOps, {m}))
         /\ MountPointChain(L, R, m).rank = 3
<1> DEFINE X == Acts(MountOps, {m})
<1>1. /\ \A op \in MountOps : \A c : When(c, op, m) \in Seq(X)
      /\ \A t, u \in Seq(X) : t \o u \in Seq(X)
  BY Pieces, InActs
<1>2. {"remove_fstab", "unmount", "update_fstab", "mount", "add_fstab"} \subseteq MountOps
  BY DEF MountOps
<1> HIDE DEF X
<1>3. /\ MountPointChain(L, R, m).actions \in Seq(X)
      /\ MountPointChain(L, R, m).rank = 3
  BY <1>1, <1>2 DEF MountPointChain, Chain
<1> QED BY <1>3 DEF X

\* Mount points are mounted as in R and unmounted as in L.
ResizeActs(L, R) == Acts({"shrink", "grow"}, Device) \cup Acts({"mount"}, MountPoint \cap DOMAIN R)
                    \cup Acts({"unmount"}, MountPoint \cap DOMAIN L)

\* What the actions of a resize are.
LEMMA ResizeChainActions ==
  ASSUME NEW L, NEW R, NEW b \in Device
  PROVE  /\ ResizeChain(L, R, b).actions \in Seq(ResizeActs(L, R))
         /\ ResizeChain(L, R, b).rank = 2
<1> DEFINE X == ResizeActs(L, R)
<1>1. /\ \A op \in {"shrink", "grow"}, d \in Device : Act(op, d) \in X
      /\ \A m \in MountPoint \cap DOMAIN R : Act("mount", m) \in X
      /\ \A m \in MountPoint \cap DOMAIN L : Act("unmount", m) \in X
  BY InActs DEF ResizeActs
<1> HIDE DEF X
<1>2. /\ \A op, T : (\A x \in T : Act(op, x) \in X) => One(op, T) \in Seq(X)
      /\ \A t, u \in Seq(X) : t \o u \in Seq(X)
  BY Pieces
<1>3. <<Act("shrink", b)>> \in Seq(X) /\ <<Act("grow", b)>> \in Seq(X) /\ << >> \in Seq(X)
  BY <1>1
<1>4. \A g, h : LuksOn(g, b) \cap DOMAIN h \subseteq Device /\ ContentOn(g, b) \cap DOMAIN h \subseteq Device
  BY DEF LuksOn, ContentOn, Device, Blk
<1>5. Shrinks(L, R, b) \in Seq(X) /\ Grows(L, R, b) \in Seq(X)
  <2>1. \A op \in {"shrink", "grow"} : \A T \in SUBSET Device : One(op, T) \in Seq(X)
    BY <1>1, <1>2
  <2> QED BY <1>2, <1>4, <2>1 DEF Shrinks, Grows
<1>6. \A S : InsertMountAction("mount", R, L, S) \in Seq(X) /\ InsertMountAction("unmount", L, R, S) \in Seq(X)
  BY <1>1, <1>2 DEF InsertMountAction
<1>7. ResizeChain(L, R, b).actions \in Seq(X) /\ ResizeChain(L, R, b).rank = 2
  BY <1>2, <1>3, <1>5, <1>6 DEF ResizeChain, Chain
<1> QED BY <1>7 DEF X

\* An action of a resize resizes, or unmounts or mounts a mount point that is there.
LEMMA InResizeActs ==
  ASSUME NEW L, NEW R, NEW a \in ResizeActs(L, R)
  PROVE  /\ a.op \in {"shrink", "grow", "mount", "unmount"}
         /\ a.op = "mount" => a.sid \in MountPoint \cap DOMAIN R
         /\ a.op = "unmount" => a.sid \in MountPoint \cap DOMAIN L
BY InActs DEF ResizeActs

\* What is among the elements of a list.
LEMMA InChain ==
  ASSUME NEW X, NEW s \in Seq(X), NEW a \in Elements(s)
  PROVE  a \in X /\ \E i \in 1 .. Len(s) : a = s[i]
BY DEF Elements

\* Where the actions that change the set of devices come from.
LEMMA ActionFacts ==
  ASSUME NEW L, NEW R, NEW a \in Actions(L, R)
  PROVE  /\ a.op = "create" => a.sid \in DOMAIN R \ (DOMAIN L \cup MountPoint)
         /\ a.op = "delete" => a.sid \in DOMAIN L \ (DOMAIN R \cup MountPoint)
         /\ a.op = "deactivate" => a.sid \in Luks \cap (DOMAIN L \ DOMAIN R)
         /\ a.op = "extend" => /\ a.sid \in DOMAIN L \cap DOMAIN R
                               /\ a.dev \in R[a.sid].parents \ L[a.sid].parents
         /\ a.op = "reduce" => /\ a.sid \in DOMAIN L \cap DOMAIN R
                               /\ a.dev \in L[a.sid].parents \ R[a.sid].parents
         /\ a.op \in {"delete", "deactivate"} => a \in Elements(DeleteChain(L, a.sid).actions)
         /\ a.op \in {"create", "delete", "deactivate"} => a = Act(a.op, a.sid)
         /\ a.op \in {"mount", "add_fstab", "update_fstab"} => a.sid \in MountPoint \cap DOMAIN R
         /\ a.op \in {"unmount", "remove_fstab"} => a.sid \in MountPoint \cap DOMAIN L
<1>1. CASE \E d \in DOMAIN R \ DOMAIN L : a \in Elements(CreateChain(R, d).actions)
  <2>1. PICK d \in DOMAIN R \ DOMAIN L : a \in Elements(CreateChain(R, d).actions)
    BY <1>1
  <2>2. a \in Acts(CreateOps(d), {d})
    BY <2>1, CreateChainActions, InChain
  <2>3. a.sid = d /\ a.op \in CreateOps(d) /\ a = Act(a.op, a.sid)
    BY <2>2, InActs
  <2> QED BY <2>1, <2>3 DEF CreateOps
<1>2. CASE \E d \in DOMAIN L \ DOMAIN R : a \in Elements(DeleteChain(L, d).actions)
  <2>1. PICK d \in DOMAIN L \ DOMAIN R : a \in Elements(DeleteChain(L, d).actions)
    BY <1>2
  <2>2. a \in Acts(DeleteOps(d), {d})
    BY <2>1, DeleteChainActions, InChain
  <2>3. a.sid = d /\ a.op \in DeleteOps(d) /\ a = Act(a.op, a.sid)
    BY <2>2, InActs
  <2> QED BY <2>1, <2>3 DEF DeleteOps
<1>3. CASE \E m \in MountPoint \cap DOMAIN L \cap DOMAIN R : a \in Elements(MountPointChain(L, R, m).actions)
  <2>1. PICK m \in MountPoint \cap DOMAIN L \cap DOMAIN R : a \in Elements(MountPointChain(L, R, m).actions)
    BY <1>3
  <2>2. a \in Acts(MountOps, {m})
    BY <2>1, MountPointChainActions, InChain
  <2>3. a.op \in MountOps /\ a.sid = m
    BY <2>2, InActs
  <2> QED BY <2>3 DEF MountOps
<1>4. CASE \E b \in Partition \cup Lv : a \in Elements(ResizeChain(L, R, b).actions)
  <2>1. PICK b \in Partition \cup Lv : a \in Elements(ResizeChain(L, R, b).actions)
    BY <1>4
  <2>2. b \in Device
    BY <2>1 DEF Device, Blk
  <2>3. a \in ResizeActs(L, R)
    BY <2>1, <2>2, ResizeChainActions, InChain
  <2> QED BY <2>3, InResizeActs
<1>5. CASE a \in Singles(L, R)
  <2>1. \/ \E d \in DOMAIN L \cap DOMAIN R : \E p \in R[d].parents \ L[d].parents : a = Reallot("extend", d, p)
        \/ \E d \in DOMAIN L \cap DOMAIN R : \E p \in L[d].parents \ R[d].parents : a = Reallot("reduce", d, p)
        \/ \E l : a = Act("add_crypttab", l) \/ a = Act("remove_crypttab", l)
    BY <1>5 DEF Singles
  <2> QED BY <2>1 DEF Reallot, Act
<1>6. (\E c \in Chains(L, R) : a \in Elements(c.actions)) \/ a \in Singles(L, R)
  BY DEF Actions
<1>7. ASSUME NEW c \in Chains(L, R)
      PROVE  \/ \E d \in DOMAIN R \ DOMAIN L : c = CreateChain(R, d)
             \/ \E d \in DOMAIN L \ DOMAIN R : c = DeleteChain(L, d)
             \/ \E m \in MountPoint \cap DOMAIN L \cap DOMAIN R : c = MountPointChain(L, R, m)
             \/ \E b \in Partition \cup Lv : c = ResizeChain(L, R, b)
  BY DEF Chains
<1> QED BY <1>1, <1>2, <1>3, <1>4, <1>5, <1>6, <1>7

\* A device that is to go has its deletion.
LEMMA Deleted ==
  ASSUME NEW L, NEW R, NEW d \in DOMAIN L \ (DOMAIN R \cup MountPoint)
  PROVE  Act("delete", d) \in Actions(L, R)
<1> DEFINE s == DeleteChain(L, d).actions
<1>1. Len(s) \in 1 .. 3 /\ s[Len(s)] = Act("delete", d) /\ s \in Seq(Acts(DeleteOps(d), {d}))
  BY DeleteChainActions
<1>2. DeleteChain(L, d) \in Chains(L, R)
  BY DEF Chains
<1> HIDE DEF s
<1>3. Act("delete", d) \in Elements(s)
  <2>1. Len(s) \in DOMAIN s
    BY <1>1
  <2> QED BY <1>1, <2>1 DEF Elements
<1> QED BY <1>2, <1>3 DEF Actions, s

\* The first action of the chain of a device that is deleted counts as first.
LEMMA DeleteChainMarks ==
  ASSUME NEW L, NEW R, NEW d \in DOMAIN L \ (DOMAIN R \cup MountPoint)
  PROVE  DeleteChain(L, d).actions[1] \in FirstActions(Chains(L, R), Actions(L, R), d)
<1> DEFINE k == DeleteChain(L, d)
           a == k.actions[1]
           C == Chains(L, R)
<1>1. /\ k.actions \in Seq(Acts(DeleteOps(d), {d})) /\ Len(k.actions) \in 1 .. 3 /\ k.rank = 4
      /\ k.actions[Len(k.actions)] = Act("delete", d)
  BY DeleteChainActions
<1>2. k \in C
  BY DEF Chains
<1>3. a \in Elements(k.actions) /\ a \in Acts(DeleteOps(d), {d})
  <2> HIDE DEF k
  <2> QED BY <1>1 DEF Elements
<1>4. a.op \in DeleteOps(d) /\ a.sid = d
  BY <1>3, InActs
<1>5. a \in Actions(L, R)
  BY <1>2, <1>3 DEF Actions
\* It is in no chain with a lower rank.
<1>6. ASSUME NEW c \in C, a \in Elements(c.actions) PROVE 4 <= c.rank
  <2>1. CASE \E y \in DOMAIN R \ DOMAIN L : c = CreateChain(R, y)
    <3>1. PICK y \in DOMAIN R \ DOMAIN L : c = CreateChain(R, y)
      BY <2>1
    <3>2. a \in Acts(CreateOps(y), {y})
      BY <1>6, <3>1, CreateChainActions, InChain
    <3>3. a.sid = y
      BY <3>2, InActs
    <3> QED BY <1>4, <3>1, <3>3
  <2>2. CASE \E y : c = DeleteChain(L, y)
    <3>1. PICK y : c = DeleteChain(L, y)
      BY <2>2
    <3>2. c.rank = 4
      BY <3>1, DeleteChainActions
    <3> HIDE DEF k
    <3> QED BY <3>2
  <2>3. CASE \E m \in DOMAIN R : c = MountPointChain(L, R, m)
    <3>1. PICK m \in DOMAIN R : c = MountPointChain(L, R, m)
      BY <2>3
    <3>2. a \in Acts(MountOps, {m})
      BY <1>6, <3>1, MountPointChainActions, InChain
    <3>3. a.sid = m
      BY <3>2, InActs
    <3> QED BY <1>4, <3>3
  <2>4. CASE \E b \in Partition \cup Lv : c = ResizeChain(L, R, b)
    <3>1. PICK b \in Partition \cup Lv : c = ResizeChain(L, R, b)
      BY <2>4
    <3>2. b \in Device
      BY <3>1 DEF Device, Blk
    <3>3. a \in ResizeActs(L, R)
      BY <1>6, <3>1, <3>2, ResizeChainActions, InChain
    <3>4. a.op \in {"shrink", "grow", "mount", "unmount"}
      BY <3>3, InResizeActs
    <3> HIDE DEF k
    <3> QED BY <1>4, <3>4 DEF DeleteOps
  <2> QED BY <2>1, <2>2, <2>3, <2>4 DEF Chains
<1> DEFINE A == Actions(L, R)
<1>7. a \in FirstActions(C, A, d)
  <2> HIDE DEF C, A
  <2>1. \A c \in C : a \in Elements(c.actions) => k.rank <= c.rank
    BY <1>1, <1>6
  <2>2. k \in Marking(C, a)
    <3> HIDE DEF k
    <3> QED BY <1>2, <1>3, <2>1 DEF Marking
  <2> QED BY <1>4, <1>5, <2>2 DEF FirstActions, A
<1> QED BY <1>7

Order(L, R) == Dependencies(Chains(L, R), Actions(L, R), L, R)

\* Whatever comes after one of the actions T is one of them.
Onward(L, R, T) == \A p \in Order(L, R) : p[1] \in T /\ p[2] \in Actions(L, R) => p[2] \in T

\* As long as an action is to be committed that removes something on a device,
\* no action of the chain of the device that is deleted is committed.
LEMMA DeletedAfterChildren ==
  ASSUME NEW L, NEW R, NEW T \in SUBSET Actions(L, R),
         NEW d \in DOMAIN L \ (DOMAIN R \cup MountPoint),
         Onward(L, R, T),
         NEW z \in T, is_delete(z), d \in L[z.sid].parents,
         NEW a \in Elements(DeleteChain(L, d).actions)
  PROVE  \E p \in Order(L, R) : p[2] = a /\ p[1] \in T
<1> DEFINE s == DeleteChain(L, d).actions
           C == Chains(L, R)
           A == Actions(L, R)
<1>1. s \in Seq(Acts(DeleteOps(d), {d})) /\ Len(s) \in 1 .. 3
  BY DeleteChainActions
<1>2. DeleteChain(L, d) \in C
  BY DEF Chains
<1>3. Elements(s) \subseteq A
  BY <1>2 DEF Actions
<1>4. s[1] \in FirstActions(C, A, d)
  BY DeleteChainMarks
<1>5. <<z, s[1]>> \in Order(L, R)
  <2>1. <<z, s[1]>> \in DeleteDependencies(C, A, L)
    <3> HIDE DEF s, C, A
    <3>1. s[1] \in UNION {FirstActions(C, A, p) : p \in L[z.sid].parents}
      BY <1>4
    <3>2. z \in {x \in A : is_delete(x)}
      BY DEF A
    <3> QED BY <3>1, <3>2 DEF DeleteDependencies
  <2> QED BY <2>1 DEF Dependencies, Order
<1>6. ASSUME NEW i \in 1 .. Len(s) - 1 PROVE <<s[i], s[i + 1]>> \in Order(L, R)
  <2>1. <<s[i], s[i + 1]>> \in ChainDependencies(C)
    BY <1>2 DEF ChainDependencies
  <2> QED BY <2>1 DEF Dependencies, Order
<1> HIDE DEF s, C
<1>7. \A i \in 1 .. Len(s) : s[i] \in A
  BY <1>1, <1>3 DEF Elements
<1>13. \A p \in Order(L, R) : p[1] \in T /\ p[2] \in A => p[2] \in T
  BY DEF Onward
<1>8. s[1] \in T
  BY <1>1, <1>5, <1>7, <1>13
<1>9. PICK k \in 1 .. Len(s) : a = s[k]
  BY <1>1 DEF Elements, s
<1>10. CASE k = 1
  BY <1>5, <1>9, <1>10
<1>11. CASE k = 2
  <2>1. <<s[1], s[2]>> \in Order(L, R)
    BY <1>6, <1>9, <1>11
  <2> QED BY <1>8, <1>9, <1>11, <2>1
<1>12. CASE k = 3
  <2>1. <<s[1], s[2]>> \in Order(L, R) /\ <<s[2], s[3]>> \in Order(L, R) /\ s[2] \in A
    BY <1>1, <1>6, <1>7, <1>9, <1>12
  <2>2. s[2] \in T
    BY <1>8, <1>13, <2>1
  <2> QED BY <1>9, <1>12, <2>1, <2>2
<1> QED BY <1>1, <1>9, <1>10, <1>11, <1>12

-----------------------------------------------------------------------------
(* The edits.                                                              *)

\* A device that a client creates is new in both graphs.
LEMMA NewDevice ==
  ASSUME NEW S, NEW d \in New(S)
  PROVE  d \in S \ (DOMAIN staging \cup DOMAIN system)
BY DEF New

Edited == /\ phase = "edit" /\ UNCHANGED <<probed, system, world, mounts, fstab, crypttab, phase,
                                           todo, deps, clear, ignored>>

\* Whatever the client does with staging, it fits the system.
LEMMA EditsFit ==
  ASSUME Shape(probed), Fits(probed, staging), system = probed, EditStaging
  PROVE  Fits(probed, staging') /\ Edited
<1> DEFINE Q == Fits(probed, staging') /\ Edited
<1>1. ASSUME NEW g, Edit(g), Fits(probed, g) PROVE Q
  BY <1>1 DEF Edit, Edited
<1>2. \A d \in DOMAIN staging : /\ DOMAIN staging[d] = Fields
                                /\ d \in MountPoint => staging[d].name \in Seq(STRING)
  BY BlankFields DEF Fits, Shape, Placed
\* Attributes.
<1>3. ASSUME NEW d \in DOMAIN staging, NEW n, NEW g,
             \/ g = set_size(staging, d, n) \/ g = set_active(staging, d, n)
             \/ g = set_in_etc_fstab(staging, d, n) \/ g = set_in_etc_crypttab(staging, d, n)
             \/ g = set_path(staging, d, n) /\ n \in Seq(STRING)
      PROVE  Fits(probed, g)
  <2>1. DOMAIN g = DOMAIN staging
    BY <1>3 DEF set_size, set_active, set_in_etc_fstab, set_in_etc_crypttab, set_path
  <2>2. \A x \in DOMAIN staging : /\ DOMAIN g[x] = Fields
                                  /\ g[x].parents = staging[x].parents
                                  /\ x \in MountPoint => g[x].name \in Seq(STRING)
    BY <1>2, <1>3 DEF set_size, set_active, set_in_etc_fstab, set_in_etc_crypttab, set_path, Fields
  <2> QED BY <2>1, <2>2, AttributesKeepFit
\* New devices.
<1>4. \A S : DOMAIN Blank(S) = Fields /\ Blank(S).parents = S
  BY BlankFields
<1>5. ASSUME CreatePartitionTable PROVE Q
  <2>1. PICK d \in In(Disk, staging), t \in New(Table) :
           Children(staging, d) = {} /\ Edit(create_partition_table(staging, d, t))
    BY <1>5 DEF CreatePartitionTable
  <2>2. /\ t \in Table \ (DOMAIN probed \cup DOMAIN staging) /\ MayBeOn(t, d) /\ d \in DOMAIN staging
        /\ t \notin MountPoint /\ Table \in SUBSET Device /\ Table \cap (Disk \cup Vg) = {}
    BY NewDevice, ClassAssumption DEF In, MayBeOn, Device
  <2>3. Fits(probed, create_partition_table(staging, d, t))
    BY <1>4, <2>1, <2>2, AddKeepsFit DEF create_partition_table
  <2> QED BY <1>1, <2>1, <2>3
<1>6. ASSUME CreatePartition PROVE Q
  <2>1. PICK t \in In(Table, staging), p \in New(Partition) : \E start, size :
           Edit(create_partition(staging, t, p, start, size))
    BY <1>6 DEF CreatePartition
  <2>2. PICK start, size : Edit(create_partition(staging, t, p, start, size))
    BY <2>1
  <2>3. /\ p \in Partition \ (DOMAIN probed \cup DOMAIN staging) /\ MayBeOn(p, t) /\ t \in DOMAIN staging
        /\ p \notin MountPoint /\ Partition \in SUBSET Device /\ Partition \cap (Disk \cup Vg) = {}
        /\ t \notin Blk
    BY NewDevice, ClassAssumption DEF In, MayBeOn, Device, Blk
  <2> DEFINE r == [Blank({t}) EXCEPT !.start = start, !.size = size, !.name = FreeNumber(staging, t)]
  <2>4. DOMAIN r = Fields /\ r.parents = {t}
    BY <1>4 DEF Fields
  <2>5. create_partition(staging, t, p, start, size) = Add(staging, p, r)
    BY DEF create_partition
  <2> HIDE DEF r
  <2>6. Fits(probed, Add(staging, p, r))
    BY <2>3, <2>4, AddKeepsFit
  <2> QED BY <1>1, <2>2, <2>5, <2>6
<1>7. ASSUME CreateBlkFilesystem PROVE Q
  <2>1. PICK b \in Usable, f \in New(Filesystem) : Edit(create_blk_filesystem(staging, b, f))
    BY <1>7 DEF CreateBlkFilesystem
  <2>2. b \in DOMAIN staging /\ b \in Blk /\ Children(staging, b) = {}
    BY DEF Usable, In, Blk
  <2>3. /\ f \in Filesystem \ (DOMAIN probed \cup DOMAIN staging) /\ MayBeOn(f, b)
        /\ f \notin MountPoint /\ Filesystem \in SUBSET Device /\ Filesystem \cap (Disk \cup Vg) = {}
    BY <2>2, NewDevice, ClassAssumption DEF MayBeOn, Device
  <2>4. Fits(probed, create_blk_filesystem(staging, b, f))
    BY <1>4, <2>2, <2>3, AddKeepsFit DEF create_blk_filesystem
  <2> QED BY <1>1, <2>1, <2>4
<1>8. ASSUME CreateMountPoint PROVE Q
  <2>1. PICK f \in In(Filesystem, staging), m \in New(MountPoint), path \in Path : \E active, listed :
           Edit(create_mount_point(staging, f, m, path, active, listed))
    BY <1>8 DEF CreateMountPoint
  <2>2. PICK active, listed : Edit(create_mount_point(staging, f, m, path, active, listed))
    BY <2>1
  <2>3. /\ m \in MountPoint \ (DOMAIN probed \cup DOMAIN staging) /\ MayBeOn(m, f) /\ f \in DOMAIN staging
        /\ MountPoint \in SUBSET Device /\ MountPoint \cap (Disk \cup Vg) = {}
        /\ f \notin Blk
    BY NewDevice, ClassAssumption DEF In, MayBeOn, Device, Blk
  <2> DEFINE r == [Blank({f}) EXCEPT !.name = path, !.active = active, !.listed = listed]
  <2>4. DOMAIN r = Fields /\ r.parents = {f} /\ r.name = path
    BY <1>4 DEF Fields
  <2>5. create_mount_point(staging, f, m, path, active, listed) = Add(staging, m, r)
    BY DEF create_mount_point
  <2>6. path \in Seq(STRING)
    BY PathAssumption
  <2> HIDE DEF r
  <2>7. Fits(probed, Add(staging, m, r))
    BY <2>3, <2>4, <2>6, AddKeepsFit
  <2> QED BY <1>1, <2>2, <2>5, <2>7
<1>9. ASSUME CreateLvmLv PROVE Q
  <2>1. PICK v \in In(Vg, staging), lv \in New(Lv) : \E name, size :
           Edit(create_lvm_lv(staging, v, lv, name, size))
    BY <1>9 DEF CreateLvmLv
  <2>2. PICK name, size : Edit(create_lvm_lv(staging, v, lv, name, size))
    BY <2>1
  <2>3. /\ lv \in Lv \ (DOMAIN probed \cup DOMAIN staging) /\ MayBeOn(lv, v) /\ v \in DOMAIN staging
        /\ lv \notin MountPoint /\ Lv \in SUBSET Device /\ Lv \cap (Disk \cup Vg) = {}
        /\ v \notin Blk
    BY NewDevice, ClassAssumption DEF In, MayBeOn, Device, Blk
  <2> DEFINE r == [Blank({v}) EXCEPT !.name = name, !.size = size]
  <2>4. DOMAIN r = Fields /\ r.parents = {v}
    BY <1>4 DEF Fields
  <2>5. create_lvm_lv(staging, v, lv, name, size) = Add(staging, lv, r)
    BY DEF create_lvm_lv
  <2> HIDE DEF r
  <2>6. Fits(probed, Add(staging, lv, r))
    BY <2>3, <2>4, AddKeepsFit
  <2> QED BY <1>1, <2>2, <2>5, <2>6
<1>10. ASSUME CreateEncryption PROVE Q
  <2>1. PICK b \in In(Partition \cup Lv, staging), l \in New(Luks), listed \in BOOLEAN :
           /\ Children(staging, b) \cap (Luks \cup DOMAIN system) = {}
           /\ Edit(create_encryption(staging, b, l, listed))
    BY <1>10 DEF CreateEncryption
  <2>2. l \in Luks \ (DOMAIN probed \cup DOMAIN staging)
    BY NewDevice
  <2>3. Fits(probed, create_encryption(staging, b, l, listed))
    BY <2>1, <2>2, EncryptionKeepsFit
  <2> QED BY <1>1, <2>1, <2>3
<1>11. ASSUME CreateLvmVg PROVE Q
  <2>1. PICK v \in New(Vg), pv \in New(Pv), name \in VgName, b \in Usable :
           Edit(add_lvm_pv(create_lvm_vg(staging, v, name), v, b, pv))
    BY <1>11 DEF CreateLvmVg
  <2>2. b \in In(Blk, staging) /\ Children(staging, b) = {}
    BY DEF Usable, In, Blk
  <2>3. v \in Vg \ (DOMAIN probed \cup DOMAIN staging) /\ pv \in Pv \ (DOMAIN probed \cup DOMAIN staging)
    BY NewDevice
  <2>4. Fits(probed, add_lvm_pv(create_lvm_vg(staging, v, name), v, b, pv))
    BY <2>2, <2>3, CreateLvmVgKeepsFit
  <2> QED BY <1>1, <2>1, <2>4
<1>12. ASSUME AddLvmPv PROVE Q
  <2>1. PICK v \in In(Vg, staging), pv \in New(Pv), b \in In(Partition, staging) :
           /\ Children(staging, b) \subseteq In(Pv, staging)
           /\ Edit(add_lvm_pv(staging, v, b, pv))
    BY <1>12 DEF AddLvmPv
  <2>2. pv \in Pv \ (DOMAIN probed \cup DOMAIN staging)
    BY NewDevice
  <2>3. Fits(probed, add_lvm_pv(staging, v, b, pv))
    BY <2>1, <2>2, AddLvmPvKeepsFit
  <2> QED BY <1>1, <2>1, <2>3
\* Devices are removed.
<1>13. ASSUME DeletePartition PROVE Q
  BY <1>1, <1>13, DeletePartitionKeepsFit DEF DeletePartition
<1>14. ASSUME DeleteLvm PROVE Q
  <2>1. PICK d \in In(Lv \cup Vg, staging) : Edit(delete_device(staging, d))
    BY <1>14 DEF DeleteLvm
  <2>2. d \in DOMAIN staging \ Disk
    BY ClassAssumption DEF In
  <2> QED BY <1>1, <2>1, <2>2, DeleteKeepsFit DEF delete_device
<1>15. ASSUME RemoveDescendants PROVE Q
  <2>1. PICK b \in DOMAIN staging : Edit(remove_descendants(staging, b))
    BY <1>15 DEF RemoveDescendants, In
  <2> QED BY <1>1, <2>1, RemoveDescendantsKeepsFit
<1>16. ASSUME RemoveMountPoint PROVE Q
  <2>1. PICK m \in In(MountPoint, staging) : Edit(Remove(staging, {m}))
    BY <1>16 DEF RemoveMountPoint
  <2>2. m \notin Disk /\ \A x \in DOMAIN staging : m \notin staging[x].parents
    BY OnWhat, ClassAssumption DEF In, Fits, Shape, Placed
  <2>3. Fits(probed, Remove(staging, {m}))
    BY <2>2, RemoveKeepsFit
  <2> QED BY <1>1, <2>1, <2>3
<1>17. ASSUME RemoveLvmPv PROVE Q
  <2>1. PICK v \in In(Vg, staging) : \E pv \in staging[v].parents :
           Edit(remove_lvm_pv(staging, Parent(staging, pv)))
    BY <1>17 DEF RemoveLvmPv
  <2>2. PICK pv \in staging[v].parents : Edit(remove_lvm_pv(staging, Parent(staging, pv)))
    BY <2>1
  <2> DEFINE b == Parent(staging, pv)
             S == Children(staging, b)
  <2>3. pv \in Pv /\ pv \in DOMAIN staging
    BY OnWhat DEF In, Fits, Shape, Placed
  <2>4. b \in staging[pv].parents /\ b \in DOMAIN staging /\ MayBeOn(pv, b)
    BY <2>3, ClassAssumption DEF Fits, Shape, Placed, Parent
  <2>5. b \in Blk
    BY <2>3, <2>4, OnWhat
  <2> HIDE DEF b
  <2>6. S = {pv}
    BY <2>3, <2>4, <2>5 DEF Fits, Shape, Exclusive, In, Children
  <2>7. \A x \in DOMAIN staging : pv \in staging[x].parents => x \in Vg
    BY <2>3, OnWhat DEF Fits, Shape, Placed
  <2>8. Fits(probed, Remove(staging, {pv}))
    BY <2>3, <2>7, RemoveKeepsFit, ClassAssumption
  <2> QED BY <1>1, <2>2, <2>6, <2>8 DEF remove_lvm_pv, b
<1>18. ASSUME ResizePartition \/ ResizeLvmLv PROVE Q
  BY <1>1, <1>3, <1>18 DEF ResizePartition, ResizeLvmLv, In
<1>19. ASSUME SetPath \/ SetActive \/ SetInEtcFstab \/ SetInEtcCrypttab PROVE Q
  BY <1>1, <1>3, <1>19, PathAssumption DEF SetPath, SetActive, SetInEtcFstab, SetInEtcCrypttab, In
<1> QED BY <1>5, <1>6, <1>7, <1>8, <1>9, <1>10, <1>11, <1>12, <1>13, <1>14, <1>15, <1>16, <1>17,
           <1>18, <1>19 DEF EditStaging

-----------------------------------------------------------------------------
(* The inductive invariant.                                                *)

EntryType == [mp : MountPoint, fs : Filesystem, path : Seq(STRING)]

Entries == mounts \in Seq(EntryType) /\ fstab \subseteq EntryType

Graphs == Shape(probed) /\ Fits(probed, staging)

\* What exists is on what it is on in the graphs; volume groups change theirs.
\* What it is on is there, or was when the system was probed.
World == /\ \A d \in DOMAIN world :
               /\ d \in (DOMAIN probed \cup DOMAIN staging) \ MountPoint
               /\ DOMAIN world[d] = Fields
               /\ world[d].parents \subseteq Over(probed, staging, d)
               /\ world[d].parents \subseteq DOMAIN world \cup DOMAIN probed
               /\ d \notin Vg => world[d].parents = Over(probed, staging, d)
         /\ Disk \cap DOMAIN probed \subseteq DOMAIN world
         /\ Exclusive(world)

Editing == phase = "edit" =>
             /\ system = probed
             /\ \A d \in DOMAIN world : d \in DOMAIN probed /\ world[d].parents = probed[d].parents

\* Whatever comes after an action that is to be committed is to be committed; so
\* are the creations of what is not there yet.
Committing == phase = "commit" =>
  /\ deps = Order(probed, staging)
  /\ todo \subseteq Actions(probed, staging)
  /\ \A p \in deps : p[1] \in todo /\ p[2] \in Actions(probed, staging) => p[2] \in todo
  /\ \A a \in todo : a.op = "create" => a.sid \notin DOMAIN world

\* What holds whatever fails and is ignored, and whatever commits cannot rely on.
Frame == Entries /\ Graphs /\ World /\ Editing /\ Committing

Cardinal == \A d \in DOMAIN world : \A p \in world[d].parents :
               p \in DOMAIN world /\ (p \in Luks => world[p].active)

\* The deletions of what is there no longer to be are to be committed.
Deleting == phase = "commit" => \A d \in DOMAIN world \ DOMAIN staging : Act("delete", d) \in todo

Sound == Frame /\ Cardinal /\ Deleting

Inv == ignored \in Nat /\ Frame /\ (Undisturbed => Sound)

-----------------------------------------------------------------------------
(* The steps of a commit.                                                  *)

\* What is still to be committed when an action is not any more, be it done or
\* ignored.
LEMMA StillOnward ==
  ASSUME Committing, NEW a \in Ready, todo' = todo \ {a},
         UNCHANGED <<probed, staging, phase, deps>>,
         \A d \in DOMAIN world' \ DOMAIN world : a = Act("create", d)
  PROVE  Committing'
<1> DEFINE A == Actions(probed, staging)
<1>1. /\ a \in todo /\ phase = "commit"
      /\ \A p \in deps : p[2] = a => p[1] \notin todo
  BY DEF Ready
<1>2. /\ deps = Order(probed, staging)
      /\ todo \subseteq A
      /\ \A p \in deps : p[1] \in todo /\ p[2] \in A => p[2] \in todo
      /\ \A b \in todo : b.op = "create" => b.sid \notin DOMAIN world
  BY <1>1 DEF Committing
<1>3. \A b \in todo : b.op = "create" => b = Act("create", b.sid)
  BY <1>2, ActionFacts
<1>4. \A op, d : Act(op, d).op = op /\ Act(op, d).sid = d
  BY DEF Act
<1> HIDE DEF A
<1>5. \A p \in deps : p[1] \in todo' /\ p[2] \in A => p[2] \in todo'
  BY <1>1, <1>2
<1>6. \A b \in todo' : b.op = "create" => b.sid \notin DOMAIN world'
  <2> SUFFICES ASSUME NEW b \in todo', b.op = "create", b.sid \in DOMAIN world' PROVE FALSE
    OBVIOUS
  <2>1. b \in todo /\ b # a /\ b = Act("create", b.sid) /\ b.sid \notin DOMAIN world
    BY <1>1, <1>2, <1>3
  <2> QED BY <1>4, <2>1
<1>7. todo' \subseteq A
  BY <1>1, <1>2
<1> QED BY <1>1, <1>2, <1>5, <1>6, <1>7 DEF Committing, A

\* What comes into existence is created, what is deleted goes.
Changes(a) == /\ \A d \in DOMAIN world' \ DOMAIN world : a = Act("create", d) /\ d \in DOMAIN staging
              /\ a.op = "delete" => a.sid \notin DOMAIN world'

\* What an action that is done leaves to do.
LEMMA StillCommitting ==
  ASSUME NEW a \in todo, Done(a), Changes(a)
  PROVE  (Committing => Committing') /\ (Deleting => Deleting')
<1>1. /\ a \in Ready /\ phase = "commit" /\ todo' = todo \ {a}
      /\ probed' = probed /\ staging' = staging /\ phase' = phase /\ deps' = deps
  BY DEF Done, Ready
<1>2. ASSUME Committing PROVE Committing'
  BY <1>1, <1>2, StillOnward DEF Changes
<1>3. ASSUME Deleting PROVE Deleting'
  <2> SUFFICES ASSUME NEW d \in DOMAIN world' \ DOMAIN staging PROVE Act("delete", d) \in todo'
    BY <1>1 DEF Deleting
  <2>1. d \in DOMAIN world \ DOMAIN staging /\ (a.op = "delete" => a.sid \notin DOMAIN world')
    BY DEF Changes
  <2>2. Act("delete", d) # a
    BY <2>1 DEF Act
  <2> QED BY <1>1, <1>3, <2>1, <2>2 DEF Deleting
<1> QED BY <1>2, <1>3

\* The devices stay and what they are on; nothing is closed.
LEMMA SameDevices ==
  ASSUME UNCHANGED <<probed, staging>>, DOMAIN world' = DOMAIN world,
         \A d \in DOMAIN world : /\ DOMAIN world'[d] = Fields
                                 /\ world'[d].parents = world[d].parents
  PROVE  /\ World => World'
         /\ Cardinal /\ (\A d \in DOMAIN world : world[d].active => world'[d].active) => Cardinal'
<1>1. \A b : Children(world', b) = Children(world, b)
  BY DEF Children
<1>2. ASSUME World PROVE World'
  <2>1. Exclusive(world')
    BY <1>1, <1>2 DEF World, Exclusive, In
  <2> QED BY <1>2, <2>1 DEF World, Over
<1>3. ASSUME Cardinal, \A d \in DOMAIN world : world[d].active => world'[d].active PROVE Cardinal'
  BY <1>3 DEF Cardinal
<1> QED BY <1>2, <1>3

\* A device whose chain of deletion is about to go on has nothing on it.
LEMMA NothingOn ==
  ASSUME Sound, NEW a \in Ready,
         a.op \in {"delete", "deactivate"}, a.sid \notin MountPoint, ~ InUse(a.sid)
  PROVE  \A x \in DOMAIN world : a.sid \notin world[x].parents
<1> SUFFICES ASSUME NEW x \in DOMAIN world, a.sid \in world[x].parents PROVE FALSE
  OBVIOUS
<1>1. /\ a \in todo /\ phase = "commit"
      /\ \A p \in deps : p[2] = a => p[1] \notin todo
  BY DEF Ready
<1>2. /\ deps = Order(probed, staging)
      /\ todo \subseteq Actions(probed, staging)
      /\ \A p \in deps : p[1] \in todo /\ p[2] \in Actions(probed, staging) => p[2] \in todo
      /\ \A d \in DOMAIN world \ DOMAIN staging : Act("delete", d) \in todo
  BY <1>1 DEF Sound, Frame, Committing, Deleting
<1>3. /\ a.sid \in DOMAIN probed \ (DOMAIN staging \cup MountPoint)
      /\ a \in Elements(DeleteChain(probed, a.sid).actions)
  BY <1>1, <1>2, ActionFacts
<1>4. x \notin Vg
  BY DEF InUse, Children
<1>5. world[x].parents = Over(probed, staging, x) /\ x \in DOMAIN probed \cup DOMAIN staging
  BY <1>4 DEF Sound, Frame, World
<1>6. x \notin DOMAIN staging
  <2> SUFFICES ASSUME x \in DOMAIN staging PROVE FALSE
    OBVIOUS
  <2>1. Over(probed, staging, x) = staging[x].parents
    BY <1>4 DEF Over, Sound, Frame, Graphs, Fits, Kept
  <2>2. staging[x].parents \subseteq DOMAIN staging
    BY DEF Sound, Frame, Graphs, Fits, Shape, Placed
  <2> QED BY <1>3, <1>5, <2>1, <2>2
<1>7. x \in DOMAIN probed /\ a.sid \in probed[x].parents
  BY <1>5, <1>6 DEF Over
<1> DEFINE z == Act("delete", x)
<1>8. z \in todo /\ is_delete(z) /\ z.sid = x
  BY <1>2, <1>6 DEF is_delete, Act
<1> HIDE DEF z
<1>9. \E p \in deps : p[2] = a /\ p[1] \in todo
  <2>1. todo \in SUBSET Actions(probed, staging) /\ a.sid \in probed[z.sid].parents
    BY <1>2, <1>7, <1>8
  <2>2. Onward(probed, staging, todo)
    BY <1>2 DEF Onward
  <2>3. \E p \in Order(probed, staging) : p[2] = a /\ p[1] \in todo
    BY <1>3, <1>8, <2>1, <2>2, DeletedAfterChildren
  <2> QED BY <1>2, <2>3
<1> QED BY <1>1, <1>9

\* What an action that is done leaves in order: the rest is a later commit of the same graph.
LEMMA DoneKeeps ==
  ASSUME Frame, NEW a \in todo, Done(a)
  PROVE  /\ Graphs' /\ Editing'
         /\ a \in Actions(probed, staging) /\ a \in Ready
         /\ UNCHANGED <<probed, staging>>
         /\ a.op = "create" => a.sid \notin DOMAIN world
<1>1. a \in Ready /\ phase = "commit" /\ probed' = probed /\ staging' = staging /\ phase' = phase
  BY DEF Done, Ready
<1>2. a \in Actions(probed, staging) /\ (a.op = "create" => a.sid \notin DOMAIN world)
  BY <1>1 DEF Frame, Committing
<1> QED BY <1>1, <1>2 DEF Frame, Graphs, Editing

\* Neither the devices nor what they are on change.
LEMMA KeptDevices ==
  ASSUME Frame, NEW a \in todo, Done(a), a.op # "delete", Entries',
         DOMAIN world' = DOMAIN world,
         \A d \in DOMAIN world : DOMAIN world'[d] = Fields /\ world'[d].parents = world[d].parents
  PROVE  /\ Frame'
         /\ Sound /\ (\A d \in DOMAIN world : world[d].active => world'[d].active) => Sound'
<1>1. Graphs' /\ Editing' /\ UNCHANGED <<probed, staging>>
  BY DoneKeeps
<1>2. World'
  BY <1>1, SameDevices DEF Frame
<1>3. Changes(a)
  BY DEF Changes
<1>4. Committing' /\ (Deleting => Deleting')
  BY <1>3, StillCommitting DEF Frame
<1>5. Frame'
  BY <1>1, <1>2, <1>4 DEF Frame
<1>6. Cardinal /\ (\A d \in DOMAIN world : world[d].active => world'[d].active) => Cardinal'
  BY <1>1, SameDevices
<1> QED BY <1>4, <1>5, <1>6 DEF Sound

\* The actions of the commit one by one: each keeps the graphs and the devices in
\* order, and without failures gets the commit one action further.
LEMMA ActivateSound ==
  ASSUME Frame, NEW a \in todo, CommitActivate(a)
  PROVE  Frame' /\ (Sound => Sound')
<1>1. /\ Done(a) /\ a.op = "activate" /\ a.sid \in DOMAIN world
      /\ world' = [world EXCEPT ![a.sid].active = TRUE]
      /\ UNCHANGED <<mounts, fstab>>
  BY DEF CommitActivate, CanActivate
<1>2. DOMAIN world' = DOMAIN world
  BY <1>1
<1>3. ASSUME NEW d \in DOMAIN world
      PROVE  /\ DOMAIN world'[d] = Fields
             /\ world'[d].parents = world[d].parents
             /\ world[d].active => world'[d].active
  <2>1. DOMAIN world[d] = Fields
    BY DEF Frame, World
  <2> QED BY <1>1, <2>1 DEF Fields
<1>4. Entries'
  BY <1>1 DEF Frame, Entries
<1> QED BY <1>1, <1>2, <1>3, <1>4, KeptDevices

\* A resize changes the size only.
LEMMA ResizeSound ==
  ASSUME Frame, NEW a \in todo, CommitResize(a)
  PROVE  Frame' /\ (Sound => Sound')
<1>1. /\ Done(a) /\ a.op # "delete" /\ a.sid \in DOMAIN world
      /\ world' = [world EXCEPT ![a.sid].size = Resized(a)]
      /\ UNCHANGED <<mounts, fstab>>
  BY DEF CommitResize, CanResize, is_resize
<1>2. DOMAIN world' = DOMAIN world
  BY <1>1
<1>3. ASSUME NEW d \in DOMAIN world
      PROVE  /\ DOMAIN world'[d] = Fields
             /\ world'[d].parents = world[d].parents
             /\ world[d].active => world'[d].active
  <2>1. DOMAIN world[d] = Fields
    BY DEF Frame, World
  <2> QED BY <1>1, <2>1 DEF Fields
<1>4. Entries'
  BY <1>1 DEF Frame, Entries
<1> QED BY <1>1, <1>2, <1>3, <1>4, KeptDevices

\* What a mount point of such a graph leaves in the tables is well formed.
LEMMA EntriesOfMountPoints ==
  ASSUME NEW g, Shape(g), NEW m \in MountPoint \cap DOMAIN g
  PROVE  /\ Entry(g, m) \in EntryType
         /\ g[m].parents = {Entry(g, m).fs} /\ Entry(g, m).fs \in DOMAIN g
<1>1. m \notin Disk \cup Vg /\ Placed(g, m)
  BY ClassAssumption DEF Shape
<1>2. PICK b \in DOMAIN g : g[m].parents = {b}
  BY <1>1 DEF Placed
<1>3. b \in Filesystem
  BY <1>1, <1>2, OnWhat DEF Placed
<1>4. Parent(g, m) = b
  BY <1>2 DEF Parent
<1> QED BY <1>1, <1>2, <1>3, <1>4 DEF Entry, EntryType, Placed

\* Mounting changes no device.
LEMMA MountSound ==
  ASSUME Frame, NEW a \in todo, CommitMount(a)
  PROVE  Frame' /\ (Sound => Sound')
<1>1. Done(a) /\ a.op = "mount" /\ mounts' = Append(mounts, Entry(staging, a.sid)) /\ UNCHANGED <<world, fstab>>
  BY DEF CommitMount
<1>2. a.sid \in MountPoint \cap DOMAIN staging
  BY <1>1, DoneKeeps, ActionFacts
<1>3. Entry(staging, a.sid) \in EntryType
  BY <1>2, EntriesOfMountPoints DEF Frame, Graphs, Fits
<1>4. Entries'
  BY <1>1, <1>3 DEF Frame, Entries
<1> QED BY <1>1, <1>4, KeptDevices DEF Frame, World

\* The mounts that are left when one is taken away.
LEMMA Unmounted ==
  ASSUME NEW s \in Seq(EntryType), NEW n \in DOMAIN s
  PROVE  LET t == SubSeq(s, 1, n - 1) \o SubSeq(s, n + 1, Len(s))
         IN  /\ t \in Seq(EntryType) /\ Len(t) = Len(s) - 1
             /\ \A i \in 1 .. Len(t) : t[i] = IF i < n THEN s[i] ELSE s[i + 1]
<1>1. n \in 1 .. Len(s) /\ Len(s) \in Nat /\ \A i \in 1 .. Len(s) : s[i] \in EntryType
  OBVIOUS
<1> DEFINE u == SubSeq(s, 1, n - 1)
           v == SubSeq(s, n + 1, Len(s))
<1>2. u \in Seq(EntryType) /\ Len(u) = n - 1 /\ \A i \in 1 .. n - 1 : u[i] = s[i]
  BY <1>1, SubSeqProperties
<1>3. v \in Seq(EntryType) /\ Len(v) = Len(s) - n /\ \A i \in 1 .. Len(s) - n : v[i] = s[n + i]
  <2>1. \A i \in n + 1 .. Len(s) : s[i] \in EntryType
    BY <1>1
  <2>2. CASE n + 1 <= Len(s)
    <3>1. v \in Seq(EntryType) /\ Len(v) = Len(s) - (n + 1) + 1
          /\ \A i \in 1 .. Len(s) - (n + 1) + 1 : v[i] = s[(n + 1) + i - 1]
      BY <1>1, <2>1, <2>2, SubSeqProperties
    <3> HIDE DEF v
    <3> DEFINE k == Len(s)
               from == n + 1
    <3>2. k \in Int /\ n \in Int
      BY <1>1
    <3> HIDE DEF k
    <3>3. (k - from) + 1 = k - n /\ \A i \in Int : (from + i) - 1 = n + i
      BY <3>2
    <3>4. v \in Seq(EntryType) /\ Len(v) = k - n
      BY <3>1, <3>3 DEF k
    <3>5. ASSUME NEW i \in 1 .. k - n PROVE v[i] = s[n + i]
      <4>1. v[i] = s[from + (i - 1)]
        BY <3>1, <3>3 DEF k
      <4>2. from + (i - 1) = n + i
        BY <3>2
      <4> QED BY <4>1, <4>2
    <3> QED BY <3>4, <3>5 DEF k
  <2>3. CASE n = Len(s)
    <3>1. v = << >>
      BY <1>1, <2>3, SubSeqProperties
    <3> QED BY <1>1, <2>3, <3>1
  <2> QED BY <1>1, <2>2, <2>3
<1> DEFINE t == u \o v
<1> HIDE DEF u, v
<1>4. /\ u \o v \in Seq(EntryType) /\ Len(u \o v) = Len(u) + Len(v)
      /\ \A i \in 1 .. Len(u) + Len(v) : (u \o v)[i] = IF i <= Len(u) THEN u[i] ELSE v[i - Len(u)]
  BY <1>2, <1>3, ConcatProperties
<1> HIDE DEF t
<1>5. t = u \o v
  BY DEF t
<1>6. PICK k \in Int, p \in Int, q \in Int, h \in Int : k = Len(s) /\ p = Len(u) /\ q = Len(v) /\ h = n
  BY <1>1, <1>2, <1>3
<1>7. h >= 1 /\ h <= k /\ p = h - 1 /\ q = k - h
  BY <1>1, <1>2, <1>3, <1>6
<1>8. Len(t) = p + q /\ p + q = k - 1
  BY <1>4, <1>5, <1>6, <1>7
<1>9. ASSUME NEW i \in Int, 1 <= i, i <= p + q PROVE t[i] = IF i < h THEN s[i] ELSE s[i + 1]
  <2>1. i \in 1 .. p + q
    BY <1>9
  <2>2. t[i] = IF i <= p THEN u[i] ELSE v[i - p]
    BY <1>4, <1>5, <1>6, <2>1
  <2>3. CASE i < h
    <3>1. i \in 1 .. h - 1 /\ i <= p
      BY <1>7, <1>9, <2>3
    <3> QED BY <1>2, <1>6, <2>2, <2>3, <3>1
  <2>4. CASE ~ i < h
    <3>1. i - p \in 1 .. k - h /\ ~ i <= p /\ h + (i - p) = i + 1
      BY <1>7, <1>9, <2>4
    <3>2. v[i - p] = s[h + (i - p)]
      BY <1>3, <1>6, <3>1
    <3> QED BY <2>2, <2>4, <3>1, <3>2
  <2> QED BY <2>3, <2>4
<1>10. t \in Seq(EntryType)
  BY <1>4, <1>5
<1>11. \A i \in 1 .. Len(t) : t[i] = IF i < n THEN s[i] ELSE s[i + 1]
  <2>1. \A i \in 1 .. p + q : t[i] = IF i < h THEN s[i] ELSE s[i + 1]
    BY <1>9
  <2> QED BY <1>6, <1>8, <2>1
<1>12. Len(t) = Len(s) - 1
  BY <1>6, <1>8
<1> QED BY <1>10, <1>11, <1>12 DEF t, u, v

\* Unmounting changes no device.
LEMMA UnmountSound ==
  ASSUME Frame, NEW a \in todo, CommitUnmount(a)
  PROVE  Frame' /\ (Sound => Sound')
<1> DEFINE n == UnmountIndex(a.sid)
<1>1. /\ Done(a) /\ a.op = "unmount" /\ UNCHANGED <<world, fstab>>
      /\ mounts' = IF n = 0 THEN mounts ELSE SubSeq(mounts, 1, n - 1) \o SubSeq(mounts, n + 1, Len(mounts))
  BY DEF CommitUnmount
<1>2. mounts \in Seq(EntryType)
  BY DEF Frame, Entries
<1>3. n = 0 \/ n \in DOMAIN mounts
  BY DEF UnmountIndex
<1> HIDE DEF n
<1>4. mounts' \in Seq(EntryType)
  <2>1. CASE n = 0
    BY <1>1, <1>2, <2>1
  <2>2. CASE n \in DOMAIN mounts
    <3>1. n # 0
      BY <1>2, <2>2
    <3> QED BY <1>1, <1>2, <2>2, <3>1, Unmounted
  <2> QED BY <1>3, <2>1, <2>2
<1>5. Entries'
  BY <1>1, <1>4 DEF Frame, Entries
<1> QED BY <1>1, <1>5, KeptDevices DEF Frame, World

\* The entries of fstab are not part of the disk.
LEMMA FstabSound ==
  ASSUME Frame, NEW a \in todo, CommitFstab(a)
  PROVE  Frame' /\ (Sound => Sound')
<1>1. /\ Done(a) /\ a.op # "delete" /\ UNCHANGED <<world, mounts>>
      /\ \/ a.op \in {"add_fstab", "update_fstab"} /\ fstab' = Without(fstab, a.sid) \cup {Entry(staging, a.sid)}
         \/ fstab' = Without(fstab, a.sid)
  BY DEF CommitFstab
<1>2. a.op \in {"add_fstab", "update_fstab"} => Entry(staging, a.sid) \in EntryType
  <2>1. a.op \in {"add_fstab", "update_fstab"} => a.sid \in MountPoint \cap DOMAIN staging
    BY <1>1, DoneKeeps, ActionFacts
  <2> QED BY <2>1, EntriesOfMountPoints DEF Frame, Graphs, Fits
<1>3. Entries'
  BY <1>1, <1>2 DEF Frame, Entries, Without
<1> QED BY <1>1, <1>3, KeptDevices DEF Frame, World

\* Neither are those of crypttab.
LEMMA CrypttabSound ==
  ASSUME Frame, NEW a \in todo, CommitCrypttab(a)
  PROVE  Frame' /\ (Sound => Sound')
<1>1. Done(a) /\ a.op # "delete" /\ UNCHANGED <<world, mounts, fstab>>
  BY DEF CommitCrypttab
<1>2. Entries'
  BY <1>1 DEF Frame, Entries
<1> QED BY <1>1, <1>2, KeptDevices DEF Frame, World

\* A LUKS is closed when nothing is on it any more.
LEMMA DeactivateSound ==
  ASSUME Frame, NEW a \in todo, CommitDeactivate(a)
  PROVE  Frame' /\ (Sound => Sound')
<1>1. /\ Done(a) /\ a.op = "deactivate" /\ a.sid \in DOMAIN world /\ ~ InUse(a.sid)
      /\ world' = [world EXCEPT ![a.sid].active = FALSE]
      /\ UNCHANGED <<mounts, fstab>>
  BY DEF CommitDeactivate, CanDeactivate
<1>2. /\ probed' = probed /\ staging' = staging
      /\ a \in Actions(probed, staging) /\ a \in Ready
  BY <1>1, DoneKeeps
<1>3. a.sid \in Luks
  BY <1>1, <1>2, ActionFacts
<1>4. /\ DOMAIN world' = DOMAIN world
      /\ \A d \in DOMAIN world : /\ DOMAIN world'[d] = Fields
                                 /\ world'[d].parents = world[d].parents
                                 /\ d # a.sid => world'[d] = world[d]
  BY <1>1 DEF Fields, Frame, World
<1>5. Entries'
  BY <1>1 DEF Frame, Entries
<1>6. Frame'
  BY <1>1, <1>4, <1>5, KeptDevices
<1>7. ASSUME Sound PROVE Cardinal' /\ Deleting'
  <2>1. \A x \in DOMAIN world : a.sid \notin world[x].parents
    BY <1>1, <1>2, <1>3, <1>7, NothingOn, ClassAssumption
  <2>2. Cardinal'
    BY <1>4, <1>7, <2>1 DEF Sound, Cardinal
  <2>3. Changes(a)
    BY <1>1, <1>4 DEF Changes
  <2> QED BY <1>1, <1>7, <2>2, <2>3, StillCommitting DEF Sound
<1> QED BY <1>6, <1>7 DEF Sound

\* A device is deleted when nothing is on it any more.
LEMMA DeleteSound ==
  ASSUME Frame, NEW a \in todo, CommitDelete(a)
  PROVE  Frame' /\ (Sound => Sound')
<1>1. /\ Done(a) /\ a.op = "delete" /\ a.sid \in DOMAIN world /\ ~ InUse(a.sid)
      /\ world' = [d \in DOMAIN world \ {a.sid} |->
                     IF a.sid \in Pv THEN [world[d] EXCEPT !.parents = @ \ {a.sid}] ELSE world[d]]
      /\ UNCHANGED <<mounts, fstab>>
  BY DEF CommitDelete, CanDelete
<1>2. /\ Graphs' /\ Editing' /\ probed' = probed /\ staging' = staging
      /\ a \in Actions(probed, staging) /\ a \in Ready
  BY <1>1, DoneKeeps
<1>3. a.sid \in DOMAIN probed \ (DOMAIN staging \cup MountPoint)
  BY <1>1, <1>2, ActionFacts
\* Only a volume group can lose what it is on.
<1>4. /\ DOMAIN world' = DOMAIN world \ {a.sid}
      /\ \A d \in DOMAIN world' : /\ DOMAIN world'[d] = Fields
                                  /\ world'[d].active = world[d].active
                                  /\ world'[d].parents \subseteq world[d].parents
                                  /\ world'[d].parents = world[d].parents
                                     \/ (a.sid \in Pv /\ a.sid \in world[d].parents)
  <2>1. \A d \in DOMAIN world : DOMAIN world[d] = Fields
    BY DEF Frame, World
  <2> QED BY <1>1, <2>1 DEF Fields
<1>5. ASSUME NEW d \in DOMAIN world', d \notin Vg PROVE world'[d].parents = world[d].parents
  <2>1. CASE a.sid \in Pv /\ a.sid \in world[d].parents
    <3>1. a.sid \in Over(probed, staging, d)
      BY <1>4, <2>1 DEF Frame, World
    <3>2. MayBeOn(d, a.sid)
      BY <3>1 DEF Over, Frame, Graphs, Fits, Shape, Placed
    <3> QED BY <1>5, <2>1, <3>2, OnWhat
  <2> QED BY <1>4, <2>1
<1>6. World'
  <2>1. \A b : Children(world', b) \subseteq Children(world, b)
    BY <1>4 DEF Children
  <2>2. Exclusive(world')
    BY <1>4, <2>1 DEF Frame, World, Exclusive, In
  <2>3. a.sid \notin Disk
    BY <1>3 DEF Frame, Graphs, Fits, Kept
  <2>4. \A d : Over(probed, staging, d)' = Over(probed, staging, d)
    BY <1>2 DEF Over
  <2>5. \A d \in DOMAIN world' :
           /\ d \in (DOMAIN probed \cup DOMAIN staging) \ MountPoint
           /\ world'[d].parents \subseteq Over(probed, staging, d)
           /\ d \notin Vg => world'[d].parents = Over(probed, staging, d)
    BY <1>4, <1>5 DEF Frame, World
  <2>6. \A d \in DOMAIN world' : world'[d].parents \subseteq DOMAIN world' \cup DOMAIN probed
    <3>1. \A d \in DOMAIN world' : world'[d].parents \subseteq DOMAIN world \cup DOMAIN probed
      BY <1>4 DEF Frame, World
    <3> QED BY <1>3, <1>4, <3>1
  <2>7. Disk \cap DOMAIN probed \subseteq DOMAIN world'
    BY <1>4, <2>3 DEF Frame, World
  <2> QED BY <1>2, <1>4, <2>2, <2>4, <2>5, <2>6, <2>7 DEF World
<1>7. Changes(a)
  BY <1>1, <1>4 DEF Changes
<1>8. Entries'
  BY <1>1 DEF Frame, Entries
<1>9. Frame'
  BY <1>1, <1>2, <1>6, <1>7, <1>8, StillCommitting DEF Frame
<1>10. ASSUME Sound PROVE Cardinal' /\ Deleting'
  <2>1. \A x \in DOMAIN world : a.sid \notin world[x].parents
    BY <1>1, <1>2, <1>3, <1>10, NothingOn
  <2>2. Cardinal'
    BY <1>4, <1>10, <2>1 DEF Sound, Cardinal
  <2> QED BY <1>1, <1>7, <1>10, <2>2, StillCommitting DEF Sound
<1> QED BY <1>9, <1>10 DEF Sound

\* A volume group gets and loses physical volumes that are there.
LEMMA ReallotSound ==
  ASSUME Frame, NEW a \in todo, CommitReallot(a)
  PROVE  Frame' /\ (Sound => Sound')
<1> DEFINE v == a.sid
           pv == a.dev
<1>1. /\ Done(a) /\ a.op \in {"extend", "reduce"} /\ v \in DOMAIN world /\ pv \in DOMAIN world
      /\ world' = [world EXCEPT ![v].parents = IF a.op = "extend" THEN @ \cup {pv} ELSE @ \ {pv}]
      /\ UNCHANGED <<mounts, fstab>>
  BY DEF CommitReallot, CanReallot
<1>2. /\ Graphs' /\ Editing' /\ probed' = probed /\ staging' = staging
      /\ a \in Actions(probed, staging) /\ a \in Ready
  BY <1>1, DoneKeeps
<1>3. /\ v \in DOMAIN probed \cap DOMAIN staging
      /\ a.op = "extend" => pv \in staging[v].parents \ probed[v].parents
      /\ a.op = "reduce" => pv \in probed[v].parents \ staging[v].parents
  BY <1>1, <1>2, ActionFacts
<1>4. v \in Vg
  BY <1>1, <1>3 DEF Frame, Graphs, Fits, Kept
<1>5. pv \in Over(probed, staging, v)
  BY <1>1, <1>3 DEF Over
<1>6. pv \in Pv
  <2>1. MayBeOn(v, pv)
    BY <1>1, <1>3 DEF Frame, Graphs, Fits, Shape, Placed
  <2> QED BY <1>4, <2>1, OnWhat
<1>7. /\ DOMAIN world' = DOMAIN world
      /\ \A d \in DOMAIN world : /\ DOMAIN world'[d] = Fields
                                 /\ world'[d].active = world[d].active
                                 /\ d # v => world'[d].parents = world[d].parents
      /\ world'[v].parents \subseteq world[v].parents \cup {pv}
  BY <1>1 DEF Fields, Frame, World
<1>8. World'
  <2>1. \A b \in Blk : Children(world', b) \subseteq Children(world, b)
    <3>1. pv \notin Blk
      BY <1>6, ClassAssumption DEF Blk
    <3> QED BY <1>7, <3>1 DEF Children
  <2>2. Exclusive(world')
    BY <1>7, <2>1 DEF Frame, World, Exclusive, In
  <2>3. \A d \in DOMAIN world : /\ world'[d].parents \subseteq Over(probed, staging, d)
                                /\ world'[d].parents \subseteq DOMAIN world \cup DOMAIN probed
    <3> HIDE DEF v
    <3> QED BY <1>1, <1>5, <1>7 DEF Frame, World
  <2>4. \A d \in DOMAIN world : d \notin Vg => world'[d].parents = Over(probed, staging, d)
    <3> HIDE DEF v
    <3> QED BY <1>4, <1>7 DEF Frame, World
  <2>5. \A d : Over(probed, staging, d)' = Over(probed, staging, d)
    BY <1>2 DEF Over
  <2> QED BY <1>2, <1>7, <2>2, <2>3, <2>4, <2>5 DEF Frame, World
<1>9. Changes(a)
  BY <1>1, <1>7 DEF Changes
<1>10. Entries'
  BY <1>1 DEF Frame, Entries
<1>11. Frame'
  BY <1>1, <1>2, <1>8, <1>9, <1>10, StillCommitting DEF Frame
<1>12. ASSUME Sound PROVE Cardinal' /\ Deleting'
  <2>1. pv \notin Luks
    BY <1>6, ClassAssumption
  <2>2. Cardinal'
    <3> HIDE DEF v, pv
    <3> QED BY <1>1, <1>7, <1>12, <2>1 DEF Sound, Cardinal
  <2> QED BY <1>1, <1>9, <1>12, <2>2, StillCommitting DEF Sound
<1> QED BY <1>11, <1>12 DEF Sound

\* What a device in staging can be created on is there, free and open.
LEMMA CreatedOn ==
  ASSUME Frame, NEW d \in DOMAIN staging \ (DOMAIN probed \cup MountPoint), CanCreate(d)
  PROVE  \A p \in staging[d].parents : /\ p \in DOMAIN world
                                       /\ p \in Luks => world[p].active
                                       /\ p \in Blk => Children(world, p) = {}
<1>1. /\ d \notin Disk /\ d \in Device /\ Placed(staging, d)
      /\ Disk \cap DOMAIN staging \subseteq DOMAIN world
  BY DEF Frame, Graphs, World, Fits, Kept, Shape
<1> SUFFICES ASSUME NEW p \in staging[d].parents
             PROVE  /\ p \in DOMAIN world
                    /\ p \in Luks => world[p].active
                    /\ p \in Blk => Children(world, p) = {}
  OBVIOUS
<1>2. MayBeOn(d, p) /\ p \in DOMAIN staging
  BY <1>1 DEF Placed
<1>3. ASSUME d \notin Vg PROVE Parent(staging, d) = p
  BY <1>1, <1>3 DEF Placed, Parent
<1>4. CASE d \in Table
  <2>1. Children(world, p) = {} /\ p \in Disk
    BY <1>2, <1>3, <1>4, OnWhat, ClassAssumption DEF CanCreate
  <2> QED BY <1>1, <1>2, <2>1, ClassAssumption
<1>5. CASE d \in Partition
  <2>1. p \in DOMAIN world /\ p \in Table
    <3>1. d \notin Table
      BY <1>5, ClassAssumption
    <3> QED BY <1>2, <1>3, <1>5, <3>1, OnWhat, ClassAssumption DEF CanCreate
  <2> QED BY <2>1, ClassAssumption DEF Blk
<1>6. CASE d \in Vg
  <2>1. p \in DOMAIN world /\ p \in Pv
    <3>1. d \notin Table /\ d \notin Partition
      BY <1>6, ClassAssumption
    <3>2. d \notin Lv
      BY <1>6, ClassAssumption
    <3>3. p \in DOMAIN world
      BY <1>6, <3>1, <3>2 DEF CanCreate
    <3> QED BY <1>2, <1>6, <3>3, OnWhat
  <2> QED BY <2>1, ClassAssumption DEF Blk
<1>7. CASE d \in Lv
  <2>1. p \in DOMAIN world /\ p \in Vg
    <3>1. d \notin Table /\ d \notin Partition /\ d \notin Vg
      BY <1>7, ClassAssumption
    <3> QED BY <1>2, <1>3, <1>7, <3>1, OnWhat DEF CanCreate
  <2> QED BY <2>1, ClassAssumption DEF Blk
<1>8. CASE d \notin Table \cup Partition \cup Vg \cup Lv
  BY <1>8 DEF CanCreate, CanCreateContent
<1> QED BY <1>4, <1>5, <1>6, <1>7, <1>8

\* A device is created when what it is on is there.
LEMMA CreateSound ==
  ASSUME Frame, NEW a \in todo, CommitCreate(a)
  PROVE  Frame' /\ (Sound => Sound')
<1> DEFINE d == a.sid
           r == [staging[d] EXCEPT
                   !.active = FALSE, !.listed = FALSE,
                   !.size = IF d \in Content THEN world[Parent(staging, d)].size ELSE @]
<1>1. /\ Done(a) /\ a.op = "create" /\ CanCreate(d)
      /\ world' = Add(world, d, r)
      /\ UNCHANGED <<mounts, fstab>>
  BY DEF CommitCreate
<1>2. /\ Graphs' /\ Editing' /\ probed' = probed /\ staging' = staging
      /\ a \in Actions(probed, staging) /\ a \in Ready /\ d \notin DOMAIN world
  BY <1>1, DoneKeeps
<1>3. d \in DOMAIN staging \ (DOMAIN probed \cup MountPoint) /\ a = Act("create", d)
  BY <1>1, <1>2, ActionFacts
<1>4. \A p \in staging[d].parents : /\ p \in DOMAIN world
                                    /\ p \in Luks => world[p].active
                                    /\ p \in Blk => Children(world, p) = {}
  BY <1>1, <1>3, CreatedOn
<1>5. DOMAIN r = Fields /\ r.parents = staging[d].parents
  <2>1. DOMAIN staging[d] = Fields
    BY <1>3, BlankFields DEF Frame, Graphs, Fits, Shape
  <2> QED BY <2>1 DEF Fields
<1> HIDE DEF r
<1>6. /\ DOMAIN world' = DOMAIN world \cup {d} /\ world'[d] = r
      /\ \A x \in DOMAIN world : world'[x] = world[x]
  BY <1>1, <1>2 DEF Add
<1> HIDE DEF d
<1>7. \A x \in DOMAIN world : d \notin world[x].parents
  BY <1>2, <1>3 DEF Frame, World
<1>8. World'
  <2>1. /\ Children(world', d) = {}
        /\ \A b \in DOMAIN world :
              Children(world', b) = Children(world, b) \cup (IF b \in staging[d].parents THEN {d} ELSE {})
    BY <1>2, <1>4, <1>5, <1>6, <1>7 DEF Children
  <2>2. Exclusive(world')
    <3> SUFFICES ASSUME NEW b \in In(Blk, world'),
                        NEW c1 \in Children(world', b), NEW c2 \in Children(world', b)
                 PROVE  c1 = c2
      BY DEF Exclusive
    <3>1. b \in Blk /\ b \in DOMAIN world
      BY <1>6, <2>1 DEF In
    <3>2. CASE b \in staging[d].parents
      BY <1>4, <2>1, <3>1, <3>2
    <3>3. CASE b \notin staging[d].parents
      BY <2>1, <3>1, <3>3 DEF Frame, World, Exclusive, In
    <3> QED BY <3>2, <3>3
  <2>3. Over(probed, staging, d) = staging[d].parents
    BY <1>3 DEF Over
  <2>4. \A x : Over(probed, staging, x)' = Over(probed, staging, x)
    BY <1>2 DEF Over
  <2>5. world'[d].parents \subseteq DOMAIN world
    BY <1>4, <1>5, <1>6
  <2> QED BY <1>2, <1>3, <1>5, <1>6, <2>2, <2>3, <2>4, <2>5 DEF Frame, World
<1>9. Changes(a)
  BY <1>1, <1>3, <1>6 DEF Changes
<1>10. Entries'
  BY <1>1 DEF Frame, Entries
<1>11. Frame'
  BY <1>1, <1>2, <1>8, <1>9, <1>10, StillCommitting DEF Frame
<1>12. ASSUME Sound PROVE Cardinal' /\ Deleting'
  <2>1. Cardinal'
    BY <1>2, <1>4, <1>5, <1>6, <1>12 DEF Sound, Cardinal
  <2> QED BY <1>1, <1>9, <1>12, <2>1, StillCommitting DEF Sound
<1> QED BY <1>11, <1>12 DEF Sound

\* The graphs stay, and the phase is not one of those something is said about.
LEMMA PhaseSound ==
  ASSUME Frame, UNCHANGED <<probed, staging, world, mounts, fstab>>, phase' \notin {"edit", "commit"}
  PROVE  Frame' /\ (Sound => Sound')
<1>1. World'
  BY DEF Frame, World, Over
<1>2. Frame'
  BY <1>1 DEF Frame, Entries, Graphs, Editing, Committing
<1> QED BY <1>2 DEF Sound, Cardinal, Deleting

\* A failure changes nothing; that it is ignored takes the action away.
LEMMA FailSound ==
  ASSUME Frame, NEW a \in todo, Fail(a)
  PROVE  Frame'
<1>1. a \in Ready /\ phase = "commit" /\ UNCHANGED <<probed, system, staging, world, mounts, fstab, deps>>
  BY DEF Fail, Ready
<1>2. CASE phase' = "aborted"
  BY <1>1, <1>2, PhaseSound
<1>3. CASE phase' = phase /\ todo' = todo \ {a}
  <2>1. Committing'
    BY <1>1, <1>3, StillOnward DEF Frame
  <2>2. World'
    BY <1>1 DEF Frame, World, Over
  <2> QED BY <1>1, <1>3, <2>1, <2>2 DEF Frame, Entries, Graphs, Editing
<1> QED BY <1>2, <1>3 DEF Fail

-----------------------------------------------------------------------------
(* The other steps.                                                        *)

\* No edit changes anything but staging.
LEMMA EditEdited ==
  ASSUME EditStaging
  PROVE  Edited
BY DEF Edited, EditStaging, Edit, CreatePartitionTable, CreatePartition, DeletePartition, ResizePartition,
       CreateEncryption, CreateBlkFilesystem, RemoveDescendants, CreateMountPoint, RemoveMountPoint,
       SetPath, SetActive, SetInEtcFstab, SetInEtcCrypttab, CreateLvmVg, AddLvmPv, RemoveLvmPv,
       CreateLvmLv, ResizeLvmLv, DeleteLvm

\* An edit leads to another graph the library handles.
LEMMA EditSound ==
  ASSUME Frame, EditStaging
  PROVE  Frame' /\ (Sound => Sound') /\ UNCHANGED <<clear, ignored>>
<1>1. phase = "edit"
  BY EditEdited DEF Edited
<1>2. system = probed /\ \A d \in DOMAIN world : d \in DOMAIN probed /\ world[d].parents = probed[d].parents
  BY <1>1 DEF Frame, Editing
<1>3. Fits(probed, staging') /\ Edited
  BY <1>2, EditsFit DEF Frame, Graphs
<1>4. Graphs' /\ Editing' /\ Committing' /\ Entries'
  BY <1>1, <1>2, <1>3 DEF Edited, Frame, Graphs, Editing, Committing, Entries
<1>5. World'
  <2>1. \A d \in DOMAIN world : /\ world[d].parents \subseteq Over(probed, staging', d)
                                /\ d \notin Vg => world[d].parents = Over(probed, staging', d)
    BY <1>2, <1>3 DEF Over, Fits, Kept
  <2>2. \A d : Over(probed, staging, d)' = Over(probed, staging', d)
    BY <1>3 DEF Edited, Over
  <2>3. World /\ probed' = probed /\ world' = world
    BY <1>3 DEF Edited, Frame
  <2>4. \A d \in DOMAIN world : d \in (DOMAIN probed \cup DOMAIN staging') \ MountPoint
    BY <1>2, <2>3 DEF World
  <2> QED BY <2>1, <2>2, <2>3, <2>4 DEF World
<1>6. Frame'
  BY <1>4, <1>5 DEF Frame
<1>7. Cardinal /\ Deleting => Cardinal' /\ Deleting'
  BY <1>1, <1>3 DEF Cardinal, Deleting, Edited
<1> QED BY <1>3, <1>6, <1>7 DEF Sound, Edited

\* The action graph begins with everything to do.
LEMMA CalculateSound ==
  ASSUME Frame, CalculateActiongraph
  PROVE  Frame' /\ (Sound => Sound')
<1>1. /\ phase = "edit" /\ UNCHANGED <<probed, system, staging, world, mounts, fstab>>
      /\ todo' = Actions(system, staging)
      /\ deps' = Order(system, staging)
      /\ phase' \in {"thrown", "commit"}
  BY DEF CalculateActiongraph, Order
<1>2. system = probed /\ \A d \in DOMAIN world : d \in DOMAIN probed
  BY <1>1 DEF Frame, Editing
<1>3. Committing'
  <2>1. \A a \in todo' : a.op = "create" => a.sid \notin DOMAIN world
    BY <1>1, <1>2, ActionFacts
  <2> QED BY <1>1, <1>2, <2>1 DEF Committing, Order
<1>4. World'
  BY <1>1 DEF Frame, World, Over
<1>5. Frame'
  BY <1>1, <1>3, <1>4 DEF Frame, Entries, Graphs, Editing
<1>6. Deleting'
  <2>1. \A d \in DOMAIN world \ DOMAIN staging : Act("delete", d) \in todo'
    BY <1>1, <1>2, Deleted DEF Frame, World
  <2> QED BY <1>1, <2>1 DEF Deleting
<1> QED BY <1>1, <1>5, <1>6 DEF Sound, Cardinal

\* The first probing.
LEMMA InitSound ==
  ASSUME Init
  PROVE  Inv
<1>1. /\ Shape(probed) /\ Grounded(probed) /\ Opened(probed)
      /\ system = probed /\ staging = probed /\ phase = "edit" /\ ignored = 0
  BY ProbesAssumption DEF Init
<1>2. world = [d \in DOMAIN probed \ MountPoint |->
                 IF d \in Content THEN [probed[d] EXCEPT !.size = Size(probed, Parent(probed, d))]
                                  ELSE probed[d]]
  BY DEF Init
<1>3. /\ DOMAIN world = DOMAIN probed \ MountPoint
      /\ \A d \in DOMAIN world : /\ DOMAIN world[d] = Fields
                                 /\ world[d].parents = probed[d].parents
                                 /\ world[d].active = probed[d].active
  <2>1. \A d \in DOMAIN probed : DOMAIN probed[d] = Fields
    BY <1>1, BlankFields DEF Shape
  <2> QED BY <1>2, <2>1 DEF Fields
<1>4. Fits(probed, probed)
  BY <1>1, FitsItself
<1>5. World
  <2>1. \A b : Children(world, b) \subseteq Children(probed, b)
    BY <1>3 DEF Children
  <2>2. Exclusive(world)
    BY <1>1, <1>3, <2>1 DEF Shape, Exclusive, In
  <2>3. \A d \in DOMAIN world : world[d].parents \subseteq DOMAIN probed
    BY <1>1, <1>3 DEF Shape, Placed
  <2> QED BY <1>1, <1>3, <2>2, <2>3, ClassAssumption DEF World, Over
<1>6. Cardinal
  <2> SUFFICES ASSUME NEW d \in DOMAIN world, NEW q \in world[d].parents
               PROVE  q \in DOMAIN world /\ (q \in Luks => world[q].active)
    BY DEF Cardinal
  <2>1. d \in DOMAIN probed /\ q \in probed[d].parents
    BY <1>3
  <2>2. q \in DOMAIN probed /\ q \notin MountPoint
    BY <1>1, <2>1, OnWhat DEF Shape, Placed
  <2> QED BY <1>1, <1>3, <2>1, <2>2 DEF Opened
<1>7. Entries
  <2> DEFINE S == {m \in In(MountPoint, probed) : probed[m].active}
  <2>1. \A m \in In(MountPoint, probed) : Entry(probed, m) \in EntryType
    BY <1>1, EntriesOfMountPoints DEF In
  <2>2. Cardinality(S) \in Nat
    <3>1. S \subseteq DOMAIN probed /\ IsFiniteSet(DOMAIN probed)
      BY <1>1 DEF Shape, In
    <3> HIDE DEF S
    <3> QED BY <3>1, FS_Subset, FS_CardinalityType
  <2>3. mounts \in [1 .. Cardinality(S) -> {Entry(probed, m) : m \in S}]
    BY DEF Init, Nested
  <2>4. \A e \in {Entry(probed, m) : m \in S} : e \in EntryType
    BY <2>1
  <2> HIDE DEF S
  <2>5. mounts \in Seq(EntryType)
    BY <2>2, <2>3, <2>4
  <2>6. fstab \subseteq EntryType
    BY <2>1 DEF Init
  <2> QED BY <2>5, <2>6 DEF Entries
<1>8. Frame
  BY <1>1, <1>3, <1>4, <1>5, <1>7 DEF Frame, Graphs, Editing, Committing
<1> QED BY <1>1, <1>6, <1>8 DEF Inv, Sound, Deleting

\* What is found: all it is on is found too, and nothing is on a closed LUKS.
LEMMA WhatIsFound ==
  ASSUME Frame
  PROVE  /\ Found \subseteq DOMAIN world
         /\ IsFiniteSet(Found)
         /\ Found \cap MountPoint = {}
         /\ \A d \in Found : \A p \in world[d].parents : p \in Found /\ (p \in Luks => world[p].active)
<1> DEFINE lost == {d \in DOMAIN world : \E p \in world[d].parents :
                      p \notin DOMAIN world \/ (p \in Luks /\ ~ world[p].active)}
           Gone(d) == Descendants(world, d) \cup {d}
<1>1. Found = DOMAIN world \ UNION {Gone(d) : d \in lost}
  BY DEF Found
<1>2. IsFiniteSet(DOMAIN world)
  <2>1. IsFiniteSet(DOMAIN probed \cup DOMAIN staging)
    BY FS_Union DEF Frame, Graphs, Fits, Shape
  <2>2. DOMAIN world \subseteq DOMAIN probed \cup DOMAIN staging
    BY DEF Frame, World
  <2> QED BY <2>1, <2>2, FS_Subset
<1>3. ASSUME NEW d \in Found, NEW p \in world[d].parents
      PROVE  p \in Found /\ (p \in Luks => world[p].active)
  <2>1. d \in DOMAIN world /\ d \notin lost
    BY <1>1, <1>3
  <2>2. p \in DOMAIN world /\ (p \in Luks => world[p].active)
    BY <1>3, <2>1
  <2>3. ASSUME NEW x \in lost, p \in Gone(x) PROVE FALSE
    <3>1. x \in DOMAIN world
      OBVIOUS
    <3>2. Children(world, p) \subseteq Gone(x)
      BY <1>2, <2>3, <3>1, DescendantsClosed
    <3>3. d \in Gone(x)
      BY <1>3, <2>1, <3>2 DEF Children
    <3> HIDE DEF Gone, lost
    <3> QED BY <1>1, <1>3, <3>3
  <2> HIDE DEF Gone, lost
  <2> QED BY <1>1, <2>2, <2>3
<1>4. Found \subseteq DOMAIN world
  BY <1>1
<1>5. IsFiniteSet(Found)
  BY <1>2, <1>4, FS_Subset
<1>6. Found \cap MountPoint = {}
  BY <1>4 DEF Frame, World
<1> QED BY <1>3, <1>4, <1>5, <1>6

\* While nothing is lost, all is found.
LEMMA AllIsFound ==
  ASSUME Sound
  PROVE  Found = DOMAIN world
BY DEF Found, Sound, Cardinal

\* The entry that decides about the mount point of a filesystem is one of its
\* own.
LEMMA EntrySelected ==
  ASSUME Entries, NEW f, MountedOf(f) \cup ListedOf(f) # {}
  PROVE  /\ SelectedEntry(f) \in EntryType /\ SelectedEntry(f).fs = f
         /\ SelectedEntry(f) \in (IF MountedOf(f) # {} THEN MountedOf(f) ELSE ListedOf(f))
<1> DEFINE both == {e \in MountedOf(f) : \E l \in ListedOf(f) : l.path = e.path}
           best == IF both # {} THEN both
                   ELSE IF MountedOf(f) # {} THEN MountedOf(f)
                   ELSE ListedOf(f)
           T == {Len(e.path) : e \in best}
<1>1. /\ \A e \in MountedOf(f) : e \in EntryType /\ e.fs = f
      /\ \A e \in ListedOf(f) : e \in EntryType /\ e.fs = f
  BY DEF Entries, MountedOf, ListedOf
<1>2. /\ best # {} /\ \A e \in best : e \in EntryType /\ e.fs = f
      /\ best \subseteq (IF MountedOf(f) # {} THEN MountedOf(f) ELSE ListedOf(f))
  BY <1>1
<1>3. SelectedEntry(f) = CHOOSE e \in best : \A x \in best : Len(e.path) <= Len(x.path)
  BY DEF SelectedEntry
<1> HIDE DEF best
<1>4. T \in SUBSET Nat /\ T # {}
  <2>1. \A e \in best : e.path \in Seq(STRING)
    BY <1>2 DEF EntryType
  <2>2. \A e \in best : Len(e.path) \in Nat
    BY <2>1, LenProperties
  <2> QED BY <1>2, <2>2
<1>5. PICK n \in T : \A k \in T : n <= k
  <2> HIDE DEF T
  <2> QED BY <1>4, LeastNat
<1>6. \E e \in best : \A x \in best : Len(e.path) <= Len(x.path)
  BY <1>5
<1> QED BY <1>2, <1>3, <1>6

Selected == {SelectedEntry(f) : f \in {x \in Filesystem \cap Found : MountedOf(x) \cup ListedOf(x) # {}}}

\* What is probed is what is found and mount points of filesystems that are found.
LEMMA WhatIsProbed ==
  ASSUME Frame
  PROVE  /\ DOMAIN Probed = Found \cup {e.mp : e \in Selected}
         /\ \A e \in Selected : /\ e \in EntryType /\ e.fs \in Found /\ e.mp \notin Found
                                /\ e = SelectedEntry(e.fs)
                                /\ MountedOf(e.fs) \cup ListedOf(e.fs) # {}
         /\ \A d \in Found : /\ DOMAIN Probed[d] = Fields
                             /\ Probed[d].parents = world[d].parents
         /\ \A d \in DOMAIN Probed \ Found :
               /\ DOMAIN Probed[d] = Fields
               /\ \E e \in Selected : /\ e.mp = d /\ Probed[d].parents = {e.fs} /\ Probed[d].name = e.path
                                      /\ Probed[d].active <=> e \in MountedOf(e.fs)
                                      /\ Probed[d].listed <=> \E l \in ListedOf(e.fs) : l.path = e.path
<1>1. Found \subseteq DOMAIN world /\ Found \cap MountPoint = {}
  BY WhatIsFound
<1>2. \A e \in Selected : /\ e \in EntryType /\ e.fs \in Found
                         /\ e = SelectedEntry(e.fs) /\ MountedOf(e.fs) \cup ListedOf(e.fs) # {}
  BY EntrySelected DEF Selected, Frame
<1>3. \A e \in Selected : e.mp \notin Found
  BY <1>1, <1>2 DEF EntryType
<1> DEFINE one(d) == CHOOSE e \in Selected : e.mp = d
           M == {e.mp : e \in Selected}
<1>4. Probed = [d \in Found \cup {e.mp : e \in Selected} |->
                  IF d \in Found
                  THEN [world[d] EXCEPT !.size = IF d \in Content THEN 0 ELSE @, !.listed = d \in crypttab]
                  ELSE [Blank({one(d).fs}) EXCEPT
                          !.name = one(d).path,
                          !.active = one(d) \in MountedOf(one(d).fs),
                          !.listed = \E l \in ListedOf(one(d).fs) : l.path = one(d).path]]
  BY DEF Probed, Selected
<1> HIDE DEF one, M
<1>5. ASSUME NEW d \in Found
      PROVE  DOMAIN Probed[d] = Fields /\ Probed[d].parents = world[d].parents
  <2>1. Probed[d] = [world[d] EXCEPT !.size = IF d \in Content THEN 0 ELSE @, !.listed = d \in crypttab]
    BY <1>4
  <2>2. DOMAIN world[d] = Fields
    BY <1>1 DEF Frame, World
  <2> QED BY <2>1, <2>2 DEF Fields
<1>6. ASSUME NEW d \in {e.mp : e \in Selected} \ Found
      PROVE  /\ DOMAIN Probed[d] = Fields
             /\ \E e \in Selected : /\ e.mp = d /\ Probed[d].parents = {e.fs} /\ Probed[d].name = e.path
                                    /\ Probed[d].active <=> e \in MountedOf(e.fs)
                                    /\ Probed[d].listed <=> \E l \in ListedOf(e.fs) : l.path = e.path
  <2>1. one(d) \in Selected /\ one(d).mp = d
    BY DEF one
  <2> DEFINE mounted == one(d) \in MountedOf(one(d).fs)
             listed == \E l \in ListedOf(one(d).fs) : l.path = one(d).path
  <2>2. Probed[d] = [Blank({one(d).fs}) EXCEPT !.name = one(d).path, !.active = mounted, !.listed = listed]
    BY <1>4
  <2>3. DOMAIN Blank({one(d).fs}) = Fields /\ Blank({one(d).fs}).parents = {one(d).fs}
    BY BlankFields
  <2> HIDE DEF one, mounted, listed
  <2>4. /\ DOMAIN Probed[d] = Fields /\ Probed[d].parents = {one(d).fs} /\ Probed[d].name = one(d).path
        /\ Probed[d].active = mounted /\ Probed[d].listed = listed
    BY <2>2, <2>3 DEF Fields
  <2> QED BY <2>1, <2>4 DEF mounted, listed
<1>7. DOMAIN Probed = Found \cup {e.mp : e \in Selected}
  BY <1>4
<1> QED BY <1>2, <1>3, <1>5, <1>6, <1>7

\* Only finitely many mount points are made for the mounts and entries found.
LEMMA FiniteSelection ==
  ASSUME IsFiniteSet(Found)
  PROVE  IsFiniteSet({e.mp : e \in Selected})
<1> DEFINE F == {x \in Filesystem \cap Found : MountedOf(x) \cup ListedOf(x) # {}}
           M == {e.mp : e \in Selected}
           mp == [f \in F |-> SelectedEntry(f).mp]
<1>1. IsFiniteSet(F)
  BY FS_Subset
<1>2. Selected = {SelectedEntry(f) : f \in F}
  BY DEF Selected
<1> HIDE DEF F
<1>3. mp \in Surjection(F, M)
  BY <1>2 DEF Surjection
<1> HIDE DEF mp, M
<1>4. IsFiniteSet(M)
  BY <1>1, <1>3, FS_Surjection
<1> QED BY <1>4 DEF M

\* What is probed is a device graph again.
LEMMA ProbedShape ==
  ASSUME Frame
  PROVE  Shape(Probed) /\ Grounded(Probed)
<1> DEFINE M == {e.mp : e \in Selected}
           g == Probed
<1>1. /\ DOMAIN g = Found \cup M
      /\ \A e \in Selected : e \in EntryType /\ e.fs \in Found
      /\ \A d \in Found : DOMAIN g[d] = Fields /\ g[d].parents = world[d].parents
      /\ \A d \in DOMAIN g \ Found :
            /\ DOMAIN g[d] = Fields
            /\ \E e \in Selected : e.mp = d /\ g[d].parents = {e.fs} /\ g[d].name = e.path
  BY WhatIsProbed
<1>2. M \subseteq MountPoint
  BY <1>1 DEF EntryType
<1>3. /\ Found \subseteq DOMAIN world
      /\ \A d \in DOMAIN world : /\ d \in DOMAIN probed \cup DOMAIN staging
                                 /\ d \notin MountPoint
                                 /\ world[d].parents \subseteq Over(probed, staging, d)
                                 /\ d \notin Vg => world[d].parents = Over(probed, staging, d)
      /\ Exclusive(world)
      /\ Fits(probed, staging) /\ Shape(probed)
  BY WhatIsFound DEF Frame, World, Graphs
<1>4. IsFiniteSet(Found) /\ Found \subseteq Device
  <2>1. DOMAIN probed \cup DOMAIN staging \subseteq Device
    BY <1>3 DEF Fits, Shape
  <2> QED BY <1>3, <2>1, WhatIsFound
<1>5. IsFiniteSet(M)
  BY <1>4, FiniteSelection
<1> HIDE DEF g, M
\* What mount points are on.
<1>6. ASSUME NEW d \in DOMAIN g \ Found
      PROVE  /\ d \in MountPoint /\ g[d].name \in Seq(STRING)
             /\ \E f \in Filesystem \cap Found : g[d].parents = {f}
  <2>1. PICK e \in Selected : e.mp = d /\ g[d].parents = {e.fs} /\ g[d].name = e.path
    BY <1>1
  <2> QED BY <1>1, <2>1 DEF EntryType
\* What the devices are on.
<1>7. ASSUME NEW d \in Found
      PROVE  /\ \A p \in world[d].parents : p \in Found /\ MayBeOn(d, p)
             /\ d \notin Disk \cup Vg => \E b \in Found : world[d].parents = {b}
  <2>1. \A p \in Over(probed, staging, d) : MayBeOn(d, p)
    BY <1>3 DEF Over, Fits, Shape, Placed
  <2>2. \A p \in world[d].parents : p \in Found /\ MayBeOn(d, p)
    BY <1>3, <2>1, WhatIsFound
  <2>3. d \notin Disk \cup Vg => \E b : Over(probed, staging, d) = {b}
    <3> SUFFICES ASSUME d \notin Disk \cup Vg PROVE \E b : Over(probed, staging, d) = {b}
      OBVIOUS
    <3>1. CASE d \in DOMAIN staging
      <4>1. Over(probed, staging, d) = staging[d].parents
        BY <1>3, <3>1 DEF Over, Fits, Kept
      <4> QED BY <1>3, <3>1, <4>1 DEF Fits, Shape, Placed
    <3>2. CASE d \notin DOMAIN staging
      <4>1. Over(probed, staging, d) = probed[d].parents /\ d \in DOMAIN probed
        BY <1>3, <3>2 DEF Over
      <4> QED BY <1>3, <4>1 DEF Shape, Placed
    <3> QED BY <3>1, <3>2
  <2> QED BY <1>3, <2>2, <2>3
<1>8. \A d \in DOMAIN g : DOMAIN g[d] = Fields
  BY <1>1
<1>9. ASSUME NEW d \in DOMAIN g PROVE Placed(g, d)
  <2>1. CASE d \in Found
    BY <1>1, <1>3, <1>7, <2>1 DEF Placed
  <2>2. CASE d \notin Found
    <3>1. PICK f \in Filesystem \cap Found : g[d].parents = {f}
      BY <1>6, <2>2
    <3>2. MayBeOn(d, f)
      BY <1>6, <2>2 DEF MayBeOn
    <3> QED BY <1>1, <1>6, <2>2, <3>1, <3>2 DEF Placed
  <2> QED BY <2>1, <2>2
<1>10. Exclusive(g)
  <2> SUFFICES ASSUME NEW b \in In(Blk, g), NEW c1 \in Children(g, b), NEW c2 \in Children(g, b)
               PROVE  c1 = c2
    BY DEF Exclusive
  <2>1. b \in Blk /\ b \notin Filesystem /\ b \notin MountPoint
    BY ClassAssumption DEF In, Blk
  <2>2. b \in Found
    BY <1>6, <2>1 DEF In
  <2>3. c1 \in Found /\ c2 \in Found
    BY <1>6, <2>1 DEF Children
  <2>4. c1 \in Children(world, b) /\ c2 \in Children(world, b)
    BY <1>1, <1>3, <2>3 DEF Children
  <2> QED BY <1>3, <2>1, <2>2, <2>4 DEF Exclusive, In
<1>11. Shape(g)
  <2>1. IsFiniteSet(DOMAIN g) /\ DOMAIN g \subseteq Device
    <3>1. IsFiniteSet(Found \cup M)
      BY <1>4, <1>5, FS_Union
    <3> QED BY <1>1, <1>2, <1>4, <3>1 DEF Device
  <2> QED BY <1>8, <1>9, <1>10, <2>1, BlankFields DEF Shape
<1>12. Grounded(g)
  <2>1. Grounded(world)
    BY <1>3, PartGrounded DEF Fits
  <2> SUFFICES ASSUME NEW S \in (SUBSET DOMAIN g) \ {{}}
               PROVE  \E d \in S : g[d].parents \cap S = {}
    BY DEF Grounded
  <2>2. CASE S \cap Found = {}
    BY <1>6, <2>2
  <2>3. CASE S \cap Found # {}
    <3>1. PICK d \in S \cap Found : world[d].parents \cap (S \cap Found) = {}
      BY <1>3, <2>1, <2>3 DEF Grounded
    <3>2. g[d].parents \subseteq Found
      BY <1>1, <1>7
    <3> QED BY <1>1, <3>1, <3>2
  <2> QED BY <2>2, <2>3
<1> QED BY <1>11, <1>12 DEF g

\* Probing ends with graphs the library handles, after any commit: nothing is found
\* without what it is on.
LEMMA ProbeSound ==
  ASSUME Frame, Probe
  PROVE  Sound'
<1>1. /\ probed' = Probed /\ system' = Probed /\ staging' = Probed /\ phase' = "edit"
      /\ world' = [d \in Found |-> world[d]]
      /\ fstab' \subseteq fstab /\ mounts' = mounts
  BY DEF Probe
<1>2. Shape(Probed) /\ Fits(Probed, Probed)
  BY ProbedShape, FitsItself
<1>3. /\ DOMAIN Probed = Found \cup {e.mp : e \in Selected}
      /\ \A e \in Selected : e \in EntryType
      /\ \A d \in Found : Probed[d].parents = world[d].parents
  BY WhatIsProbed
<1>4. /\ DOMAIN world' = Found
      /\ \A d \in Found : world'[d] = world[d]
      /\ Found \subseteq DOMAIN world
      /\ Found \cap MountPoint = {}
      /\ \A d \in Found : \A p \in world[d].parents : p \in Found /\ (p \in Luks => world[p].active)
  BY <1>1, WhatIsFound
<1> DEFINE g == Probed
<1> HIDE DEF g
<1>5. World'
  <2>1. \A b : Children(world', b) \subseteq Children(world, b)
    BY <1>4 DEF Children
  <2>2. Exclusive(world')
    BY <1>4, <2>1 DEF Frame, World, Exclusive, In
  <2>3. \A d \in Found : Over(probed, staging, d)' = world[d].parents
    BY <1>1, <1>3 DEF Over
  <2>4. Disk \cap DOMAIN probed' \subseteq Found
    BY <1>1, <1>3, ClassAssumption DEF EntryType
  <2>5. \A d \in Found : d \in (DOMAIN probed' \cup DOMAIN staging') \ MountPoint /\ DOMAIN world[d] = Fields
    BY <1>1, <1>3, <1>4 DEF Frame, World
  <2> QED BY <1>4, <2>2, <2>3, <2>4, <2>5 DEF World
<1>6. Cardinal'
  BY <1>4 DEF Cardinal
<1>7. Entries'
  BY <1>1 DEF Frame, Entries
<1>8. Graphs' /\ Committing' /\ Editing' /\ Deleting'
  BY <1>1, <1>2, <1>3, <1>4 DEF Graphs, Committing, Editing, Deleting
<1> QED BY <1>5, <1>6, <1>7, <1>8 DEF Sound, Frame

-----------------------------------------------------------------------------

\* One step of a commit.
LEMMA CommitSound ==
  ASSUME Frame, ignored \in Nat, CommitAction
  PROVE  Frame' /\ (Sound /\ Undisturbed' => Sound')
<1>1. PICK a \in todo : \/ CommitCreate(a) \/ CommitDelete(a)
                        \/ CommitActivate(a) \/ CommitDeactivate(a)
                        \/ CommitResize(a) \/ CommitReallot(a)
                        \/ CommitMount(a) \/ CommitUnmount(a)
                        \/ CommitFstab(a) \/ CommitCrypttab(a)
                        \/ Fail(a)
  BY DEF CommitAction
<1>2. CASE CommitCreate(a)
  BY <1>2, CreateSound
<1>3. CASE CommitDelete(a)
  BY <1>3, DeleteSound
<1>4. CASE CommitActivate(a)
  BY <1>4, ActivateSound
<1>5. CASE CommitDeactivate(a)
  BY <1>5, DeactivateSound
<1>6. CASE CommitResize(a)
  BY <1>6, ResizeSound
<1>7. CASE CommitReallot(a)
  BY <1>7, ReallotSound
<1>8. CASE CommitMount(a)
  BY <1>8, MountSound
<1>9. CASE CommitUnmount(a)
  BY <1>9, UnmountSound
<1>10. CASE CommitFstab(a)
  BY <1>10, FstabSound
<1>11. CASE CommitCrypttab(a)
  BY <1>11, CrypttabSound
\* An ignored failure is counted; any other one ends the commit.
<1>12. CASE Fail(a)
  <2>1. Frame'
    BY <1>12, FailSound
  <2>2. ASSUME Undisturbed' PROVE phase' = "aborted" /\ UNCHANGED <<probed, staging, world, mounts, fstab>>
    <3>1. ignored' = 0
      BY <2>2 DEF Undisturbed
    <3> QED BY <1>12, <3>1 DEF Fail
  <2>3. Sound /\ Undisturbed' => Sound'
    BY <2>2, PhaseSound
  <2> QED BY <2>1, <2>3
<1> QED BY <1>1, <1>2, <1>3, <1>4, <1>5, <1>6, <1>7, <1>8, <1>9, <1>10, <1>11, <1>12

\* Errors that are ignored are counted; clear never becomes true again.
LEMMA CountersStep ==
  ASSUME ignored \in Nat, [Next]_vars
  PROVE  ignored' \in Nat /\ (Undisturbed' => Undisturbed)
<1>1. CASE EditStaging
  <2>1. UNCHANGED <<clear, ignored>>
    BY <1>1, EditEdited DEF Edited
  <2> QED BY <2>1 DEF Undisturbed
<1>2. CASE CalculateActiongraph
  <2>1. ignored' = ignored /\ (clear' => clear)
    BY <1>2 DEF CalculateActiongraph
  <2> QED BY <2>1 DEF Undisturbed
<1>3. CASE CommitAction
  <2>1. PICK a \in todo : Done(a) \/ Fail(a)
    BY <1>3 DEF CommitAction, CommitCreate, CommitDelete, CommitActivate, CommitDeactivate, CommitResize,
                CommitReallot, CommitMount, CommitUnmount, CommitFstab, CommitCrypttab
  <2>2. CASE Done(a)
    BY <2>2 DEF Done, Undisturbed
  <2>3. CASE Fail(a)
    BY <2>3 DEF Fail, Undisturbed
  <2> QED BY <2>1, <2>2, <2>3
<1>4. CASE EndCommit \/ Probe \/ UNCHANGED vars
  BY <1>4 DEF EndCommit, Probe, vars, Undisturbed
<1> QED BY <1>1, <1>2, <1>3, <1>4 DEF Next

\* Every step keeps the invariant.
LEMMA Step ==
  ASSUME Inv, [Next]_vars
  PROVE  Inv'
<1>1. ignored \in Nat /\ ignored' \in Nat /\ (Undisturbed' => Undisturbed) /\ Frame
  BY CountersStep DEF Inv
<1> SUFFICES Frame' /\ (Sound /\ Undisturbed' => Sound')
  BY <1>1 DEF Inv
<1>3. CASE EditStaging
  BY <1>1, <1>3, EditSound
<1>4. CASE CalculateActiongraph
  BY <1>1, <1>4, CalculateSound
<1>5. CASE CommitAction
  BY <1>1, <1>5, CommitSound
<1>6. CASE EndCommit
  BY <1>1, <1>6, PhaseSound DEF EndCommit
<1>7. CASE Probe
  BY <1>1, <1>7, ProbeSound DEF Sound
<1>8. CASE UNCHANGED vars
  BY <1>1, <1>8 DEF vars, Sound, Frame, Entries, Graphs, World, Cardinal, Deleting, Editing, Committing, Over
<1> QED BY <1>3, <1>4, <1>5, <1>6, <1>7, <1>8 DEF Next

\* Inv is an invariant: the disk is a graph the library handles between any two
\* actions, and what is to do fits to it.
THEOREM Invariance == Spec => []Inv
<1>1. Init => Inv
  BY InitSound
<1>2. Inv /\ [Next]_vars => Inv'
  BY Step
<1> QED BY <1>1, <1>2, PTL DEF Spec

\* At every point of every commit, whatever the client edited, in whatever order
\* the actions are committed and wherever it stops: what exists has everything
\* it is on, and nothing is on a closed LUKS.
THEOREM CardinalRulesHold == Spec => []CardinalRules
<1>1. Inv => CardinalRules
  BY DEF Inv, Sound, Cardinal, CardinalRules
<1> QED BY <1>1, Invariance, PTL

-----------------------------------------------------------------------------
(* The entries of /etc/fstab.                                              *)

\* A device of staging that the disk does not have is yet to be created.
LEMMA Created ==
  ASSUME NEW L, NEW R, NEW d \in DOMAIN R \ (DOMAIN L \cup MountPoint)
  PROVE  Act("create", d) \in Actions(L, R)
<1> DEFINE s == CreateChain(R, d).actions
<1>1. CreateChain(R, d) \in Chains(L, R)
  BY DEF Chains
<1>2. Act("create", d) \in Elements(s)
  <2>1. CASE d \in Luks
    <3> DEFINE two == <<Act("create", d), Act("activate", d)>>
               rest == When(R[d].listed, "add_crypttab", d)
    <3>1. s = two \o rest
      BY <2>1, ClassAssumption DEF CreateChain
    <3> DEFINE X == {Act("create", d), Act("activate", d), Act("add_crypttab", d)}
    <3>2. two \in Seq(X) /\ Len(two) = 2
      OBVIOUS
    <3>3. rest \in Seq(X)
      BY Pieces
    <3>4. two[1] = Act("create", d)
      OBVIOUS
    <3> HIDE DEF two, rest, s, X
    <3>5. 1 \in 1 .. Len(s) /\ s[1] = two[1] /\ s \in Seq(X)
      BY <3>1, <3>2, <3>3, ConcatProperties
    <3> QED BY <3>4, <3>5 DEF Elements
  <2>2. CASE d \notin Luks
    <3>1. s = <<Act("create", d)>>
      BY <2>2 DEF CreateChain, Chain
    <3>2. 1 \in DOMAIN s /\ s[1] = Act("create", d)
      BY <3>1
    <3> QED BY <3>2 DEF Elements
  <2> QED BY <2>1, <2>2
<1> HIDE DEF s
<1> QED BY <1>1, <1>2 DEF Actions, s

\* The ranks of the chains, which tell the marks of actions in two chains.
LEMMA ChainRanks ==
  ASSUME NEW L, NEW R, NEW c \in Chains(L, R)
  PROVE  1 <= c.rank
<1>1. CASE \E d : c = CreateChain(R, d)
  <2>1. PICK d : c = CreateChain(R, d)
    BY <1>1
  <2>2. CreateChain(R, d).rank = 1
    BY CreateChainActions
  <2> QED BY <2>1, <2>2
<1>2. CASE \E d : c = DeleteChain(L, d)
  <2>1. PICK d : c = DeleteChain(L, d)
    BY <1>2
  <2>2. DeleteChain(L, d).rank = 4
    BY DeleteChainActions
  <2> QED BY <2>1, <2>2
<1>3. CASE \E m : c = MountPointChain(L, R, m)
  <2>1. PICK m : c = MountPointChain(L, R, m)
    BY <1>3
  <2>2. MountPointChain(L, R, m).rank = 3
    BY MountPointChainActions
  <2> QED BY <2>1, <2>2
<1>4. CASE \E b \in Partition \cup Lv : c = ResizeChain(L, R, b)
  <2>1. PICK b \in Partition \cup Lv : c = ResizeChain(L, R, b)
    BY <1>4
  <2>2. b \in Device
    BY DEF Device, Blk
  <2> QED BY <2>1, <2>2, ResizeChainActions
<1> QED BY <1>1, <1>2, <1>3, <1>4 DEF Chains

\* A mount point on a new filesystem is mounted after that is created.
LEMMA MountedAfterFilesystem ==
  ASSUME NEW L, NEW R, NEW T \in SUBSET Actions(L, R), Onward(L, R, T),
         NEW f \in Filesystem \cap (DOMAIN R \ DOMAIN L), Act("create", f) \in T,
         NEW m \in MountPoint \cap (DOMAIN R \ DOMAIN L), f \in R[m].parents, R[m].active, R[m].listed
  PROVE  \E p \in Order(L, R) : p[2] = Act("add_fstab", m) /\ p[1] \in T
<1> DEFINE C == Chains(L, R)
           A == Actions(L, R)
           c == CreateChain(R, f)
           k == CreateChain(R, m)
           create == Act("create", f)
           mount == Act("mount", m)
           add == Act("add_fstab", m)
<1>1. f \notin MountPoint /\ f \notin Luks
  BY ClassAssumption
<1>2. c = Chain(1, <<create>>)
  BY <1>1 DEF CreateChain
<1>3. c \in C /\ c.rank = 1 /\ c.last = 1 /\ c.actions[1] = create /\ create \in Elements(c.actions)
  BY <1>2 DEF Chains, Chain, Elements
<1>4. k = Chain(1, <<mount>> \o <<add>>)
  BY ClassAssumption DEF CreateChain, When
<1>5. k \in C /\ Len(k.actions) = 2 /\ k.actions[1] = mount /\ k.actions[2] = add
  BY <1>4 DEF Chains, Chain
<1>6. mount \in A /\ add \in A
  <2>1. mount \in Elements(k.actions) /\ add \in Elements(k.actions)
    BY <1>4 DEF Elements, Chain
  <2> QED BY <1>5, <2>1 DEF Actions
<1>7. create \in A /\ create.sid = f /\ mount.sid = m /\ is_create(mount)
  BY DEF Act, is_create
<1>8. \A x \in C : 1 <= x.rank
  BY ChainRanks
<1> HIDE DEF c, k, create, mount, add, C, A
<1>9. create \in LastActions(C, A, f)
  <2>1. c \in Marking(C, create)
    BY <1>3, <1>8 DEF Marking
  <2> QED BY <1>3, <1>7, <2>1 DEF LastActions
<1>10. <<create, mount>> \in Order(L, R)
  <2>1. <<create, mount>> \in CreateDependencies(C, A, L, R)
    <3>1. create \in UNION {LastActions(C, A, p) : p \in R[mount.sid].parents \ DOMAIN L}
      BY <1>7, <1>9
    <3>2. mount \in {x \in A : is_create(x)}
      BY <1>6, <1>7
    <3> QED BY <3>1, <3>2 DEF CreateDependencies
  <2> QED BY <2>1 DEF Order, Dependencies, C, A
<1>11. <<mount, add>> \in Order(L, R)
  <2>1. <<mount, add>> \in ChainDependencies(C)
    <3>1. 1 \in 1 .. Len(k.actions) - 1 /\ <<mount, add>> = <<k.actions[1], k.actions[1 + 1]>>
      BY <1>5
    <3> QED BY <1>5, <3>1 DEF ChainDependencies
  <2> QED BY <2>1 DEF Order, Dependencies, C, A
<1>12. mount \in T
  BY <1>6, <1>10 DEF Onward, A, create
<1> QED BY <1>11, <1>12 DEF add

\* The actions on an entry of a mount point that is removed or added.
LEMMA EntryRemoved ==
  ASSUME NEW L, NEW R, NEW m \in MountPoint \cap (DOMAIN L \ DOMAIN R), L[m].listed
  PROVE  /\ Act("remove_fstab", m) \in Actions(L, R)
         /\ L[m].active => /\ Act("unmount", m) \in Actions(L, R)
                           /\ <<Act("remove_fstab", m), Act("unmount", m)>> \in Order(L, R)
<1> DEFINE k == DeleteChain(L, m)
           remove == Act("remove_fstab", m)
           unmount == Act("unmount", m)
<1>1. k = Chain(4, <<remove>> \o When(L[m].active, "unmount", m))
  BY ClassAssumption DEF DeleteChain, When
<1>2. k \in Chains(L, R)
  BY DEF Chains
<1>3. CASE L[m].active
  <2>1. k.actions = <<remove>> \o <<unmount>>
    BY <1>1, <1>3 DEF When, Chain
  <2>2. Len(k.actions) = 2 /\ k.actions[1] = remove /\ k.actions[2] = unmount
    BY <2>1
  <2>3. remove \in Elements(k.actions) /\ unmount \in Elements(k.actions)
    BY <2>1 DEF Elements
  <2> HIDE DEF k, remove, unmount
  <2>4. remove \in Actions(L, R) /\ unmount \in Actions(L, R)
    BY <1>2, <2>3 DEF Actions
  <2>5. <<remove, unmount>> \in ChainDependencies(Chains(L, R))
    <3>1. 1 \in 1 .. Len(k.actions) - 1 /\ <<remove, unmount>> = <<k.actions[1], k.actions[1 + 1]>>
      BY <2>2
    <3> QED BY <1>2, <3>1 DEF ChainDependencies
  <2>6. <<remove, unmount>> \in Order(L, R)
    BY <2>5 DEF Order, Dependencies
  <2> QED BY <2>4, <2>6 DEF remove, unmount
<1>4. CASE ~ L[m].active
  <2>1. k.actions = <<remove>>
    BY <1>1, <1>4 DEF When, Chain
  <2>2. remove \in Elements(k.actions)
    BY <2>1 DEF Elements
  <2> HIDE DEF k
  <2> QED BY <1>2, <1>4, <2>2 DEF Actions
<1> QED BY <1>3, <1>4

\* What exists, compared with the graphs: all that staging shares with the system,
\* and of what is new all that is not to be created any more.
Present == /\ phase = "edit" => DOMAIN world = DOMAIN probed \ MountPoint
           /\ phase = "commit" =>
                \A d \in DOMAIN staging \ MountPoint :
                   d \in DOMAIN world \/ (d \notin DOMAIN probed /\ Act("create", d) \in todo)
           /\ phase = "done" => DOMAIN world = DOMAIN staging \ MountPoint

\* The entries of filesystems that are deleted are still to be removed.
Removing == phase = "commit" =>
  \A e \in fstab :
     \/ e.fs \in DOMAIN staging
     \/ /\ e.mp \in MountPoint \cap (DOMAIN probed \ DOMAIN staging)
        /\ e.fs = Parent(probed, e.mp)
        /\ probed[e.mp].listed
        /\ Act("remove_fstab", e.mp) \in todo

Tabled == Present /\ Removing

\* When the action graph is made, fstab and the devices are as probed.
LEMMA CalculateTabled ==
  ASSUME Sound, Tabled, CalculateActiongraph, clear'
  PROVE  Tabled'
<1>1. /\ phase = "edit" /\ UNCHANGED <<probed, system, staging, world, mounts, fstab>>
      /\ todo' = Actions(probed, staging) /\ system = probed
      /\ phase' \in {"thrown", "commit"}
      /\ Known(probed)
  BY DEF CalculateActiongraph, Sound, Frame, Editing, Clear
<1>2. Present'
  <2>1. \A d \in DOMAIN staging \ MountPoint : d \notin DOMAIN probed => Act("create", d) \in todo'
    BY <1>1, Created
  <2> QED BY <1>1, <2>1 DEF Tabled, Present
<1>3. Removing'
  <2> SUFFICES ASSUME NEW e \in fstab, e.fs \notin DOMAIN staging
               PROVE  /\ e.mp \in MountPoint \cap (DOMAIN probed \ DOMAIN staging)
                      /\ e.fs = Parent(probed, e.mp)
                      /\ probed[e.mp].listed
                      /\ Act("remove_fstab", e.mp) \in todo'
    BY <1>1 DEF Removing
  <2>1. PICK m \in In(MountPoint, probed) : probed[m].listed /\ e = Entry(probed, m)
    BY <1>1 DEF Known
  <2>2. e.mp = m /\ e.fs = Parent(probed, m) /\ m \in MountPoint /\ m \in DOMAIN probed
    BY <2>1 DEF Entry, In
  <2>3. m \notin DOMAIN staging
    <3> SUFFICES ASSUME m \in DOMAIN staging PROVE FALSE
      OBVIOUS
    <3>1. staging[m].parents = probed[m].parents /\ m \notin Disk \cup Vg
      BY <2>2, ClassAssumption DEF Sound, Frame, Graphs, Fits, Kept
    <3>2. PICK b \in DOMAIN staging : staging[m].parents = {b}
      BY <3>1 DEF Sound, Frame, Graphs, Fits, Shape, Placed
    <3> QED BY <2>2, <3>1, <3>2 DEF Parent
  <2>4. Act("remove_fstab", m) \in todo'
    BY <1>1, <2>1, <2>2, <2>3, EntryRemoved
  <2> QED BY <2>1, <2>2, <2>3, <2>4
<1> QED BY <1>2, <1>3 DEF Tabled

\* What an action that is done leaves of the tables to do.
LEMMA DoneTabled ==
  ASSUME Sound, Tabled, NEW a \in todo, Done(a),
         \A d \in DOMAIN world : d \in DOMAIN world' \/ a = Act("delete", d),
         a.op = "create" => a.sid \in DOMAIN world',
         \A e \in fstab' : \/ e \in fstab /\ (a.op = "remove_fstab" => e.mp # a.sid)
                           \/ e.fs \in DOMAIN staging
  PROVE  Tabled'
<1>1. /\ phase = "commit" /\ todo' = todo \ {a}
      /\ probed' = probed /\ staging' = staging /\ phase' = phase
      /\ a \in Actions(probed, staging)
  BY DEF Done, Ready, Sound, Frame, Committing
<1>2. Present'
  <2> SUFFICES ASSUME NEW d \in DOMAIN staging \ MountPoint
               PROVE  d \in DOMAIN world' \/ (d \notin DOMAIN probed /\ Act("create", d) \in todo')
    BY <1>1 DEF Present
  <2>1. CASE d \in DOMAIN world
    <3>1. a # Act("delete", d)
      BY <1>1, ActionFacts DEF Act
    <3> QED BY <2>1, <3>1
  <2>2. CASE d \notin DOMAIN world
    <3>1. d \notin DOMAIN probed /\ Act("create", d) \in todo
      BY <1>1, <2>2 DEF Tabled, Present
    <3>2. a = Act("create", d) => d \in DOMAIN world'
      BY DEF Act
    <3> QED BY <1>1, <3>1, <3>2
  <2> QED BY <2>1, <2>2
<1>3. Removing'
  <2> SUFFICES ASSUME NEW e \in fstab', e.fs \notin DOMAIN staging
               PROVE  /\ e.mp \in MountPoint \cap (DOMAIN probed \ DOMAIN staging)
                      /\ e.fs = Parent(probed, e.mp)
                      /\ probed[e.mp].listed
                      /\ Act("remove_fstab", e.mp) \in todo'
    BY <1>1 DEF Removing
  <2>1. e \in fstab /\ (a.op = "remove_fstab" => e.mp # a.sid)
    OBVIOUS
  <2>2. /\ e.mp \in MountPoint \cap (DOMAIN probed \ DOMAIN staging)
        /\ e.fs = Parent(probed, e.mp)
        /\ probed[e.mp].listed
        /\ Act("remove_fstab", e.mp) \in todo
    BY <1>1, <2>1 DEF Tabled, Removing
  <2>3. a # Act("remove_fstab", e.mp)
    BY <2>1 DEF Act
  <2> QED BY <1>1, <2>2, <2>3
<1> QED BY <1>2, <1>3 DEF Tabled

\* The elements of joined lists of actions.
LEMMA ElementsOf ==
  /\ \A X : \A s, t \in Seq(X) : \A a \in Elements(s \o t) : a \in Elements(s) \cup Elements(t)
  /\ \A c, op, d : \A a \in Elements(When(c, op, d)) : c /\ a = Act(op, d)
<1>1. ASSUME NEW X, NEW s \in Seq(X), NEW t \in Seq(X), NEW a \in Elements(s \o t)
      PROVE  a \in Elements(s) \cup Elements(t)
  <2>1. PICK i \in 1 .. Len(s \o t) : a = (s \o t)[i]
    BY <1>1, ConcatProperties DEF Elements
  <2>2. Len(s \o t) = Len(s) + Len(t) /\ Len(s) \in Nat /\ Len(t) \in Nat
    BY <1>1
  <2>3. CASE i <= Len(s)
    <3>1. i \in DOMAIN s /\ a = s[i]
      BY <1>1, <2>1, <2>2, <2>3
    <3> QED BY <3>1 DEF Elements
  <2>4. CASE i > Len(s)
    <3>1. i - Len(s) \in DOMAIN t /\ a = t[i - Len(s)]
      BY <1>1, <2>1, <2>2, <2>4
    <3> QED BY <3>1 DEF Elements
  <2> QED BY <2>1, <2>2, <2>3, <2>4
<1>2. ASSUME NEW c, NEW op, NEW d, NEW a \in Elements(When(c, op, d))
      PROVE  c /\ a = Act(op, d)
  BY <1>2 DEF Elements, When
<1> QED BY <1>1, <1>2

\* The actions on the entries of mount points.
LEMMA EntryActions ==
  ASSUME NEW L, NEW R, NEW a \in Actions(L, R), a.op \in {"remove_fstab", "update_fstab", "add_fstab"}
  PROVE  LET m == a.sid
         IN  /\ m \in MountPoint /\ a = Act(a.op, m)
             /\ a.op = "remove_fstab" => m \in DOMAIN L /\ L[m].listed /\ ~ (m \in DOMAIN R /\ R[m].listed)
             /\ a.op = "update_fstab" => m \in DOMAIN L /\ m \in DOMAIN R /\ R[m].listed
             /\ a.op = "add_fstab" => m \in DOMAIN R /\ R[m].listed /\ ~ (m \in DOMAIN L /\ L[m].listed)
<1> DEFINE m == a.sid
           Q == /\ m \in MountPoint /\ a = Act(a.op, m)
                /\ a.op = "remove_fstab" => m \in DOMAIN L /\ L[m].listed /\ ~ (m \in DOMAIN R /\ R[m].listed)
                /\ a.op = "update_fstab" => m \in DOMAIN L /\ m \in DOMAIN R /\ R[m].listed
                /\ a.op = "add_fstab" => m \in DOMAIN R /\ R[m].listed /\ ~ (m \in DOMAIN L /\ L[m].listed)
<1>1. ASSUME NEW d \in DOMAIN R \ DOMAIN L, a \in Elements(CreateChain(R, d).actions) PROVE Q
  <2>1. a \in Acts(CreateOps(d), {d})
    BY <1>1, CreateChainActions, InChain
  <2>2. a.sid = d /\ a.op \in CreateOps(d) /\ d \in MountPoint
    BY <2>1, InActs DEF CreateOps
  <2> DEFINE s == When(R[d].active, "mount", d)
             t == When(R[d].listed, "add_fstab", d)
  <2>3. CreateChain(R, d).actions = s \o t
    BY <2>2, ClassAssumption DEF CreateChain, Chain
  <2>4. s \in Seq({Act("mount", d), Act("add_fstab", d)}) /\ t \in Seq({Act("mount", d), Act("add_fstab", d)})
    BY Pieces
  <2>5. a \in Elements(s) \cup Elements(t)
    BY <1>1, <2>3, <2>4, ElementsOf
  <2>6. a = Act("mount", d) \/ (a = Act("add_fstab", d) /\ R[d].listed)
    BY <2>5, ElementsOf
  <2> QED BY <1>1, <2>2, <2>6 DEF Act
<1>2. ASSUME NEW d \in DOMAIN L \ DOMAIN R, a \in Elements(DeleteChain(L, d).actions) PROVE Q
  <2>1. a \in Acts(DeleteOps(d), {d})
    BY <1>2, DeleteChainActions, InChain
  <2>2. a.sid = d /\ a.op \in DeleteOps(d) /\ d \in MountPoint
    BY <2>1, InActs DEF DeleteOps
  <2> DEFINE s == When(L[d].listed, "remove_fstab", d)
             t == When(L[d].active, "unmount", d)
  <2>3. DeleteChain(L, d).actions = s \o t
    BY <2>2, ClassAssumption DEF DeleteChain, Chain
  <2>4. s \in Seq({Act("unmount", d), Act("remove_fstab", d)}) /\ t \in Seq({Act("unmount", d), Act("remove_fstab", d)})
    BY Pieces
  <2>5. a \in Elements(s) \cup Elements(t)
    BY <1>2, <2>3, <2>4, ElementsOf
  <2>6. a = Act("unmount", d) \/ (a = Act("remove_fstab", d) /\ L[d].listed)
    BY <2>5, ElementsOf
  <2> QED BY <1>2, <2>2, <2>6 DEF Act
<1>3. ASSUME NEW d \in MountPoint \cap DOMAIN L \cap DOMAIN R, a \in Elements(MountPointChain(L, R, d).actions)
      PROVE  Q
  <2> DEFINE moved == L[d].name # R[d].name
             s1 == When(L[d].listed /\ ~ R[d].listed, "remove_fstab", d)
             s2 == When(L[d].active /\ (~ R[d].active \/ moved), "unmount", d)
             s3 == When(L[d].listed /\ R[d].listed /\ moved, "update_fstab", d)
             s4 == When(R[d].active /\ (~ L[d].active \/ moved), "mount", d)
             s5 == When(~ L[d].listed /\ R[d].listed, "add_fstab", d)
             X == Acts(MountOps, {d})
  <2>1. MountPointChain(L, R, d).actions = s1 \o s2 \o s3 \o s4 \o s5
    BY DEF MountPointChain, Chain
  <2>2. \A op \in MountOps : Act(op, d) \in X
    BY InActs
  <2> HIDE DEF X
  <2>3. s1 \in Seq(X) /\ s2 \in Seq(X) /\ s3 \in Seq(X) /\ s4 \in Seq(X) /\ s5 \in Seq(X)
    BY <2>2, Pieces DEF MountOps
  <2>4. /\ Elements(s1) \subseteq {x \in {Act("remove_fstab", d)} : L[d].listed /\ ~ R[d].listed}
        /\ Elements(s2) \subseteq {Act("unmount", d)}
        /\ Elements(s3) \subseteq {x \in {Act("update_fstab", d)} : R[d].listed}
        /\ Elements(s4) \subseteq {Act("mount", d)}
        /\ Elements(s5) \subseteq {x \in {Act("add_fstab", d)} : ~ L[d].listed /\ R[d].listed}
    BY ElementsOf
  <2> HIDE DEF s1, s2, s3, s4, s5
  <2>5. s1 \o s2 \in Seq(X) /\ s1 \o s2 \o s3 \in Seq(X) /\ s1 \o s2 \o s3 \o s4 \in Seq(X)
    BY <2>3, ConcatProperties
  <2>6. a \in Elements(s1) \cup Elements(s2) \cup Elements(s3) \cup Elements(s4) \cup Elements(s5)
    <3>1. a \in Elements(s1 \o s2 \o s3 \o s4) \cup Elements(s5)
      BY <1>3, <2>1, <2>3, <2>5, ElementsOf
    <3>2. \A x \in Elements(s1 \o s2 \o s3 \o s4) : x \in Elements(s1 \o s2 \o s3) \cup Elements(s4)
      BY <2>3, <2>5, ElementsOf
    <3>3. \A x \in Elements(s1 \o s2 \o s3) : x \in Elements(s1 \o s2) \cup Elements(s3)
      BY <2>3, <2>5, ElementsOf
    <3>4. \A x \in Elements(s1 \o s2) : x \in Elements(s1) \cup Elements(s2)
      BY <2>3, ElementsOf
    <3> QED BY <3>1, <3>2, <3>3, <3>4
  <2>7. \/ a = Act("remove_fstab", d) /\ L[d].listed /\ ~ R[d].listed
        \/ a = Act("unmount", d) \/ a = Act("mount", d)
        \/ a = Act("update_fstab", d) /\ R[d].listed
        \/ a = Act("add_fstab", d) /\ ~ L[d].listed /\ R[d].listed
    BY <2>4, <2>6
  <2> QED BY <2>7 DEF Act
<1>4. ASSUME NEW b \in Partition \cup Lv, a \in Elements(ResizeChain(L, R, b).actions) PROVE Q
  <2>1. b \in Device
    BY DEF Device, Blk
  <2>2. a \in ResizeActs(L, R)
    BY <1>4, <2>1, ResizeChainActions, InChain
  <2> QED BY <2>2, InResizeActs
<1>5. ASSUME a \in Singles(L, R) PROVE Q
  BY <1>5 DEF Singles, Reallot, Act
<1>6. Q
  <2>1. (\E c \in Chains(L, R) : a \in Elements(c.actions)) \/ a \in Singles(L, R)
    BY DEF Actions
  <2>2. ASSUME NEW c \in Chains(L, R)
        PROVE  \/ \E d \in DOMAIN R \ DOMAIN L : c = CreateChain(R, d)
               \/ \E d \in DOMAIN L \ DOMAIN R : c = DeleteChain(L, d)
               \/ \E d \in MountPoint \cap DOMAIN L \cap DOMAIN R : c = MountPointChain(L, R, d)
               \/ \E b \in Partition \cup Lv : c = ResizeChain(L, R, b)
    BY DEF Chains
  <2> HIDE DEF Q
  <2> QED BY <1>1, <1>2, <1>3, <1>4, <1>5, <2>1, <2>2
<1> QED BY <1>6

\* The filesystem of an entry that is written.
LEMMA WrittenEntry ==
  ASSUME Sound, NEW m \in MountPoint \cap DOMAIN staging
  PROVE  /\ Entry(staging, m).fs \in DOMAIN staging
         /\ staging[m].parents = {Entry(staging, m).fs}
         /\ m \in DOMAIN probed => probed[m].parents = staging[m].parents
<1>1. m \notin Disk \cup Vg
  BY ClassAssumption
<1>2. PICK f \in DOMAIN staging : staging[m].parents = {f}
  BY <1>1 DEF Sound, Frame, Graphs, Fits, Shape, Placed
<1> QED BY <1>1, <1>2 DEF Entry, Parent, Sound, Frame, Graphs, Fits, Kept

\* Every action that is committed keeps the account of the tables.
LEMMA CommitTabled ==
  ASSUME Sound, Tabled, ignored \in Nat, CommitAction, Undisturbed'
  PROVE  Tabled'
<1>1. PICK a \in todo : \/ CommitCreate(a) \/ CommitDelete(a)
                        \/ CommitActivate(a) \/ CommitDeactivate(a)
                        \/ CommitResize(a) \/ CommitReallot(a)
                        \/ CommitMount(a) \/ CommitUnmount(a)
                        \/ CommitFstab(a) \/ CommitCrypttab(a)
                        \/ Fail(a)
  BY DEF CommitAction
<1>2. ASSUME Done(a), DOMAIN world \subseteq DOMAIN world', fstab' = fstab, a.op \notin {"create", "remove_fstab"}
      PROVE  Tabled'
  BY <1>2, DoneTabled
<1>3. CASE CommitCreate(a)
  <2>1. Done(a) /\ a.op = "create" /\ fstab' = fstab /\ DOMAIN world' = DOMAIN world \cup {a.sid}
    BY <1>3 DEF CommitCreate, Add
  <2> QED BY <2>1, DoneTabled
<1>4. CASE CommitDelete(a)
  <2>1. Done(a) /\ a.op = "delete" /\ fstab' = fstab /\ DOMAIN world' = DOMAIN world \ {a.sid}
    BY <1>4 DEF CommitDelete
  <2>2. a = Act("delete", a.sid)
    BY <2>1, DoneKeeps, ActionFacts DEF Sound
  <2>3. \A d \in DOMAIN world : d \in DOMAIN world' \/ a = Act("delete", d)
    BY <2>1, <2>2
  <2> QED BY <2>1, <2>3, DoneTabled
<1>5. CASE CommitActivate(a) \/ CommitDeactivate(a) \/ CommitResize(a) \/ CommitReallot(a)
  <2>1. /\ Done(a) /\ fstab' = fstab /\ DOMAIN world' = DOMAIN world
        /\ a.op \in {"activate", "deactivate", "shrink", "grow", "extend", "reduce"}
    BY <1>5 DEF CommitActivate, CommitDeactivate, CommitResize, CommitReallot, is_resize
  <2> QED BY <1>2, <2>1
<1>6. CASE CommitMount(a) \/ CommitUnmount(a) \/ CommitCrypttab(a)
  <2>1. /\ Done(a) /\ fstab' = fstab /\ world' = world
        /\ a.op \in {"mount", "unmount", "add_crypttab", "remove_crypttab"}
    BY <1>6 DEF CommitMount, CommitUnmount, CommitCrypttab
  <2> QED BY <1>2, <2>1
<1>7. CASE CommitFstab(a)
  <2>1. /\ Done(a) /\ world' = world /\ a.op # "create"
        /\ \/ a.op \in {"add_fstab", "update_fstab"} /\ fstab' = Without(fstab, a.sid) \cup {Entry(staging, a.sid)}
           \/ a.op = "remove_fstab" /\ fstab' = Without(fstab, a.sid)
    BY <1>7 DEF CommitFstab
  <2>2. a.op \in {"add_fstab", "update_fstab"} => Entry(staging, a.sid).fs \in DOMAIN staging
    <3>1. a.op \in {"add_fstab", "update_fstab"} => a.sid \in MountPoint \cap DOMAIN staging
      BY <2>1, DoneKeeps, ActionFacts DEF Sound
    <3> QED BY <3>1, WrittenEntry
  <2>3. \A e \in fstab' : \/ e \in fstab /\ (a.op = "remove_fstab" => e.mp # a.sid)
                         \/ e.fs \in DOMAIN staging
    BY <2>1, <2>2 DEF Without
  <2> QED BY <2>1, <2>3, DoneTabled
<1>8. CASE Fail(a)
  <2>1. ignored' = 0
    BY DEF Undisturbed
  <2>2. phase' = "aborted"
    BY <1>8, <2>1 DEF Fail
  <2> QED BY <2>2 DEF Tabled, Present, Removing
<1> QED BY <1>1, <1>3, <1>4, <1>5, <1>6, <1>7, <1>8

FullInv == ignored \in Nat /\ (Undisturbed => Sound /\ Tabled)

\* The first probing.
LEMMA InitTabled ==
  ASSUME Init
  PROVE  Tabled
<1>1. phase = "edit" /\ DOMAIN world = DOMAIN probed \ MountPoint
  BY DEF Init
<1> QED BY <1>1 DEF Tabled, Present, Removing

\* Every step keeps the account of the tables.
LEMMA FullStep ==
  ASSUME FullInv, [Next]_vars
  PROVE  FullInv'
<1>1. ignored \in Nat /\ ignored' \in Nat /\ (Undisturbed' => Undisturbed)
  BY CountersStep DEF FullInv
<1> SUFFICES ASSUME Undisturbed' PROVE Sound' /\ Tabled'
  BY <1>1 DEF FullInv
<1>2. Sound /\ Tabled /\ Inv
  BY <1>1 DEF FullInv, Inv, Sound
<1>3. Sound'
  BY <1>2, Step DEF Inv
<1>4. CASE EditStaging
  <2>1. Edited
    BY <1>4, EditEdited
  <2> QED BY <1>2, <1>3, <2>1 DEF Edited, Tabled, Present, Removing
<1>5. CASE CalculateActiongraph
  BY <1>2, <1>3, <1>5, CalculateTabled DEF Undisturbed
<1>6. CASE CommitAction
  BY <1>1, <1>2, <1>3, <1>6, CommitTabled
<1>7. CASE EndCommit
  <2>1. phase = "commit" /\ todo = {} /\ phase' = "done" /\ UNCHANGED <<probed, staging, world, fstab>>
    BY <1>7 DEF EndCommit
  <2>2. DOMAIN staging \ MountPoint \subseteq DOMAIN world
    BY <1>2, <2>1 DEF Tabled, Present
  <2>3. DOMAIN world \subseteq DOMAIN staging \ MountPoint
    BY <1>2, <2>1 DEF Sound, Frame, Deleting, World
  <2> QED BY <1>3, <2>1, <2>2, <2>3 DEF Tabled, Present, Removing
<1>8. CASE Probe
  <2>1. DOMAIN Probed = DOMAIN world \cup {e.mp : e \in Selected} /\ Found = DOMAIN world
        /\ \A e \in Selected : e \in EntryType
    BY <1>2, AllIsFound, WhatIsProbed DEF Sound
  <2>2. {e.mp : e \in Selected} \subseteq MountPoint /\ DOMAIN world \cap MountPoint = {}
    BY <1>2, <2>1 DEF EntryType, Sound, Frame, World
  <2>3. DOMAIN Probed \ MountPoint = DOMAIN world
    BY <2>1, <2>2
  <2>4. probed' = Probed /\ DOMAIN world' = DOMAIN world /\ phase' = "edit"
    BY <1>8, <2>1 DEF Probe
  <2> QED BY <1>3, <2>3, <2>4 DEF Tabled, Present, Removing
<1>9. CASE UNCHANGED vars
  BY <1>2, <1>3, <1>9 DEF vars, Tabled, Present, Removing
<1> QED BY <1>4, <1>5, <1>6, <1>7, <1>8, <1>9 DEF Next

\* Both accounts, of the devices and of the tables, are invariants.
LEMMA FullInvariance == Spec => []FullInv
<1>1. Init => FullInv
  BY InitSound, InitTabled DEF Inv, FullInv
<1>2. FullInv /\ [Next]_vars => FullInv'
  BY FullStep
<1> QED BY <1>1, <1>2, PTL DEF Spec

\* A commit without errors ends with exactly the devices of staging.
DevicesAsStaging == phase = "done" /\ Undisturbed => DOMAIN world = DOMAIN staging \ MountPoint

\* DevicesAsStaging for any constants: a commit without a failure ends with exactly
\* the devices of staging.
THEOREM EndsWithTheDevices == Spec => []DevicesAsStaging
<1>1. FullInv => DevicesAsStaging
  BY DEF FullInv, Tabled, Present, DevicesAsStaging
<1> QED BY <1>1, FullInvariance, PTL

-----------------------------------------------------------------------------
(* The entries that a reboot finds.                                        *)

Excused(e) == \/ e.mp \in DOMAIN probed /\ ~ probed[e.mp].active
              \/ e.mp \in DOMAIN staging /\ ~ staging[e.mp].active

\* A filesystem is deleted after the entries of its active mount points.
LEMMA DeleteFstab ==
  ASSUME Sound, Tabled, NEW a \in todo, CommitDelete(a), NEW e \in Dangling' \ Dangling
  PROVE  Excused(e)
<1>1. Done(a) /\ a.op = "delete" /\ fstab' = fstab /\ DOMAIN world' = DOMAIN world \ {a.sid}
  BY DEF CommitDelete
<1>2. e \in fstab /\ e.fs = a.sid
  BY <1>1 DEF Dangling
<1>3. /\ a \in Actions(probed, staging) /\ phase = "commit"
      /\ \A p \in deps : p[2] = a => p[1] \notin todo
      /\ deps = Order(probed, staging) /\ todo \subseteq Actions(probed, staging)
      /\ Onward(probed, staging, todo)
  BY <1>1 DEF Done, Ready, Sound, Frame, Committing, Onward
<1>4. /\ a.sid \in DOMAIN probed \ (DOMAIN staging \cup MountPoint)
      /\ a \in Elements(DeleteChain(probed, a.sid).actions)
  BY <1>1, <1>3, ActionFacts
<1> DEFINE m == e.mp
<1>5. /\ m \in MountPoint \cap (DOMAIN probed \ DOMAIN staging)
      /\ a.sid = Parent(probed, m)
      /\ probed[m].listed
      /\ Act("remove_fstab", m) \in todo
  BY <1>2, <1>3, <1>4 DEF Tabled, Removing
<1> HIDE DEF m
<1>6. SUFFICES ASSUME probed[m].active PROVE FALSE
  BY <1>5 DEF Excused, m
<1>7. /\ Act("unmount", m) \in Actions(probed, staging)
      /\ <<Act("remove_fstab", m), Act("unmount", m)>> \in Order(probed, staging)
  BY <1>5, <1>6, EntryRemoved
<1>8. Act("unmount", m) \in todo
  BY <1>3, <1>5, <1>7 DEF Onward
<1>9. a.sid \in probed[m].parents
  <2>1. m \notin Disk \cup Vg
    BY <1>5, ClassAssumption
  <2> QED BY <1>5, <2>1 DEF Sound, Frame, Graphs, Shape, Placed, Parent
<1> DEFINE z == Act("unmount", m)
<1>10. z \in todo /\ is_delete(z) /\ a.sid \in probed[z.sid].parents
  BY <1>8, <1>9 DEF is_delete, Act
<1> HIDE DEF z
<1>11. todo \in SUBSET Actions(probed, staging)
  BY <1>3
<1>12. \E p \in Order(probed, staging) : p[2] = a /\ p[1] \in todo
  BY <1>3, <1>4, <1>10, <1>11, DeletedAfterChildren
<1> QED BY <1>3, <1>12

\* The entry of an active mount point is written after the filesystem is created.
LEMMA AddFstab ==
  ASSUME Sound, Tabled, NEW a \in todo, CommitFstab(a), NEW e \in Dangling' \ Dangling
  PROVE  Excused(e)
<1>1. /\ Done(a) /\ world' = world
      /\ \/ a.op \in {"add_fstab", "update_fstab"} /\ fstab' = Without(fstab, a.sid) \cup {Entry(staging, a.sid)}
         \/ fstab' = Without(fstab, a.sid)
  BY DEF CommitFstab
<1> DEFINE m == a.sid
           f == e.fs
<1>2. e = Entry(staging, m) /\ a.op \in {"add_fstab", "update_fstab"} /\ f \notin DOMAIN world
  BY <1>1 DEF Dangling, Without
<1>3. /\ a \in Actions(probed, staging) /\ phase = "commit"
      /\ \A p \in deps : p[2] = a => p[1] \notin todo
      /\ deps = Order(probed, staging) /\ todo \subseteq Actions(probed, staging)
      /\ Onward(probed, staging, todo)
  BY <1>1 DEF Done, Ready, Sound, Frame, Committing, Onward
<1>4. /\ m \in MountPoint /\ m \in DOMAIN staging /\ staging[m].listed
      /\ a = Act(a.op, m)
      /\ a.op = "update_fstab" => m \in DOMAIN probed
  BY <1>2, <1>3, EntryActions
<1>5. /\ f \in DOMAIN staging /\ staging[m].parents = {f}
      /\ m \in DOMAIN probed => probed[m].parents = {f}
      /\ e.mp = m
  BY <1>2, <1>4, WrittenEntry DEF Entry
<1> HIDE DEF m, f
<1>6. f \in Filesystem
  BY <1>4, <1>5, OnWhat DEF Sound, Frame, Graphs, Fits, Shape, Placed
<1>7. f \notin DOMAIN probed /\ Act("create", f) \in todo
  BY <1>2, <1>3, <1>5, <1>6, ClassAssumption DEF Tabled, Present
<1>8. m \notin DOMAIN probed
  BY <1>5, <1>7 DEF Sound, Frame, Graphs, Shape, Placed
<1>9. a = Act("add_fstab", m)
  BY <1>2, <1>4, <1>8
<1>10. SUFFICES ASSUME staging[m].active PROVE FALSE
  BY <1>4, <1>5 DEF Excused
<1>11. todo \in SUBSET Actions(probed, staging)
  BY <1>3
<1>12. \E p \in Order(probed, staging) : p[2] = a /\ p[1] \in todo
  BY <1>3, <1>4, <1>5, <1>6, <1>7, <1>8, <1>9, <1>10, <1>11, MountedAfterFilesystem
<1> QED BY <1>3, <1>12

\* A step that makes an entry of fstab dangle does so for a mount point that is not
\* active.
LEMMA FstabStep ==
  ASSUME FullInv, [Next]_vars, Undisturbed, NEW e \in Dangling' \ Dangling
  PROVE  Excused(e)
<1>1. Sound /\ Tabled
  BY DEF FullInv
<1>2. e \in fstab' /\ e.fs \notin DOMAIN world' /\ (e \in fstab => e.fs \in DOMAIN world)
  BY DEF Dangling
<1>3. CASE EditStaging
  BY <1>1, <1>2, <1>3, EditEdited DEF Edited
<1>4. CASE CalculateActiongraph \/ EndCommit \/ UNCHANGED vars
  BY <1>2, <1>4 DEF CalculateActiongraph, EndCommit, vars
<1>5. CASE Probe
  BY <1>2, <1>5 DEF Probe
<1>6. CASE CommitAction
  <2>1. PICK a \in todo : \/ CommitCreate(a) \/ CommitDelete(a)
                          \/ CommitActivate(a) \/ CommitDeactivate(a)
                          \/ CommitResize(a) \/ CommitReallot(a)
                          \/ CommitMount(a) \/ CommitUnmount(a)
                          \/ CommitFstab(a) \/ CommitCrypttab(a)
                          \/ Fail(a)
    BY <1>6 DEF CommitAction
  <2>2. CASE CommitCreate(a)
    BY <1>2, <2>2 DEF CommitCreate, Add
  <2>3. CASE CommitDelete(a)
    BY <1>1, <2>3, DeleteFstab
  <2>4. CASE CommitActivate(a) \/ CommitDeactivate(a) \/ CommitResize(a) \/ CommitReallot(a)
    BY <1>2, <2>4 DEF CommitActivate, CommitDeactivate, CommitResize, CommitReallot
  <2>5. CASE CommitMount(a) \/ CommitUnmount(a) \/ CommitCrypttab(a) \/ Fail(a)
    BY <1>2, <2>5 DEF CommitMount, CommitUnmount, CommitCrypttab, Fail
  <2>6. CASE CommitFstab(a)
    BY <1>1, <2>6, AddFstab
  <2> QED BY <2>1, <2>2, <2>3, <2>4, <2>5, <2>6
<1> QED BY <1>3, <1>4, <1>5, <1>6 DEF Next

\* Wherever a commit without ignored errors stops, /etc/fstab has no entry of an
\* active mount point whose filesystem is not there yet or not any more, unless
\* it was there before.
THEOREM FstabStaysCurrent == Spec => FstabCurrent
<1>1. FullInv /\ [Next]_vars =>
        [Undisturbed => \A e \in Dangling' \ Dangling :
                          \/ e.mp \in DOMAIN probed /\ ~ probed[e.mp].active
                          \/ e.mp \in DOMAIN staging /\ ~ staging[e.mp].active]_vars
  BY FstabStep DEF Excused
<1> QED BY <1>1, FullInvariance, PTL DEF Spec, FstabCurrent

-----------------------------------------------------------------------------
(* The mount points of the graphs.                                         *)

\* The mount points of h are mount points of g, where and with what they were.
SamePaths(g, h) == \A m \in In(MountPoint, h) : /\ m \in DOMAIN g
                                                /\ h[m].parents \subseteq g[m].parents
                                                /\ h[m].name = g[m].name

\* What a mount point is on.
LEMMA OnFilesystem ==
  ASSUME NEW g, Shape(g), NEW m \in MountPoint \cap DOMAIN g
  PROVE  /\ g[m].parents = {Parent(g, m)}
         /\ Parent(g, m) \in Filesystem \cap DOMAIN g
         /\ g[m].name \in Seq(STRING)
<1>1. m \notin Disk \cup Vg /\ Placed(g, m)
  BY ClassAssumption DEF Shape
<1>2. PICK b \in DOMAIN g : g[m].parents = {b}
  BY <1>1 DEF Placed
<1>3. b \in Filesystem
  BY <1>1, <1>2, OnWhat DEF Placed
<1> QED BY <1>1, <1>2, <1>3 DEF Parent, Placed

\* What is on a filesystem is a mount point.
LEMMA OnlyMountPoints ==
  ASSUME NEW g, Shape(g), NEW f \in Filesystem, NEW m \in Children(g, f)
  PROVE  m \in MountPoint \cap DOMAIN g /\ Parent(g, m) = f
<1>1. m \in DOMAIN g /\ MayBeOn(m, f)
  BY DEF Children, Shape, Placed
<1>2. m \in MountPoint
  BY <1>1, OnWhat
<1>3. g[m].parents = {Parent(g, m)}
  BY <1>1, <1>2, OnFilesystem
<1> QED BY <1>1, <1>2, <1>3 DEF Children

\* Without new paths the rules for mount points go on to hold.
LEMMA SamePathsMountable ==
  ASSUME NEW g, NEW h, Shape(g), Shape(h), Mountables(g), SamePaths(g, h)
  PROVE  Mountables(h)
<1>1. ASSUME NEW m \in In(MountPoint, h)
      PROVE  m \in In(MountPoint, g) /\ h[m].parents = g[m].parents /\ h[m].name = g[m].name
  <2>1. m \in DOMAIN g /\ h[m].parents \subseteq g[m].parents /\ h[m].name = g[m].name
    BY DEF SamePaths
  <2>2. g[m].parents = {Parent(g, m)} /\ h[m].parents = {Parent(h, m)}
    BY <2>1, OnFilesystem DEF In
  <2> QED BY <2>1, <2>2 DEF In
<1>2. ASSUME NEW f \in In(Filesystem, h), NEW m \in Children(h, f), NEW n \in Children(h, f)
      PROVE  m = n
  <2>1. m \in In(MountPoint, h) /\ n \in In(MountPoint, h)
    BY OnlyMountPoints DEF In
  <2>2. m \in Children(g, f) /\ n \in Children(g, f)
    BY <1>1, <2>1 DEF Children, In
  <2>3. f \in In(Filesystem, g)
    BY <2>2 DEF In, Children, Shape, Placed
  <2> QED BY <2>2, <2>3 DEF Mountables
<1>3. \A m \in In(MountPoint, h) : h[m].parents \subseteq Swap => h[m].name = SwapPath
  BY <1>1 DEF Mountables
<1> QED BY <1>2, <1>3 DEF Mountables

\* Removing and adding other devices makes no new path.
LEMMA PathsOfPieces ==
  ASSUME NEW g, \A d \in DOMAIN g : DOMAIN g[d] = Fields
  PROVE  /\ \A S : SamePaths(g, Remove(g, S))
         /\ \A d, r : d \notin MountPoint => SamePaths(g, Add(g, d, r))
<1>1. ASSUME NEW S PROVE SamePaths(g, Remove(g, S))
  BY DEF SamePaths, Remove, In, Fields
<1>2. ASSUME NEW d, NEW r, d \notin MountPoint PROVE SamePaths(g, Add(g, d, r))
  BY <1>2 DEF SamePaths, Add, In
<1> QED BY <1>1, <1>2

\* The physical volume of a device is put into a volume group.
LEMMA PathsOfPv ==
  ASSUME NEW g, \A d \in DOMAIN g : DOMAIN g[d] = Fields,
         NEW v \in Vg, NEW pv \in Pv, NEW b
  PROVE  SamePaths(g, add_lvm_pv(g, v, b, pv))
<1>1. v \notin MountPoint /\ pv \notin MountPoint
  BY ClassAssumption
<1>2. CASE Children(g, b) = {}
  <2> DEFINE a == Add(g, pv, Blank({b}))
  <2>1. add_lvm_pv(g, v, b, pv) = [a EXCEPT ![v].parents = @ \cup {pv}]
    BY <1>2 DEF add_lvm_pv
  <2>2. SamePaths(g, a)
    BY <1>1, PathsOfPieces
  <2> HIDE DEF a
  <2> QED BY <1>1, <2>1, <2>2 DEF SamePaths, In
<1>3. CASE Children(g, b) # {}
  BY <1>1, <1>3 DEF add_lvm_pv, SamePaths, In
<1> QED BY <1>2, <1>3

\* A new mount point is put on a filesystem that has none.
LEMMA NewMountPoint ==
  ASSUME NEW g, Shape(g), Mountables(g), NEW m \in MountPoint \ DOMAIN g, NEW f \in In(Filesystem, g),
         Children(g, f) = {}, NEW r, r.parents = {f}, f \in Swap => r.name = SwapPath
  PROVE  Mountables(Add(g, m, r))
<1> DEFINE h == Add(g, m, r)
<1>1. DOMAIN h = DOMAIN g \cup {m} /\ h[m] = r /\ \A d \in DOMAIN g : h[d] = g[d]
  BY DEF Add
<1> HIDE DEF h
<1>2. m \notin Filesystem /\ f # m
  BY ClassAssumption DEF In
<1>3. Children(h, f) = {m} /\ \A x \in DOMAIN g : x # f => Children(h, x) = Children(g, x)
  BY <1>1 DEF Children
<1>4. ASSUME NEW x \in In(Filesystem, h), NEW y \in Children(h, x), NEW z \in Children(h, x)
      PROVE  y = z
  <2>1. x \in In(Filesystem, g)
    BY <1>1, <1>2 DEF In
  <2>2. CASE x = f
    BY <1>3, <2>2
  <2>3. CASE x # f
    BY <1>3, <2>1, <2>3 DEF Mountables, In
  <2> QED BY <2>2, <2>3
<1>5. ASSUME NEW x \in In(MountPoint, h), h[x].parents \subseteq Swap PROVE h[x].name = SwapPath
  BY <1>1, <1>5 DEF Mountables, In
<1> QED BY <1>4, <1>5 DEF Mountables, h

\* No edit makes a filesystem have two mount points, or a swap a path.
LEMMA EditsMountable ==
  ASSUME Shape(probed), Fits(probed, staging), Mountables(staging), system = probed, EditStaging
  PROVE  Mountables(staging')
<1>1. Shape(staging) /\ Shape(staging')
  BY EditsFit DEF Fits
<1>2. ASSUME NEW g, Edit(g) PROVE staging' = g
  BY <1>2 DEF Edit
<1>3. ASSUME NEW g, Edit(g), SamePaths(staging, g) PROVE Mountables(staging')
  BY <1>1, <1>2, <1>3, SamePathsMountable
<1>4. /\ \A d \in DOMAIN staging : DOMAIN staging[d] = Fields
      /\ \A S : SamePaths(staging, Remove(staging, S))
      /\ \A d, r : d \notin MountPoint => SamePaths(staging, Add(staging, d, r))
  <2>1. \A d \in DOMAIN staging : DOMAIN staging[d] = Fields
    BY <1>1, BlankFields DEF Shape
  <2> QED BY <2>1, PathsOfPieces
<1>5. /\ \A S, x : x \in New(S) => x \in S \ DOMAIN staging
      /\ (Table \cup Partition \cup Luks \cup Pv \cup Vg \cup Lv \cup Filesystem) \cap MountPoint = {}
  BY NewDevice, ClassAssumption
\* New devices.
<1>6. ASSUME NEW d, NEW r, d \notin MountPoint, Edit(Add(staging, d, r)) PROVE Mountables(staging')
  BY <1>3, <1>4, <1>6
<1>6a. CASE CreatePartitionTable
  <2>1. PICK d \in In(Disk, staging), t \in New(Table) : Edit(create_partition_table(staging, d, t))
    BY <1>6a DEF CreatePartitionTable
  <2>2. t \notin MountPoint
    BY <1>5
  <2> QED BY <1>6, <2>1, <2>2 DEF create_partition_table
<1>6b. CASE CreatePartition
  <2>1. PICK t \in In(Table, staging), p \in New(Partition), size \in PartitionSize :
           \E start \in Unused(staging, t, p) : Edit(create_partition(staging, t, p, start, size))
    BY <1>6b DEF CreatePartition
  <2>2. p \notin MountPoint
    BY <1>5
  <2> QED BY <1>6, <2>1, <2>2 DEF create_partition
<1>6c. CASE CreateBlkFilesystem
  <2>1. PICK b \in Usable, f \in New(Filesystem) : Edit(create_blk_filesystem(staging, b, f))
    BY <1>6c DEF CreateBlkFilesystem
  <2>2. f \notin MountPoint
    BY <1>5
  <2> QED BY <1>6, <2>1, <2>2 DEF create_blk_filesystem
<1>6d. CASE CreateLvmLv
  <2>1. PICK v \in In(Vg, staging), lv \in New(Lv), name \in LvName, size \in LvSize :
           Edit(create_lvm_lv(staging, v, lv, name, size))
    BY <1>6d DEF CreateLvmLv
  <2>2. lv \notin MountPoint
    BY <1>5
  <2> QED BY <1>6, <2>1, <2>2 DEF create_lvm_lv
<1>7. CASE CreateEncryption
  <2>1. PICK b \in In(Partition \cup Lv, staging), l \in New(Luks), listed \in BOOLEAN :
           Edit(create_encryption(staging, b, l, listed))
    BY <1>7 DEF CreateEncryption
  <2> DEFINE moved == [d \in DOMAIN staging |-> IF d \in Children(staging, b) THEN [staging[d] EXCEPT !.parents = {l}]
                                                                            ELSE staging[d]]
             r == [Blank({b}) EXCEPT !.active = TRUE, !.listed = listed]
  <2>2. create_encryption(staging, b, l, listed) = Add(moved, l, r)
    BY DEF create_encryption
  <2>3. \A m \in In(MountPoint, staging) : m \notin Children(staging, b)
    BY <1>1, <2>1, OnWhat, ClassAssumption DEF Shape, Placed, Children, In
  <2> HIDE DEF r
  <2>4. SamePaths(staging, Add(moved, l, r))
    BY <1>5, <2>3 DEF SamePaths, Add, In
  <2> QED BY <1>3, <2>1, <2>2, <2>4
<1>8. CASE CreateMountPoint
  <2>1. PICK f \in In(Filesystem, staging), m \in New(MountPoint), path \in Path \ PathsInUse,
           active \in ActiveChoice, listed \in BOOLEAN :
           /\ Children(staging, f) = {}
           /\ f \in Swap <=> path = SwapPath
           /\ Edit(create_mount_point(staging, f, m, path, active, listed))
    BY <1>8 DEF CreateMountPoint
  <2> DEFINE r == [Blank({f}) EXCEPT !.name = path, !.active = active, !.listed = listed]
  <2>2. r.parents = {f} /\ r.name = path
    BY BlankFields DEF Fields
  <2>3. create_mount_point(staging, f, m, path, active, listed) = Add(staging, m, r)
    BY DEF create_mount_point
  <2> HIDE DEF r
  <2>4. m \in MountPoint \ DOMAIN staging
    BY <1>5
  <2>5. Mountables(Add(staging, m, r))
    BY <1>1, <2>1, <2>2, <2>4, NewMountPoint
  <2> QED BY <1>2, <2>1, <2>3, <2>5
\* Attributes.
<1>9. ASSUME NEW d, NEW n, NEW g, Edit(g),
            \/ g = set_size(staging, d, n) \/ g = set_active(staging, d, n)
            \/ g = set_in_etc_fstab(staging, d, n) \/ g = set_in_etc_crypttab(staging, d, n)
      PROVE  Mountables(staging')
  <2>1. DOMAIN g = DOMAIN staging
    BY <1>9 DEF set_size, set_active, set_in_etc_fstab, set_in_etc_crypttab
  <2>2. \A x \in DOMAIN staging : g[x].parents = staging[x].parents /\ g[x].name = staging[x].name
    BY <1>4, <1>9 DEF set_size, set_active, set_in_etc_fstab, set_in_etc_crypttab, Fields
  <2>3. SamePaths(staging, g)
    BY <2>1, <2>2 DEF SamePaths, In
  <2> QED BY <1>3, <1>9, <2>3
<1>9a. CASE ResizePartition
  <2>1. PICK p \in In(Partition, staging), size \in PartitionSize : Edit(set_size(staging, p, size))
    BY <1>9a DEF ResizePartition
  <2> QED BY <1>9, <2>1
<1>9b. CASE ResizeLvmLv
  <2>1. PICK lv \in In(Lv, staging), size \in LvSize : Edit(set_size(staging, lv, size))
    BY <1>9b DEF ResizeLvmLv
  <2> QED BY <1>9, <2>1
<1>9c. CASE SetActive \/ SetInEtcFstab \/ SetInEtcCrypttab
  <2>1. \E d, n : \/ Edit(set_active(staging, d, n)) \/ Edit(set_in_etc_fstab(staging, d, n))
                  \/ Edit(set_in_etc_crypttab(staging, d, n))
    BY <1>9c DEF SetActive, SetInEtcFstab, SetInEtcCrypttab
  <2> QED BY <1>9, <2>1
<1>10. CASE SetPath
  <2>1. PICK m \in In(MountPoint, staging), path \in Path \ (PathsInUse \cup {SwapPath}) :
           /\ staging[m].name # SwapPath
           /\ Edit(set_path(staging, m, path))
    BY <1>10 DEF SetPath
  <2> DEFINE g == set_path(staging, m, path)
  <2>2. /\ DOMAIN g = DOMAIN staging
        /\ \A x \in DOMAIN staging : /\ g[x].parents = staging[x].parents
                                     /\ x # m => g[x].name = staging[x].name
    BY <1>4 DEF set_path, Fields
  <2> HIDE DEF g
  <2>3. \A x : Children(g, x) = Children(staging, x)
    BY <2>2 DEF Children
  <2>4. ~ staging[m].parents \subseteq Swap
    BY <2>1 DEF Mountables
  <2>5. Mountables(g)
    BY <2>2, <2>3, <2>4 DEF Mountables, In
  <2> QED BY <1>2, <2>1, <2>5 DEF g
\* Volume groups.
<1>11. CASE AddLvmPv
  <2>1. PICK v \in In(Vg, staging), pv \in New(Pv), b \in In(Partition, staging) :
           Edit(add_lvm_pv(staging, v, b, pv))
    BY <1>11 DEF AddLvmPv
  <2>2. SamePaths(staging, add_lvm_pv(staging, v, b, pv))
    BY <1>4, <1>5, PathsOfPv DEF In
  <2> QED BY <1>3, <2>1, <2>2
<1>12. CASE CreateLvmVg
  <2>1. PICK v \in New(Vg), pv \in New(Pv), name \in VgName, b \in Usable :
           Edit(add_lvm_pv(create_lvm_vg(staging, v, name), v, b, pv))
    BY <1>12 DEF CreateLvmVg
  <2> DEFINE g == create_lvm_vg(staging, v, name)
             r == [Blank({}) EXCEPT !.name = name]
  <2>2. g = Add(staging, v, r) /\ DOMAIN r = Fields
    BY BlankFields DEF create_lvm_vg
  <2> HIDE DEF g, r
  <2>3. SamePaths(staging, g)
    BY <1>4, <1>5, <2>2
  <2>4. \A d \in DOMAIN g : DOMAIN g[d] = Fields
    BY <1>4, <2>2 DEF Add
  <2>5. SamePaths(g, add_lvm_pv(g, v, b, pv))
    BY <1>5, <2>4, PathsOfPv
  <2>6. SamePaths(staging, add_lvm_pv(g, v, b, pv))
    BY <2>3, <2>5 DEF SamePaths, In
  <2> QED BY <1>3, <2>1, <2>6 DEF g
\* Devices are removed.
<1>13. CASE RemoveDescendants \/ RemoveMountPoint \/ RemoveLvmPv \/ DeleteLvm
  <2>1. PICK S : Edit(Remove(staging, S))
    BY <1>13 DEF RemoveDescendants, RemoveMountPoint, RemoveLvmPv, DeleteLvm,
                 remove_descendants, remove_lvm_pv, delete_device
  <2> QED BY <1>3, <1>4, <2>1
<1>14. CASE DeletePartition
  <2>1. PICK p \in In(Partition, staging) : Edit(delete_partition(staging, system, p))
    BY <1>14 DEF DeletePartition
  <2> DEFINE rest == Remove(staging, Descendants(staging, p) \cup {p})
             moving == {c \in Children(rest, Parent(staging, p)) : /\ staging[c].name > staging[p].name
                                                                   /\ c \notin DOMAIN system}
             g == delete_partition(staging, system, p)
  <2>2. /\ DOMAIN g = DOMAIN rest
        /\ \A c \in DOMAIN rest \ moving : g[c] = rest[c]
    BY DEF delete_partition
  <2>3. SamePaths(staging, rest)
    BY <1>4
  <2>4. Parent(staging, p) \in Table
    <3>1. p \notin Disk \cup Vg /\ Placed(staging, p)
      BY <1>1, ClassAssumption DEF Shape, In
    <3>2. PICK t \in DOMAIN staging : staging[p].parents = {t}
      BY <3>1 DEF Placed
    <3> QED BY <3>1, <3>2, OnWhat DEF Placed, Parent, In
  <2>5. \A c \in moving : c \notin MountPoint
    <3>1. \A c \in Children(rest, Parent(staging, p)) : c \in Children(staging, Parent(staging, p))
      BY <1>4 DEF Children, Remove, Fields
    <3>2. \A c \in Children(staging, Parent(staging, p)) : c \in Partition
      BY <1>1, <2>4, OnWhat DEF Children, Shape, Placed
    <3> QED BY <3>1, <3>2, ClassAssumption
  <2> HIDE DEF g, rest, moving
  <2>6. SamePaths(staging, g)
    BY <2>2, <2>3, <2>5 DEF SamePaths, In
  <2> QED BY <1>3, <2>1, <2>6 DEF g
<1> QED BY <1>6a, <1>6b, <1>6c, <1>6d, <1>7, <1>8, <1>9a, <1>9b, <1>9c, <1>10, <1>11, <1>12, <1>13, <1>14 DEF EditStaging


-----------------------------------------------------------------------------
(* The actions that mount and unmount.                                     *)

\* Action x comes before y in the list s.
Follows(s, x, y) == \E i, j \in DOMAIN s : i < j /\ s[i] = x /\ s[j] = y

\* The elements of a joined list and the order they are in.
LEMMA JoinedOrder ==
  ASSUME NEW X, NEW s \in Seq(X), NEW t \in Seq(X)
  PROVE  /\ Elements(s) \subseteq Elements(s \o t) /\ Elements(t) \subseteq Elements(s \o t)
         /\ \A x \in Elements(s), y \in Elements(t) : Follows(s \o t, x, y)
         /\ \A x, y : Follows(s, x, y) => Follows(s \o t, x, y)
<1>1. /\ Len(s) \in Nat /\ Len(t) \in Nat /\ Len(s \o t) = Len(s) + Len(t)
      /\ DOMAIN s = 1 .. Len(s) /\ DOMAIN t = 1 .. Len(t) /\ DOMAIN (s \o t) = 1 .. Len(s) + Len(t)
  BY ConcatProperties
<1>2. \A i \in DOMAIN s : i \in DOMAIN (s \o t) /\ (s \o t)[i] = s[i]
  BY <1>1
<1>3. \A j \in DOMAIN t : j + Len(s) \in DOMAIN (s \o t) /\ (s \o t)[j + Len(s)] = t[j]
  BY <1>1
<1> DEFINE u == s \o t
<1>4. \A i \in DOMAIN s : i \in DOMAIN u /\ u[i] = s[i]
  BY <1>2
<1>5. \A j \in DOMAIN t : j + Len(s) \in DOMAIN u /\ u[j + Len(s)] = t[j]
  BY <1>3
<1> HIDE DEF u
<1>6. Elements(s) \subseteq Elements(u) /\ Elements(t) \subseteq Elements(u)
  BY <1>4, <1>5 DEF Elements
<1>7. ASSUME NEW x \in Elements(s), NEW y \in Elements(t) PROVE Follows(u, x, y)
  <2>1. PICK i \in DOMAIN s, j \in DOMAIN t : x = s[i] /\ y = t[j]
    BY DEF Elements
  <2>2. i < j + Len(s)
    BY <1>1, <2>1
  <2>3. i \in DOMAIN u /\ u[i] = x /\ j + Len(s) \in DOMAIN u /\ u[j + Len(s)] = y
    BY <1>4, <1>5, <2>1
  <2> QED BY <2>2, <2>3 DEF Follows
<1>8. ASSUME NEW x, NEW y, Follows(s, x, y) PROVE Follows(u, x, y)
  BY <1>4, <1>8 DEF Follows
<1> QED BY <1>6, <1>7, <1>8 DEF u

Moved(L, R, m) == L[m].name # R[m].name

\* The actions that mount and unmount a mount point that is in both graphs.
LEMMA MountPointChainMounts ==
  ASSUME NEW L, NEW R, NEW m
  PROVE  LET s == MountPointChain(L, R, m).actions
         IN  /\ Act("unmount", m) \in Elements(s) <=> L[m].active /\ (~ R[m].active \/ Moved(L, R, m))
             /\ Act("mount", m) \in Elements(s) <=> R[m].active /\ (~ L[m].active \/ Moved(L, R, m))
             /\ Act("unmount", m) \in Elements(s) /\ Act("mount", m) \in Elements(s)
                => Follows(s, Act("unmount", m), Act("mount", m))
<1> DEFINE moved == L[m].name # R[m].name
           s1 == When(L[m].listed /\ ~ R[m].listed, "remove_fstab", m)
           s2 == When(L[m].active /\ (~ R[m].active \/ moved), "unmount", m)
           s3 == When(L[m].listed /\ R[m].listed /\ moved, "update_fstab", m)
           s4 == When(R[m].active /\ (~ L[m].active \/ moved), "mount", m)
           s5 == When(~ L[m].listed /\ R[m].listed, "add_fstab", m)
           s == s1 \o s2 \o s3 \o s4 \o s5
           X == Acts(MountOps, {m})
           u == Act("unmount", m)
           a == Act("mount", m)
<1>1. MountPointChain(L, R, m).actions = s
  BY DEF MountPointChain, Chain
<1>2. \A op \in MountOps : Act(op, m) \in X
  BY InActs
<1> HIDE DEF X
<1>3. s1 \in Seq(X) /\ s2 \in Seq(X) /\ s3 \in Seq(X) /\ s4 \in Seq(X) /\ s5 \in Seq(X)
  BY <1>2, Pieces DEF MountOps
<1>4. /\ Elements(s1) \subseteq {Act("remove_fstab", m)}
      /\ Elements(s3) \subseteq {Act("update_fstab", m)}
      /\ Elements(s5) \subseteq {Act("add_fstab", m)}
  BY ElementsOf
<1>5. /\ Elements(s2) = IF L[m].active /\ (~ R[m].active \/ moved) THEN {u} ELSE {}
      /\ Elements(s4) = IF R[m].active /\ (~ L[m].active \/ moved) THEN {a} ELSE {}
  BY DEF Elements, When
<1>6. u # a /\ \A op \in {"remove_fstab", "update_fstab", "add_fstab"} : Act(op, m) # u /\ Act(op, m) # a
  BY DEF Act
<1> HIDE DEF s1, s2, s3, s4, s5, u, a
<1>7. s1 \o s2 \in Seq(X) /\ s1 \o s2 \o s3 \in Seq(X) /\ s1 \o s2 \o s3 \o s4 \in Seq(X)
  BY <1>3, ConcatProperties
<1>8. ASSUME NEW x \in Elements(s), x = u \/ x = a PROVE x \in Elements(s2) \cup Elements(s4)
  <2>1. x \in Elements(s1 \o s2 \o s3 \o s4) \cup Elements(s5)
    BY <1>3, <1>7, ElementsOf
  <2>2. x \in Elements(s1 \o s2 \o s3 \o s4) => x \in Elements(s1 \o s2 \o s3) \cup Elements(s4)
    BY <1>3, <1>7, ElementsOf
  <2>3. x \in Elements(s1 \o s2 \o s3) => x \in Elements(s1 \o s2) \cup Elements(s3)
    BY <1>3, <1>7, ElementsOf
  <2>4. x \in Elements(s1 \o s2) => x \in Elements(s1) \cup Elements(s2)
    BY <1>3, ElementsOf
  <2>5. x \notin Elements(s1) \cup Elements(s3) \cup Elements(s5)
    BY <1>4, <1>6, <1>8
  <2> QED BY <2>1, <2>2, <2>3, <2>4, <2>5
<1>9. Elements(s2) \subseteq Elements(s1 \o s2 \o s3)
  <2>1. Elements(s2) \subseteq Elements(s1 \o s2)
    BY <1>3, JoinedOrder
  <2>2. Elements(s1 \o s2) \subseteq Elements(s1 \o s2 \o s3)
    BY <1>3, <1>7, JoinedOrder
  <2> QED BY <2>1, <2>2
<1>10. /\ Elements(s2) \cup Elements(s4) \subseteq Elements(s)
       /\ \A x \in Elements(s2), y \in Elements(s4) : Follows(s, x, y)
  <2>1. /\ Elements(s1 \o s2 \o s3) \subseteq Elements(s1 \o s2 \o s3 \o s4)
        /\ Elements(s4) \subseteq Elements(s1 \o s2 \o s3 \o s4)
        /\ \A x \in Elements(s1 \o s2 \o s3), y \in Elements(s4) : Follows(s1 \o s2 \o s3 \o s4, x, y)
    BY <1>3, <1>7, JoinedOrder
  <2>2. /\ Elements(s1 \o s2 \o s3 \o s4) \subseteq Elements(s)
        /\ \A x, y : Follows(s1 \o s2 \o s3 \o s4, x, y) => Follows(s, x, y)
    BY <1>3, <1>7, JoinedOrder
  <2> QED BY <1>9, <2>1, <2>2
<1> HIDE DEF s
<1> QED BY <1>1, <1>5, <1>6, <1>8, <1>10 DEF Moved, u, a

\* The chains the mount points that are only in one graph are in.
LEMMA NewOrOldMounts ==
  ASSUME NEW g, NEW m \in MountPoint
  PROVE  /\ Act("mount", m) \in Elements(CreateChain(g, m).actions) <=> g[m].active
         /\ Act("unmount", m) \notin Elements(CreateChain(g, m).actions)
         /\ Act("unmount", m) \in Elements(DeleteChain(g, m).actions) <=> g[m].active
         /\ Act("mount", m) \notin Elements(DeleteChain(g, m).actions)
         /\ g[m].active => DeleteChain(g, m).actions[DeleteChain(g, m).last] = Act("unmount", m)
<1> DEFINE u == Act("unmount", m)
           a == Act("mount", m)
           s1 == When(g[m].active, "mount", m)
           s2 == When(g[m].listed, "add_fstab", m)
           t1 == When(g[m].listed, "remove_fstab", m)
           t2 == When(g[m].active, "unmount", m)
           X == Acts(MountOps, {m})
<1>1. /\ CreateChain(g, m).actions = s1 \o s2
      /\ DeleteChain(g, m).actions = t1 \o t2 /\ DeleteChain(g, m).last = Len(t1 \o t2)
  BY ClassAssumption DEF CreateChain, DeleteChain, Chain
<1>2. \A op \in MountOps : Act(op, m) \in X
  BY InActs
<1> HIDE DEF X
<1>3. s1 \in Seq(X) /\ s2 \in Seq(X) /\ t1 \in Seq(X) /\ t2 \in Seq(X)
  BY <1>2, Pieces DEF MountOps
<1>4. /\ Elements(s1) = IF g[m].active THEN {a} ELSE {}
      /\ Elements(s2) \subseteq {Act("add_fstab", m)}
      /\ Elements(t1) \subseteq {Act("remove_fstab", m)}
      /\ Elements(t2) = IF g[m].active THEN {u} ELSE {}
  BY DEF Elements, When
<1>5. u # a /\ \A op \in {"remove_fstab", "add_fstab"} : Act(op, m) # u /\ Act(op, m) # a
  BY DEF Act
<1>6. ASSUME g[m].active PROVE (t1 \o t2)[Len(t1 \o t2)] = u
  BY <1>3, <1>6 DEF When
<1> HIDE DEF s1, s2, t1, t2, u, a
<1>7. /\ Elements(s1) \subseteq Elements(s1 \o s2) /\ Elements(t2) \subseteq Elements(t1 \o t2)
      /\ \A x \in Elements(s1 \o s2) : x \in Elements(s1) \cup Elements(s2)
      /\ \A x \in Elements(t1 \o t2) : x \in Elements(t1) \cup Elements(t2)
  BY <1>3, JoinedOrder, ElementsOf
<1>8. /\ a \in Elements(s1 \o s2) <=> g[m].active
      /\ u \notin Elements(s1 \o s2)
      /\ u \in Elements(t1 \o t2) <=> g[m].active
      /\ a \notin Elements(t1 \o t2)
  BY <1>4, <1>5, <1>7
<1> QED BY <1>1, <1>6, <1>8 DEF u, a

\* The devices whose size is changed, with what is on them.
Resizing(L, R) == {b \in (Partition \cup Lv) \cap DOMAIN L \cap DOMAIN R : Size(L, b) # Size(R, b)}

\* The chains an action is in.
LEMMA ChainOf ==
  ASSUME NEW L, NEW R
  PROVE  /\ \A d \in DOMAIN R \ DOMAIN L : CreateChain(R, d) \in Chains(L, R)
         /\ \A d \in DOMAIN L \ DOMAIN R : DeleteChain(L, d) \in Chains(L, R)
         /\ \A m \in MountPoint \cap DOMAIN L \cap DOMAIN R : MountPointChain(L, R, m) \in Chains(L, R)
         /\ \A b \in Resizing(L, R) : ResizeChain(L, R, b) \in Chains(L, R)
         /\ \A c \in Chains(L, R) :
               \/ \E d \in DOMAIN R \ DOMAIN L : c = CreateChain(R, d)
               \/ \E d \in DOMAIN L \ DOMAIN R : c = DeleteChain(L, d)
               \/ \E m \in MountPoint \cap DOMAIN L \cap DOMAIN R : c = MountPointChain(L, R, m)
               \/ \E b \in Resizing(L, R) : c = ResizeChain(L, R, b)
         /\ \A c \in Chains(L, R) : \A a \in Elements(c.actions) : a \in Actions(L, R)
<1>1. /\ \A d \in DOMAIN R \ DOMAIN L : CreateChain(R, d) \in Chains(L, R)
      /\ \A d \in DOMAIN L \ DOMAIN R : DeleteChain(L, d) \in Chains(L, R)
      /\ \A m \in MountPoint \cap DOMAIN L \cap DOMAIN R : MountPointChain(L, R, m) \in Chains(L, R)
      /\ \A b \in Resizing(L, R) : ResizeChain(L, R, b) \in Chains(L, R)
  BY DEF Chains, Resizing
<1>2. ASSUME NEW c \in Chains(L, R)
      PROVE  \/ \E d \in DOMAIN R \ DOMAIN L : c = CreateChain(R, d)
             \/ \E d \in DOMAIN L \ DOMAIN R : c = DeleteChain(L, d)
             \/ \E m \in MountPoint \cap DOMAIN L \cap DOMAIN R : c = MountPointChain(L, R, m)
             \/ \E b \in Resizing(L, R) : c = ResizeChain(L, R, b)
  BY DEF Chains, Resizing
<1>3. \A c \in Chains(L, R) : \A a \in Elements(c.actions) : a \in Actions(L, R)
  BY DEF Actions
<1> QED BY <1>1, <1>2, <1>3

\* Where the actions that mount and unmount come from.
LEMMA MountActions ==
  ASSUME NEW L, NEW R, NEW a \in Actions(L, R), a.op \in {"mount", "unmount"}
  PROVE  LET m == a.sid
             L_ == m \in DOMAIN L
             R_ == m \in DOMAIN R
         IN  /\ m \in MountPoint /\ a = Act(a.op, m)
             /\ \/ \E b \in Resizing(L, R) : a \in Elements(ResizeChain(L, R, b).actions)
                \/ a.op = "mount" /\ R_ /\ ~ L_ /\ R[m].active
                \/ a.op = "unmount" /\ L_ /\ ~ R_ /\ L[m].active
                \/ /\ L_ /\ R_
                   /\ a.op = "mount" => R[m].active /\ (~ L[m].active \/ Moved(L, R, m))
                   /\ a.op = "unmount" => L[m].active /\ (~ R[m].active \/ Moved(L, R, m))
<1> DEFINE m == a.sid
           L_ == m \in DOMAIN L
           R_ == m \in DOMAIN R
           Q == /\ m \in MountPoint /\ a = Act(a.op, m)
                /\ \/ \E b \in Resizing(L, R) : a \in Elements(ResizeChain(L, R, b).actions)
                   \/ a.op = "mount" /\ R_ /\ ~ L_ /\ R[m].active
                   \/ a.op = "unmount" /\ L_ /\ ~ R_ /\ L[m].active
                   \/ /\ L_ /\ R_
                      /\ a.op = "mount" => R[m].active /\ (~ L[m].active \/ Moved(L, R, m))
                      /\ a.op = "unmount" => L[m].active /\ (~ R[m].active \/ Moved(L, R, m))
<1>1. ASSUME NEW d \in DOMAIN R \ DOMAIN L, a \in Elements(CreateChain(R, d).actions) PROVE Q
  <2>1. a \in Acts(CreateOps(d), {d})
    BY <1>1, CreateChainActions, InChain
  <2>2. a.sid = d /\ a.op \in CreateOps(d) /\ a = Act(a.op, d)
    BY <2>1, InActs
  <2>3. d \in MountPoint
    BY <2>2 DEF CreateOps
  <2>4. a.op = "mount" /\ R[d].active
    BY <1>1, <2>2, <2>3, NewOrOldMounts
  <2> QED BY <2>2, <2>3, <2>4
<1>2. ASSUME NEW d \in DOMAIN L \ DOMAIN R, a \in Elements(DeleteChain(L, d).actions) PROVE Q
  <2>1. a \in Acts(DeleteOps(d), {d})
    BY <1>2, DeleteChainActions, InChain
  <2>2. a.sid = d /\ a.op \in DeleteOps(d) /\ a = Act(a.op, d)
    BY <2>1, InActs
  <2>3. d \in MountPoint
    BY <2>2 DEF DeleteOps
  <2>4. a.op = "unmount" /\ L[d].active
    BY <1>2, <2>2, <2>3, NewOrOldMounts
  <2> QED BY <2>2, <2>3, <2>4
<1>3. ASSUME NEW d \in MountPoint \cap DOMAIN L \cap DOMAIN R, a \in Elements(MountPointChain(L, R, d).actions)
      PROVE  Q
  <2>1. a \in Acts(MountOps, {d})
    BY <1>3, MountPointChainActions, InChain
  <2>2. a.sid = d /\ a = Act(a.op, d)
    BY <2>1, InActs
  <2>3. /\ a.op = "mount" => R[d].active /\ (~ L[d].active \/ Moved(L, R, d))
        /\ a.op = "unmount" => L[d].active /\ (~ R[d].active \/ Moved(L, R, d))
    BY <1>3, <2>2, MountPointChainMounts
  <2> QED BY <2>2, <2>3
<1>4. ASSUME NEW b \in Resizing(L, R), a \in Elements(ResizeChain(L, R, b).actions) PROVE Q
  <2>1. b \in Device
    BY DEF Resizing, Device, Blk
  <2>2. a \in ResizeActs(L, R)
    BY <1>4, <2>1, ResizeChainActions, InChain
  <2>3. a.sid \in MountPoint /\ a = Act(a.op, a.sid)
    BY <2>2, InActs DEF ResizeActs
  <2> QED BY <1>4, <2>3
<1>5. a \notin Singles(L, R)
  BY DEF Singles, Reallot, Act
<1>6. Q
  <2>1. \E c \in Chains(L, R) : a \in Elements(c.actions)
    BY <1>5 DEF Actions
  <2> HIDE DEF Q
  <2> QED BY <1>1, <1>2, <1>3, <1>4, <2>1, ChainOf
<1> QED BY <1>6

\* What is resized on a device that stays: if it stays, it is resized in both graphs.
LEMMA ResizedOnBoth ==
  ASSUME NEW L, NEW R, Shape(L), Fits(L, R), NEW b \in Resizing(L, R), NEW f \in Filesystem
  PROVE  /\ f \in devices_to_resize(L, b) /\ f \in DOMAIN R => f \in devices_to_resize(R, b)
         /\ f \in devices_to_resize(R, b) /\ f \in DOMAIN L => f \in devices_to_resize(L, b)
<1>1. ASSUME NEW g, NEW h, Shape(g), Shape(h), \A d \in (DOMAIN g \cap DOMAIN h) \ Vg : g[d].parents = h[d].parents,
             b \in DOMAIN g, b \in DOMAIN h, f \in devices_to_resize(g, b), f \in DOMAIN h
      PROVE  f \in devices_to_resize(h, b)
  <2>1. b \in Blk /\ f \notin Vg /\ f \notin Luks /\ \A l \in Luks : l \notin Vg
    BY ClassAssumption DEF Resizing, Blk
  <2>2. f \in ContentOn(g, b)
    BY <1>1, <2>1 DEF devices_to_resize, LuksOn
  <2>3. f \in DOMAIN g /\ h[f].parents = g[f].parents
    BY <1>1, <2>1, <2>2 DEF ContentOn, Children
  <2>4. CASE LuksOn(g, b) = {}
    <3>1. f \in Children(h, b)
      BY <1>1, <2>2, <2>3, <2>4 DEF ContentOn, Children
    <3>2. LuksOn(h, b) = {}
      BY <1>1, <2>1, <3>1 DEF LuksOn, Shape, Exclusive, In
    <3> QED BY <3>1, <3>2 DEF devices_to_resize, ContentOn
  <2>5. CASE LuksOn(g, b) # {}
    <3>1. PICK l \in LuksOn(g, b) : l = CHOOSE x \in LuksOn(g, b) : TRUE
      BY <2>5
    <3>2. f \in Children(g, l)
      BY <2>2, <2>5, <3>1 DEF ContentOn
    <3>3. l \in Luks /\ l \in DOMAIN g /\ b \in g[l].parents /\ l \in g[f].parents
      BY <3>1, <3>2 DEF LuksOn, Children
    <3>4. l \in h[f].parents /\ l \in DOMAIN h
      BY <1>1, <2>3, <3>3 DEF Shape, Placed
    <3>5. h[l].parents = g[l].parents
      BY <1>1, <2>1, <3>3, <3>4
    <3>6. l \in Children(h, b) /\ f \in Children(h, l)
      BY <1>1, <3>3, <3>4, <3>5 DEF Children
    <3>7. LuksOn(h, b) = {l}
      BY <1>1, <2>1, <3>3, <3>6 DEF LuksOn, Shape, Exclusive, In
    <3>8. (CHOOSE x \in LuksOn(h, b) : TRUE) = l
      BY <3>7
    <3> QED BY <3>6, <3>7, <3>8 DEF devices_to_resize, ContentOn
  <2> QED BY <2>4, <2>5
<1>2. b \in DOMAIN L /\ b \in DOMAIN R /\ \A d \in (DOMAIN L \cap DOMAIN R) \ Vg : R[d].parents = L[d].parents
  BY DEF Resizing, Fits, Kept
<1> QED BY <1>1, <1>2 DEF Fits

\* A device has one filesystem at most that is resized with it.
LEMMA OneResized ==
  ASSUME NEW g, Shape(g), NEW b \in (Partition \cup Lv) \cap DOMAIN g,
         NEW x \in devices_to_resize(g, b) \cap Filesystem, NEW y \in devices_to_resize(g, b) \cap Filesystem
  PROVE  x = y
<1> DEFINE l == CHOOSE l \in LuksOn(g, b) : TRUE
           p == IF LuksOn(g, b) = {} THEN b ELSE l
<1>1. x \in Children(g, p) /\ y \in Children(g, p)
  BY ClassAssumption DEF devices_to_resize, LuksOn, ContentOn
<1>2. LuksOn(g, b) # {} => l \in Luks \cap DOMAIN g
  <2>1. LuksOn(g, b) # {} => l \in LuksOn(g, b)
    OBVIOUS
  <2> QED BY <2>1 DEF LuksOn, Children
<1> HIDE DEF l
<1>3. p \in In(Blk, g)
  BY <1>2 DEF In, Blk
<1> HIDE DEF p
<1> QED BY <1>1, <1>3 DEF Shape, Exclusive

\* The mount points of filesystems in S that stay, which are mounted.
ToMount(g, h, S) == {m \in MountPoint \cap DOMAIN g :
                       g[m].active /\ g[m].parents \subseteq S \cap Filesystem \cap DOMAIN h}

\* One action of a set of devices of which it can be one only.
LEMMA OneAction ==
  ASSUME NEW op, NEW S, \A x, y \in S : x = y
  PROVE  \A a : a \in Elements(One(op, S)) <=> \E x \in S : a = Act(op, x)
<1>1. CASE S = {}
  BY <1>1 DEF One, Elements
<1>2. CASE S # {}
  <2>1. PICK x \in S : x = CHOOSE y \in S : TRUE
    BY <1>2
  <2>2. One(op, S) = <<Act(op, x)>>
    BY <1>2, <2>1 DEF One
  <2>3. S = {x}
    BY <2>1
  <2>4. Elements(<<Act(op, x)>>) = {Act(op, x)}
    BY DEF Elements
  <2> QED BY <2>2, <2>3, <2>4
<1> QED BY <1>1, <1>2

\* A graph in which a filesystem has at most one mount point: one at most is
\* (un)mounted for a resize.
LEMMA OneToMount ==
  ASSUME NEW g, Shape(g), Mountables(g), NEW b \in (Partition \cup Lv) \cap DOMAIN g, NEW h,
         NEW x \in ToMount(g, h, devices_to_resize(g, b)), NEW y \in ToMount(g, h, devices_to_resize(g, b))
  PROVE  x = y
<1>1. /\ g[x].parents = {Parent(g, x)} /\ Parent(g, x) \in Filesystem \cap DOMAIN g
      /\ g[y].parents = {Parent(g, y)} /\ Parent(g, y) \in Filesystem \cap DOMAIN g
  BY OnFilesystem DEF ToMount
<1>2. Parent(g, x) \in devices_to_resize(g, b) /\ Parent(g, y) \in devices_to_resize(g, b)
  BY <1>1 DEF ToMount
<1>3. Parent(g, x) = Parent(g, y)
  BY <1>1, <1>2, OneResized
<1>4. x \in Children(g, Parent(g, x)) /\ y \in Children(g, Parent(g, x))
  BY <1>1, <1>3 DEF Children, ToMount
<1> QED BY <1>1, <1>4 DEF Mountables, In

\* What a resize unmounts and mounts: first the one, last the other.
LEMMA ResizeMounts ==
  ASSUME NEW L, NEW R, Shape(L), Fits(L, R), Mountables(L), Mountables(R), NEW b \in Resizing(L, R)
  PROVE  LET s == ResizeChain(L, R, b).actions
             U == ToMount(L, R, devices_to_resize(L, b))
             M == ToMount(R, L, devices_to_resize(R, b))
         IN  \E unmount \in BOOLEAN :
                /\ \A u : Act("unmount", u) \in Elements(s) <=> unmount /\ u \in U
                /\ \A m : Act("mount", m) \in Elements(s) <=> unmount /\ m \in M
                /\ unmount => \A u \in U, m \in M : Follows(s, Act("unmount", u), Act("mount", m))
<1> DEFINE s == ResizeChain(L, R, b).actions
           X == ResizeActs(L, R)
           U == ToMount(L, R, devices_to_resize(L, b))
           M == ToMount(R, L, devices_to_resize(R, b))
           unmount == ~ devices_to_resize(R, b) \cap Filesystem
                          \subseteq (IF Size(R, b) < Size(L, b) THEN OnlineShrink ELSE OnlineGrow)
           first == IF unmount THEN One("unmount", U) ELSE << >>
           middle == IF Size(R, b) < Size(L, b) THEN Shrinks(L, R, b) \o <<Act("shrink", b)>>
                                                ELSE <<Act("grow", b)>> \o Grows(L, R, b)
           last == IF unmount THEN One("mount", M) ELSE << >>
<1>1. s = first \o middle \o last
  BY DEF ResizeChain, Chain, InsertMountAction, ToMount
<1>2. unmount \in BOOLEAN
  OBVIOUS
<1>3. b \in Device /\ b \in (Partition \cup Lv) \cap DOMAIN L /\ b \in (Partition \cup Lv) \cap DOMAIN R /\ Shape(R)
  BY DEF Resizing, Device, Blk, Fits
<1>4. /\ \A op \in {"shrink", "grow"}, d \in Device : Act(op, d) \in X
      /\ \A m \in MountPoint \cap DOMAIN R : Act("mount", m) \in X
      /\ \A m \in MountPoint \cap DOMAIN L : Act("unmount", m) \in X
  BY InActs DEF ResizeActs
<1>5. /\ \A x, y \in U : x = y
      /\ \A x, y \in M : x = y
  BY <1>3, OneToMount
<1>6. /\ U \subseteq MountPoint \cap DOMAIN L /\ M \subseteq MountPoint \cap DOMAIN R
  BY DEF ToMount
\* What is resized in between.
<1> DEFINE Y == Acts({"shrink", "grow"}, Device)
<1>7. middle \in Seq(Y)
  <2>1. \A op \in {"shrink", "grow"}, d \in Device : Act(op, d) \in Y
    BY InActs
  <2> HIDE DEF Y
  <2>2. \A op \in {"shrink", "grow"} : \A T \in SUBSET Device : One(op, T) \in Seq(Y)
    BY <2>1, Pieces
  <2>3. \A g, h : LuksOn(g, b) \cap DOMAIN h \subseteq Device /\ ContentOn(g, b) \cap DOMAIN h \subseteq Device
    BY DEF LuksOn, ContentOn, Device, Blk
  <2>4. \A t, u \in Seq(Y) : t \o u \in Seq(Y)
    BY Pieces
  <2>5. Shrinks(L, R, b) \in Seq(Y) /\ Grows(L, R, b) \in Seq(Y)
    BY <2>2, <2>3, <2>4 DEF Shrinks, Grows
  <2>6. <<Act("shrink", b)>> \in Seq(Y) /\ <<Act("grow", b)>> \in Seq(Y)
    BY <1>3, <2>1
  <2> QED BY <2>4, <2>5, <2>6
<1>8. Y \subseteq X /\ \A a \in Y : a.op \in {"shrink", "grow"}
  <2>1. \A a \in Y : a.op \in {"shrink", "grow"}
    BY InActs
  <2> QED BY <2>1 DEF ResizeActs
<1> HIDE DEF X, Y, U, M, unmount
<1>9. middle \in Seq(X)
  BY <1>7, <1>8
<1>10. \A a \in Elements(middle) : a.op \in {"shrink", "grow"}
  BY <1>7, <1>8, InChain
<1> HIDE DEF middle
<1>11. first \in Seq(X) /\ last \in Seq(X)
  <2>1. << >> \in Seq(X)
    OBVIOUS
  <2> QED BY <1>4, <1>6, <2>1, Pieces
<1>12. /\ \A a : a \in Elements(first) <=> unmount /\ \E u \in U : a = Act("unmount", u)
       /\ \A a : a \in Elements(last) <=> unmount /\ \E m \in M : a = Act("mount", m)
  <2>1. Elements(<< >>) = {}
    BY DEF Elements
  <2> QED BY <1>5, <2>1, OneAction
<1> HIDE DEF first, last, s
<1>13. first \o middle \in Seq(X)
  BY <1>9, <1>11, ConcatProperties
<1>14. \A a : a \in Elements(s) <=> a \in Elements(first) \cup Elements(middle) \cup Elements(last)
  <2>1. \A t, v \in Seq(X) : \A a : a \in Elements(t \o v) <=> a \in Elements(t) \/ a \in Elements(v)
    BY JoinedOrder, ElementsOf
  <2>2. \A a : a \in Elements(first \o middle) <=> a \in Elements(first) \cup Elements(middle)
    BY <1>9, <1>11, <2>1
  <2>3. \A a : a \in Elements(s) <=> a \in Elements(first \o middle) \cup Elements(last)
    BY <1>1, <1>11, <1>13, <2>1
  <2> QED BY <2>2, <2>3
<1>15. /\ \A u : Act("unmount", u).op = "unmount" /\ Act("unmount", u).sid = u
       /\ \A m : Act("mount", m).op = "mount" /\ Act("mount", m).sid = m
  BY DEF Act
<1>16. \A u : Act("unmount", u) \in Elements(s) <=> unmount /\ u \in U
  BY <1>10, <1>12, <1>14, <1>15
<1>17. \A m : Act("mount", m) \in Elements(s) <=> unmount /\ m \in M
  BY <1>10, <1>12, <1>14, <1>15
<1>18. ASSUME unmount, NEW u \in U, NEW m \in M PROVE Follows(s, Act("unmount", u), Act("mount", m))
  <2>1. Act("unmount", u) \in Elements(first) /\ Act("mount", m) \in Elements(last)
    BY <1>12, <1>18
  <2>2. Act("unmount", u) \in Elements(first \o middle)
    BY <1>9, <1>11, <2>1, JoinedOrder
  <2> QED BY <1>1, <1>11, <1>13, <2>1, <2>2, JoinedOrder
<1> QED BY <1>2, <1>16, <1>17, <1>18 DEF s, U, M

\* Where a filesystem is unmounted for a resize it is mounted again, and the
\* other way round.
LEMMA ResizeRemounts ==
  ASSUME NEW L, NEW R, Shape(L), Fits(L, R), Mountables(L), Mountables(R), NEW b \in Resizing(L, R),
         NEW u \in MountPoint \cap DOMAIN L, NEW m \in MountPoint \cap DOMAIN R,
         L[u].active, R[m].active, L[u].parents = R[m].parents
  PROVE  LET s == ResizeChain(L, R, b).actions
         IN  /\ Act("unmount", u) \in Elements(s) <=> Act("mount", m) \in Elements(s)
             /\ Act("unmount", u) \in Elements(s) => Follows(s, Act("unmount", u), Act("mount", m))
<1> DEFINE onL == devices_to_resize(L, b)
           onR == devices_to_resize(R, b)
           s == ResizeChain(L, R, b).actions
<1>1. PICK f \in Filesystem \cap DOMAIN L : L[u].parents = {f}
  BY OnFilesystem
<1>2. f \in DOMAIN R
  <2>1. Shape(R)
    BY DEF Fits
  <2>2. R[m].parents = {Parent(R, m)} /\ Parent(R, m) \in DOMAIN R
    BY <2>1, OnFilesystem
  <2> QED BY <1>1, <2>2
<1>3. f \in onL <=> f \in onR
  BY <1>1, <1>2, ResizedOnBoth
<1>4. u \in ToMount(L, R, onL) <=> m \in ToMount(R, L, onR)
  BY <1>1, <1>2, <1>3 DEF ToMount
<1>5. PICK unmount \in BOOLEAN :
         /\ Act("unmount", u) \in Elements(s) <=> unmount /\ u \in ToMount(L, R, onL)
         /\ Act("mount", m) \in Elements(s) <=> unmount /\ m \in ToMount(R, L, onR)
         /\ unmount => \A x \in ToMount(L, R, onL), y \in ToMount(R, L, onR) :
                          Follows(s, Act("unmount", x), Act("mount", y))
  BY ResizeMounts
<1> HIDE DEF onL, onR, s
<1> QED BY <1>4, <1>5 DEF s

\* What is unmounted or mounted for a resize was mounted or is to be.
LEMMA ResizeMountsActive ==
  ASSUME NEW L, NEW R, Shape(L), Fits(L, R), Mountables(L), Mountables(R), NEW b \in Resizing(L, R)
  PROVE  LET s == ResizeChain(L, R, b).actions
         IN  /\ \A u : Act("unmount", u) \in Elements(s) => u \in DOMAIN L /\ L[u].active
             /\ \A m : Act("mount", m) \in Elements(s) => m \in DOMAIN R /\ R[m].active
<1> DEFINE s == ResizeChain(L, R, b).actions
<1>1. PICK unmount \in BOOLEAN :
         /\ \A u : Act("unmount", u) \in Elements(s) => u \in ToMount(L, R, devices_to_resize(L, b))
         /\ \A m : Act("mount", m) \in Elements(s) => m \in ToMount(R, L, devices_to_resize(R, b))
  BY ResizeMounts
<1> QED BY <1>1 DEF ToMount

\* Graphs with the rules for mount points.
Mounting(L, R) == Shape(L) /\ Fits(L, R) /\ Mountables(L) /\ Mountables(R)

\* An action of T comes right before a.
Awaits(L, R, T, a) == \E p \in Order(L, R) : p[2] = a /\ p[1] \in T

\* What comes later in a chain waits for what comes earlier.
LEMMA Along ==
  ASSUME NEW L, NEW R, NEW T, Onward(L, R, T),
         NEW c \in Chains(L, R), NEW X, c.actions \in Seq(X),
         NEW x \in T, NEW y, Follows(c.actions, x, y)
  PROVE  Awaits(L, R, T, y)
<1> DEFINE s == c.actions
<1>1. PICK i, j \in DOMAIN s : i < j /\ s[i] = x /\ s[j] = y
  BY DEF Follows
<1>2. DOMAIN s = 1 .. Len(s) /\ Len(s) \in Nat
  OBVIOUS
<1>3. ASSUME NEW k \in 1 .. Len(s) - 1 PROVE <<s[k], s[k + 1]>> \in Order(L, R)
  <2> DEFINE pairs(d) == {<<d.actions[n], d.actions[n + 1]>> : n \in 1 .. Len(d.actions) - 1}
  <2>1. <<s[k], s[k + 1]>> \in pairs(c)
    OBVIOUS
  <2>2. pairs(c) \in {pairs(d) : d \in Chains(L, R)}
    OBVIOUS
  <2>3. ChainDependencies(Chains(L, R)) = UNION {pairs(d) : d \in Chains(L, R)}
    BY DEF ChainDependencies
  <2> HIDE DEF pairs
  <2>4. <<s[k], s[k + 1]>> \in ChainDependencies(Chains(L, R))
    BY <2>1, <2>2, <2>3
  <2> QED BY <2>4 DEF Order, Dependencies
<1>4. \A k \in DOMAIN s : s[k] \in Actions(L, R)
  BY ChainOf DEF Elements
<1> HIDE DEF s
<1>5. j - 1 \in 1 .. Len(s) - 1 /\ i \in i .. j - 1 /\ i \in Nat /\ j \in Nat
  BY <1>1, <1>2
<1>6. s[j - 1] \in T
  <2> SUFFICES ASSUME s[j - 1] \notin T PROVE FALSE
    OBVIOUS
  <2> DEFINE S == {k \in i .. j - 1 : s[k] \notin T}
  <2>1. S \in SUBSET Nat /\ S # {}
    BY <1>5
  <2>2. PICK k \in S : \A n \in S : k <= n
    BY <2>1, LeastNat
  <2>3. k # i /\ k \in i .. j - 1 /\ s[k] \notin T
    BY <1>1, <2>2
  <2>4. k - 1 \in i .. j - 1 /\ k - 1 \notin S
    BY <1>5, <2>2, <2>3
  <2>5. s[k - 1] \in T /\ k - 1 \in 1 .. Len(s) - 1 /\ k \in DOMAIN s /\ (k - 1) + 1 = k
    BY <1>1, <1>2, <1>5, <2>3, <2>4
  <2>6. <<s[k - 1], s[k]>> \in Order(L, R)
    BY <1>3, <2>5
  <2> QED BY <1>4, <2>3, <2>5, <2>6 DEF Onward
<1>7. <<s[j - 1], s[j]>> \in Order(L, R)
  <2>1. (j - 1) + 1 = j
    BY <1>5
  <2> QED BY <1>3, <1>5, <2>1
<1> QED BY <1>1, <1>6, <1>7 DEF Awaits

\* What is unmounted and mounted: what is active in one graph only or elsewhere, and
\* for a resize.
LEMMA MountActionsAre ==
  ASSUME NEW L, NEW R, Mounting(L, R)
  PROVE  LET unmount(m) == Act("unmount", m) \in Actions(L, R)
             mount(m) == Act("mount", m) \in Actions(L, R)
         IN  /\ \A m : unmount(m) => m \in In(MountPoint, L) /\ L[m].active
             /\ \A m : mount(m) => m \in In(MountPoint, R) /\ R[m].active
             /\ \A m \in In(MountPoint, L) : m \notin DOMAIN R /\ L[m].active => unmount(m)
             /\ \A m \in In(MountPoint, R) : m \notin DOMAIN L /\ R[m].active => mount(m)
             /\ \A m \in MountPoint \cap DOMAIN L \cap DOMAIN R :
                   /\ L[m].active /\ (~ R[m].active \/ Moved(L, R, m)) => unmount(m)
                   /\ R[m].active /\ (~ L[m].active \/ Moved(L, R, m)) => mount(m)
                   /\ L[m].active /\ R[m].active => (unmount(m) <=> mount(m))
<1> DEFINE A == Actions(L, R)
           unmount(m) == Act("unmount", m) \in A
           mount(m) == Act("mount", m) \in A
<1>1. ASSUME NEW m
      PROVE  /\ Act("unmount", m).op = "unmount" /\ Act("unmount", m).sid = m
             /\ Act("mount", m).op = "mount" /\ Act("mount", m).sid = m
  BY DEF Act
<1>2. ASSUME NEW m, unmount(m)
      PROVE  /\ m \in In(MountPoint, L) /\ L[m].active
             /\ \/ \E b \in Resizing(L, R) : Act("unmount", m) \in Elements(ResizeChain(L, R, b).actions)
                \/ m \notin DOMAIN R \/ ~ R[m].active \/ Moved(L, R, m)
  <2>1. /\ m \in MountPoint
        /\ \/ \E b \in Resizing(L, R) : Act("unmount", m) \in Elements(ResizeChain(L, R, b).actions)
           \/ /\ m \in DOMAIN L /\ L[m].active
              /\ m \notin DOMAIN R \/ ~ R[m].active \/ Moved(L, R, m)
    BY <1>1, <1>2, MountActions
  <2>2. \A b \in Resizing(L, R) : Act("unmount", m) \in Elements(ResizeChain(L, R, b).actions)
                                  => m \in DOMAIN L /\ L[m].active
    BY ResizeMountsActive DEF Mounting
  <2> QED BY <2>1, <2>2 DEF In
<1>3. ASSUME NEW m, mount(m)
      PROVE  /\ m \in In(MountPoint, R) /\ R[m].active
             /\ \/ \E b \in Resizing(L, R) : Act("mount", m) \in Elements(ResizeChain(L, R, b).actions)
                \/ m \notin DOMAIN L \/ ~ L[m].active \/ Moved(L, R, m)
  <2>1. /\ m \in MountPoint
        /\ \/ \E b \in Resizing(L, R) : Act("mount", m) \in Elements(ResizeChain(L, R, b).actions)
           \/ /\ m \in DOMAIN R /\ R[m].active
              /\ m \notin DOMAIN L \/ ~ L[m].active \/ Moved(L, R, m)
    BY <1>1, <1>3, MountActions
  <2>2. \A b \in Resizing(L, R) : Act("mount", m) \in Elements(ResizeChain(L, R, b).actions)
                                  => m \in DOMAIN R /\ R[m].active
    BY ResizeMountsActive DEF Mounting
  <2> QED BY <2>1, <2>2 DEF In
<1>4. ASSUME NEW m \in In(MountPoint, L), m \notin DOMAIN R, L[m].active PROVE unmount(m)
  <2>1. m \in MountPoint /\ DeleteChain(L, m) \in Chains(L, R)
    BY <1>4, ChainOf DEF In
  <2>2. Act("unmount", m) \in Elements(DeleteChain(L, m).actions)
    BY <1>4, <2>1, NewOrOldMounts
  <2> QED BY <2>1, <2>2, ChainOf
<1>5. ASSUME NEW m \in In(MountPoint, R), m \notin DOMAIN L, R[m].active PROVE mount(m)
  <2>1. m \in MountPoint /\ CreateChain(R, m) \in Chains(L, R)
    BY <1>5, ChainOf DEF In
  <2>2. Act("mount", m) \in Elements(CreateChain(R, m).actions)
    BY <1>5, <2>1, NewOrOldMounts
  <2> QED BY <2>1, <2>2, ChainOf
<1>6. ASSUME NEW m \in MountPoint \cap DOMAIN L \cap DOMAIN R
      PROVE  /\ L[m].active /\ (~ R[m].active \/ Moved(L, R, m)) => unmount(m)
             /\ R[m].active /\ (~ L[m].active \/ Moved(L, R, m)) => mount(m)
             /\ L[m].active /\ R[m].active => (unmount(m) <=> mount(m))
  <2> DEFINE s == MountPointChain(L, R, m).actions
  <2>1. \A a \in Elements(s) : a \in A
    BY ChainOf
  <2>2. /\ Act("unmount", m) \in Elements(s) <=> L[m].active /\ (~ R[m].active \/ Moved(L, R, m))
        /\ Act("mount", m) \in Elements(s) <=> R[m].active /\ (~ L[m].active \/ Moved(L, R, m))
    BY MountPointChainMounts
  <2> HIDE DEF s
  <2>3. ASSUME L[m].active, R[m].active PROVE unmount(m) <=> mount(m)
    <3>1. CASE Moved(L, R, m)
      BY <2>1, <2>2, <2>3, <3>1
    <3>2. CASE ~ Moved(L, R, m)
      <4>1. L[m].parents = R[m].parents
        BY ClassAssumption DEF Mounting, Fits, Kept
      <4>2. ASSUME NEW b \in Resizing(L, R)
            PROVE  Act("unmount", m) \in Elements(ResizeChain(L, R, b).actions)
                     <=> Act("mount", m) \in Elements(ResizeChain(L, R, b).actions)
        BY <2>3, <4>1, ResizeRemounts DEF Mounting
      <4>3. \A b \in Resizing(L, R) : \A a \in Elements(ResizeChain(L, R, b).actions) : a \in A
        BY ChainOf
      <4> QED BY <1>2, <1>3, <2>3, <3>2, <4>2, <4>3
    <3> QED BY <3>1, <3>2
  <2> QED BY <2>1, <2>2, <2>3
<1> HIDE DEF A
<1> QED BY <1>2, <1>3, <1>4, <1>5, <1>6 DEF A

\* The chain in which a mount point of the system is unmounted, if it is not for a
\* resize, is the only one.
LEMMA UnmountMarks ==
  ASSUME NEW L, NEW R, NEW u \in MountPoint \cap (DOMAIN L \ DOMAIN R), L[u].active,
         \A b \in Resizing(L, R) : Act("unmount", u) \notin Elements(ResizeChain(L, R, b).actions)
  PROVE  Act("unmount", u) \in LastActions(Chains(L, R), Actions(L, R), u)
<1> DEFINE k == DeleteChain(L, u)
           a == Act("unmount", u)
           C == Chains(L, R)
           A == Actions(L, R)
<1>1. k \in C /\ a \in Elements(k.actions) /\ k.actions[k.last] = a /\ a \in A
  <2>1. k \in C /\ a \in Elements(k.actions) /\ k.actions[k.last] = a
    BY ChainOf, NewOrOldMounts
  <2> QED BY <2>1, ChainOf
<1>2. a.sid = u /\ a.op = "unmount"
  BY DEF Act
<1>3. ASSUME NEW c \in C, a \in Elements(c.actions) PROVE c = k
  <2>1. CASE \E d \in DOMAIN R \ DOMAIN L : c = CreateChain(R, d)
    <3>1. PICK d \in DOMAIN R \ DOMAIN L : c = CreateChain(R, d)
      BY <2>1
    <3>2. a \in Acts(CreateOps(d), {d})
      BY <1>3, <3>1, CreateChainActions, InChain
    <3>3. a.sid = d
      BY <3>2, InActs
    <3> QED BY <1>2, <3>1, <3>3
  <2>2. CASE \E d \in DOMAIN L \ DOMAIN R : c = DeleteChain(L, d)
    <3>1. PICK d \in DOMAIN L \ DOMAIN R : c = DeleteChain(L, d)
      BY <2>2
    <3>2. a \in Acts(DeleteOps(d), {d})
      BY <1>3, <3>1, DeleteChainActions, InChain
    <3>3. a.sid = d
      BY <3>2, InActs
    <3> QED BY <1>2, <3>1, <3>3
  <2>3. CASE \E m \in MountPoint \cap DOMAIN L \cap DOMAIN R : c = MountPointChain(L, R, m)
    <3>1. PICK m \in DOMAIN R : c = MountPointChain(L, R, m)
      BY <2>3
    <3>2. a \in Acts(MountOps, {m})
      BY <1>3, <3>1, MountPointChainActions, InChain
    <3>3. a.sid = m
      BY <3>2, InActs
    <3> QED BY <1>2, <3>1, <3>3
  <2>4. CASE \E b \in Resizing(L, R) : c = ResizeChain(L, R, b)
    BY <1>3, <2>4
  <2> QED BY <2>1, <2>2, <2>3, <2>4, ChainOf
<1> HIDE DEF k, a, C, A
<1>4. k \in Marking(C, a)
  <2>1. k.rank = 4
    BY DeleteChainActions DEF k
  <2>2. k.rank <= k.rank
    BY <2>1
  <2> QED BY <1>1, <1>3, <2>2 DEF Marking
<1>5. a \in LastActions(C, A, u)
  BY <1>1, <1>2, <1>4 DEF LastActions
<1> QED BY <1>5 DEF a, C, A

\* The only action on a filesystem that is deleted, and that on a new one.
LEMMA FilesystemMarks ==
  ASSUME NEW L, NEW R, NEW f \in Filesystem
  PROVE  /\ f \in DOMAIN L \ DOMAIN R =>
              /\ DeleteChain(L, f).actions = <<Act("delete", f)>>
              /\ Act("delete", f) \in LastActions(Chains(L, R), Actions(L, R), f)
         /\ f \in DOMAIN R \ DOMAIN L => Act("create", f) \in LastActions(Chains(L, R), Actions(L, R), f)
<1> DEFINE C == Chains(L, R)
           A == Actions(L, R)
<1>1. f \notin MountPoint /\ f \notin Luks
  BY ClassAssumption
<1>2. ASSUME f \in DOMAIN L \ DOMAIN R
      PROVE  /\ DeleteChain(L, f).actions = <<Act("delete", f)>>
             /\ Act("delete", f) \in LastActions(C, A, f)
  <2> DEFINE k == DeleteChain(L, f)
             a == Act("delete", f)
  <2>1. k = Chain(4, <<a>>)
    BY <1>1 DEF DeleteChain
  <2>2. k.actions = <<a>> /\ k.last = 1 /\ k.actions[1] = a
    BY <2>1 DEF Chain
  <2>3. a \in FirstActions(C, A, f)
    BY <1>1, <1>2, <2>2, DeleteChainMarks
  <2>4. PICK c \in Marking(C, a) : c.actions[1] = a
    BY <2>3 DEF FirstActions
  <2>5. c \in C /\ a \in Elements(c.actions)
    BY <2>4 DEF Marking
  <2>6. c = k
    <3>1. a.sid = f /\ a.op = "delete"
      BY DEF Act
    <3>2. CASE \E d \in DOMAIN R \ DOMAIN L : c = CreateChain(R, d)
      <4>1. PICK d \in DOMAIN R \ DOMAIN L : c = CreateChain(R, d)
        BY <3>2
      <4>2. a \in Acts(CreateOps(d), {d})
        BY <2>5, <4>1, CreateChainActions, InChain
      <4>3. a.sid = d
        BY <4>2, InActs
      <4> QED BY <1>2, <3>1, <4>3
    <3>3. CASE \E d \in DOMAIN L \ DOMAIN R : c = DeleteChain(L, d)
      <4>1. PICK d \in DOMAIN L \ DOMAIN R : c = DeleteChain(L, d)
        BY <3>3
      <4>2. a \in Acts(DeleteOps(d), {d})
        BY <2>5, <4>1, DeleteChainActions, InChain
      <4>3. a.sid = d
        BY <4>2, InActs
      <4> QED BY <3>1, <4>1, <4>3
    <3>4. CASE \E m \in MountPoint \cap DOMAIN L \cap DOMAIN R : c = MountPointChain(L, R, m)
      <4>1. PICK m \in DOMAIN R : c = MountPointChain(L, R, m)
        BY <3>4
      <4>2. a \in Acts(MountOps, {m})
        BY <2>5, <4>1, MountPointChainActions, InChain
      <4>3. a.sid = m
        BY <4>2, InActs
      <4> QED BY <1>2, <3>1, <4>1, <4>3
    <3>5. CASE \E b \in Resizing(L, R) : c = ResizeChain(L, R, b)
      <4>1. PICK b \in Resizing(L, R) : c = ResizeChain(L, R, b)
        BY <3>5
      <4>2. b \in Device
        BY DEF Resizing, Device, Blk
      <4>3. a \in ResizeActs(L, R)
        BY <2>5, <4>1, <4>2, ResizeChainActions, InChain
      <4>4. a.op \in {"shrink", "grow", "mount", "unmount"}
        BY <4>3, InResizeActs
      <4> QED BY <3>1, <4>4
    <3> QED BY <2>5, <3>2, <3>3, <3>4, <3>5, ChainOf
  <2> HIDE DEF k, a, C, A
  <2>7. a \in LastActions(C, A, f)
    BY <2>2, <2>3, <2>4, <2>6 DEF FirstActions, LastActions
  <2> QED BY <2>2, <2>7 DEF k, a
<1>3. ASSUME f \in DOMAIN R \ DOMAIN L PROVE Act("create", f) \in LastActions(C, A, f)
  <2> DEFINE c == CreateChain(R, f)
             a == Act("create", f)
  <2>1. c = Chain(1, <<a>>)
    BY <1>1 DEF CreateChain
  <2>2. c \in C /\ c.rank = 1 /\ c.last = 1 /\ c.actions[1] = a /\ a \in Elements(c.actions)
    BY <1>3, <2>1, ChainOf DEF Chain, Elements
  <2>3. a \in A /\ a.sid = f
    BY <2>2, ChainOf DEF Act
  <2>4. \A x \in C : 1 <= x.rank
    BY ChainRanks
  <2> HIDE DEF c, a, C, A
  <2>5. c \in Marking(C, a)
    BY <2>2, <2>4 DEF Marking
  <2>6. a \in LastActions(C, A, f)
    BY <2>2, <2>3, <2>5 DEF LastActions
  <2> QED BY <2>6 DEF a
<1> QED BY <1>2, <1>3

\* What is created comes after what is new under it, and after the deletion of
\* what was on what is not.
LEMMA CreatedAfter ==
  ASSUME NEW L, NEW R, NEW a \in Actions(L, R), is_create(a)
  PROVE  /\ \A p \in R[a.sid].parents \ DOMAIN L :
               \A x \in LastActions(Chains(L, R), Actions(L, R), p) : <<x, a>> \in Order(L, R)
         /\ a.sid \notin Partition =>
               \A p \in R[a.sid].parents \cap DOMAIN L : \A d \in Children(L, p) :
                  \A x \in LastActions(Chains(L, R), Actions(L, R), d) :
                     is_delete(x) => <<x, a>> \in Order(L, R)
<1> DEFINE C == Chains(L, R)
           A == Actions(L, R)
           new(c) == R[c.sid].parents \ DOMAIN L
           old(c) == IF c.sid \in Partition THEN {} ELSE R[c.sid].parents \cap DOMAIN L
           deleted(c) == UNION {Children(L, p) : p \in old(c)}
           pairs(c) == {<<b, c>> : b \in UNION {LastActions(C, A, p) : p \in new(c)}}
                       \cup {<<b, c>> : b \in {x \in UNION {LastActions(C, A, d) : d \in deleted(c)} : is_delete(x)}}
<1>1. CreateDependencies(C, A, L, R) = UNION {pairs(c) : c \in {x \in A : is_create(x)}}
  BY DEF CreateDependencies
<1>2. a \in {x \in A : is_create(x)}
  OBVIOUS
<1>3. ASSUME NEW x, x \in pairs(a) PROVE x \in Order(L, R)
  <2> HIDE DEF pairs
  <2>1. x \in CreateDependencies(C, A, L, R)
    BY <1>1, <1>2, <1>3
  <2> QED BY <2>1 DEF Order, Dependencies
<1>4. ASSUME NEW p \in new(a), NEW x \in LastActions(C, A, p) PROVE <<x, a>> \in pairs(a)
  OBVIOUS
<1>5. ASSUME NEW p \in old(a), NEW d \in Children(L, p), NEW x \in LastActions(C, A, d), is_delete(x)
      PROVE  <<x, a>> \in pairs(a)
  <2>1. d \in deleted(a)
    OBVIOUS
  <2> HIDE DEF deleted, new, old
  <2> QED BY <1>5, <2>1
<1> HIDE DEF pairs
<1> QED BY <1>3, <1>4, <1>5

\* A mount point is mounted after it, or another one of the same device, was
\* unmounted.
LEMMA UnmountedFirst ==
  ASSUME NEW L, NEW R, Mounting(L, R), NEW T \in SUBSET Actions(L, R), Onward(L, R, T),
         NEW u, Act("unmount", u) \in T, NEW m, Act("mount", m) \in Actions(L, R),
         u = m \/ On(L, u) = On(R, m)
  PROVE  Awaits(L, R, T, Act("mount", m))
<1> DEFINE A == Actions(L, R)
           C == Chains(L, R)
           unmount == Act("unmount", u)
           mount == Act("mount", m)
           fu == Parent(L, u)
           fm == Parent(R, m)
<1>1. /\ u \in MountPoint \cap DOMAIN L /\ L[u].active
      /\ m \in MountPoint \cap DOMAIN R /\ R[m].active
  BY MountActionsAre DEF In
<1>2. /\ L[u].parents = {fu} /\ fu \in Filesystem \cap DOMAIN L
      /\ R[m].parents = {fm} /\ fm \in Filesystem \cap DOMAIN R
  BY <1>1, OnFilesystem DEF Mounting, Fits
<1>3. unmount.op = "unmount" /\ unmount.sid = u /\ mount.op = "mount" /\ mount.sid = m
  BY DEF Act
<1>4. \A d \in (DOMAIN L \cap DOMAIN R) \ Vg : R[d].parents = L[d].parents
  BY DEF Mounting, Fits, Kept
<1>5. fu \notin Vg /\ fm \notin Vg /\ u \notin Vg /\ m \notin Vg /\ m \notin Partition /\ fm \notin Partition
  BY <1>1, <1>2, ClassAssumption
\* For a resize: of the filesystem of both.
<1>6. ASSUME fu = fm, NEW b \in Resizing(L, R), unmount \in Elements(ResizeChain(L, R, b).actions)
      PROVE  Awaits(L, R, T, mount)
  <2> DEFINE c == ResizeChain(L, R, b)
  <2>1. Follows(c.actions, unmount, mount)
    BY <1>1, <1>2, <1>6, ResizeRemounts DEF Mounting
  <2>2. b \in Device
    BY DEF Resizing, Device, Blk
  <2>3. c \in Chains(L, R) /\ c.actions \in Seq(ResizeActs(L, R))
    BY <2>2, ResizeChainActions, ChainOf
  <2> HIDE DEF c, mount, unmount
  <2> QED BY <2>1, <2>3, Along DEF unmount
<1>7. CASE u = m
  <2>1. u \in DOMAIN L \cap DOMAIN R /\ fu = fm
    BY <1>1, <1>2, <1>4, <1>5, <1>7
  <2> DEFINE c == MountPointChain(L, R, m)
  <2>2. c \in C /\ c.actions \in Seq(Acts(MountOps, {m}))
    BY <1>1, <1>7, MountPointChainActions, ChainOf
  <2>3. CASE Moved(L, R, m)
    <3>1. Follows(c.actions, unmount, mount)
      BY <1>1, <1>7, <2>3, MountPointChainMounts
    <3> HIDE DEF c, mount, unmount
    <3> QED BY <2>2, <3>1, Along DEF unmount, mount
  <2>4. CASE ~ Moved(L, R, m)
    <3>1. \E b \in Resizing(L, R) : unmount \in Elements(ResizeChain(L, R, b).actions)
      BY <1>1, <1>3, <1>7, <2>1, <2>4, MountActions
    <3> QED BY <1>6, <2>1, <3>1
  <2> QED BY <2>3, <2>4
<1>8. CASE u # m /\ fu = fm
  <2>1. u \notin DOMAIN R /\ m \notin DOMAIN L
    <3>1. u \in DOMAIN R => u \in Children(R, fm)
      BY <1>1, <1>2, <1>4, <1>5, <1>8 DEF Children
    <3>2. m \in DOMAIN L => m \in Children(L, fu)
      BY <1>1, <1>2, <1>4, <1>5, <1>8 DEF Children
    <3>3. m \in Children(R, fm) /\ u \in Children(L, fu)
      BY <1>1, <1>2 DEF Children
    <3>4. fm \in In(Filesystem, R) /\ fu \in In(Filesystem, L)
      BY <1>2 DEF In
    <3> QED BY <1>8, <3>1, <3>2, <3>3, <3>4 DEF Mounting, Mountables
  <2>2. CASE \E b \in Resizing(L, R) : unmount \in Elements(ResizeChain(L, R, b).actions)
    BY <1>6, <1>8, <2>2
  <2>3. CASE \A b \in Resizing(L, R) : unmount \notin Elements(ResizeChain(L, R, b).actions)
    <3>1. unmount \in LastActions(C, A, u)
      BY <1>1, <2>1, <2>3, UnmountMarks
    <3>2. fm \in R[mount.sid].parents \cap DOMAIN L /\ u \in Children(L, fm)
      BY <1>1, <1>2, <1>3, <1>8 DEF Children
    <3>3. is_create(mount) /\ is_delete(unmount)
      BY <1>3 DEF is_create, is_delete
    <3>4. <<unmount, mount>> \in Order(L, R)
      BY <1>3, <1>5, <3>1, <3>2, <3>3, CreatedAfter
    <3> QED BY <3>4 DEF Awaits
  <2> QED BY <2>2, <2>3
<1>9. CASE fu # fm
  <2> DEFINE delete == Act("delete", fu)
             create == Act("create", fm)
  <2>1. u # m
    BY <1>1, <1>2, <1>4, <1>5, <1>9
  <2>2. PICK b \in Blk : L[fu].parents = {b} /\ R[fm].parents = {b} /\ b \in DOMAIN L /\ b \in DOMAIN R
    <3>1. \A g : Shape(g) => \A f \in Filesystem \cap DOMAIN g :
                                 g[f].parents = {Parent(g, f)} /\ Parent(g, f) \in Blk \cap DOMAIN g
      <4> SUFFICES ASSUME NEW g, Shape(g), NEW f \in Filesystem \cap DOMAIN g
                   PROVE  g[f].parents = {Parent(g, f)} /\ Parent(g, f) \in Blk \cap DOMAIN g
        OBVIOUS
      <4>1. f \notin Disk \cup Vg /\ Placed(g, f)
        BY ClassAssumption DEF Shape
      <4>2. PICK x \in DOMAIN g : g[f].parents = {x}
        BY <4>1 DEF Placed
      <4>3. x \in Blk
        BY <4>1, <4>2, OnWhat DEF Placed
      <4> QED BY <4>2, <4>3 DEF Parent
    <3>2. On(L, u) = Parent(L, fu) /\ On(R, m) = Parent(R, fm)
      BY DEF On
    <3>3. Shape(L) /\ Shape(R)
      BY DEF Mounting, Fits
    <3> HIDE DEF fu, fm
    <3> QED BY <1>2, <2>1, <3>1, <3>2, <3>3
  <2>3. fu \notin DOMAIN R /\ fm \notin DOMAIN L
    <3>1. fu \in DOMAIN R => fu \in Children(R, b)
      BY <1>2, <1>4, <1>5, <2>2 DEF Children
    <3>2. fm \in DOMAIN L => fm \in Children(L, b)
      BY <1>2, <1>4, <1>5, <2>2 DEF Children
    <3>3. fu \in Children(L, b) /\ fm \in Children(R, b)
      BY <1>2, <2>2 DEF Children
    <3>4. b \in In(Blk, L) /\ b \in In(Blk, R)
      BY <2>2 DEF In
    <3> QED BY <1>9, <3>1, <3>2, <3>3, <3>4 DEF Mounting, Fits, Shape, Exclusive
  <2>4. /\ DeleteChain(L, fu).actions = <<delete>>
        /\ delete \in LastActions(C, A, fu) /\ create \in LastActions(C, A, fm)
    BY <1>2, <2>3, FilesystemMarks
  <2>5. delete.op = "delete" /\ create.op = "create" /\ create.sid = fm
    BY DEF Act
  <2>6. delete \in A /\ create \in A /\ is_delete(delete) /\ is_create(create) /\ is_create(mount) /\ is_delete(unmount)
    BY <1>3, <2>4, <2>5 DEF LastActions, is_delete, is_create
  <2>7. delete \in T
    <3>1. delete \in Elements(DeleteChain(L, fu).actions)
      BY <2>4 DEF Elements
    <3>2. fu \in DOMAIN L \ (DOMAIN R \cup MountPoint)
      BY <1>2, <2>3, ClassAssumption
    <3>3. unmount \in T /\ fu \in L[unmount.sid].parents
      BY <1>2, <1>3
    <3> HIDE DEF delete, unmount
    <3>4. \E p \in Order(L, R) : p[2] = delete /\ p[1] \in T
      BY <2>6, <3>1, <3>2, <3>3, DeletedAfterChildren
    <3> QED BY <2>6, <3>4 DEF Onward
  <2>8. <<delete, create>> \in Order(L, R)
    <3>1. b \in R[create.sid].parents \cap DOMAIN L /\ fu \in Children(L, b)
      BY <1>2, <2>2, <2>5 DEF Children
    <3> HIDE DEF delete, create
    <3> QED BY <1>5, <2>4, <2>5, <2>6, <3>1, CreatedAfter
  <2>9. create \in T
    BY <2>6, <2>7, <2>8 DEF Onward
  <2>10. <<create, mount>> \in Order(L, R)
    <3>1. fm \in R[mount.sid].parents \ DOMAIN L
      BY <1>2, <1>3, <2>3
    <3> HIDE DEF create, mount
    <3> QED BY <2>4, <2>6, <3>1, CreatedAfter DEF mount
  <2> QED BY <2>9, <2>10 DEF Awaits
<1> QED BY <1>7, <1>8, <1>9

-----------------------------------------------------------------------------
(* What is mounted, compared with the graphs.                              *)

Mounts == {mounts[i] : i \in DOMAIN mounts}

\* The rules for mount points, also for the entries that make them when the system
\* is probed.
Rules == /\ Mountables(probed) /\ Mountables(staging)
         /\ \A e \in Mounts \cup fstab : e.fs \in Swap => e.path = SwapPath

\* What is mounted as the probed graph has it, and what the commit has mounted.
OldEntry(L, e) == e.mp \in In(MountPoint, L) /\ L[e.mp].active /\ e = Entry(L, e.mp)
NewEntry(R, done, e) == e.mp \in In(MountPoint, R) /\ Act("mount", e.mp) \in done /\ e = Entry(R, e.mp)

\* A mount point is on one filesystem.
Paired == \A e, x \in Mounts \cup fstab : e.mp = x.mp => e.fs = x.fs

\* Nothing is mounted twice.
Once == \A i, j \in DOMAIN mounts : mounts[i] = mounts[j] => i = j

\* The device graph of the system knows what is mounted.
Current == \A m \in In(MountPoint, system) : system[m].active <=> \E e \in Mounts : e.mp = m

\* What the actions were calculated for.
Calculated == /\ Distinct(probed) /\ Distinct(staging)
              /\ PathsClear(probed, staging, Actions(probed, staging))
              /\ NestedClear(probed, staging, Actions(probed, staging))

\* The device graph of the system has the mount points that were probed.
SystemProbed ==
  /\ DOMAIN system = DOMAIN probed
  /\ \A m \in In(MountPoint, probed) : /\ DOMAIN system[m] = Fields
                                       /\ system[m].parents = probed[m].parents
                                       /\ system[m].name = probed[m].name

\* Whatever failed: what is mounted was mounted when the commit began or by it.
Tracked == phase = "commit" =>
  /\ Calculated /\ SystemProbed
  /\ \A e \in Mounts : \/ OldEntry(probed, e)
                       \/ NewEntry(staging, Actions(probed, staging) \ todo, e)
  /\ \A e \in fstab : Over(probed, staging, e.mp) = {e.fs}

Traced == Paired /\ Once /\ Current /\ Tracked

MountInv == Inv /\ Rules /\ (clear => Traced)

\* The graphs of a commit have the rules.
LEMMA CommitMounting ==
  ASSUME Frame, Rules, phase = "commit"
  PROVE  /\ Mounting(probed, staging)
         /\ todo \in SUBSET Actions(probed, staging)
         /\ Onward(probed, staging, todo)
         /\ deps = Order(probed, staging)
BY DEF Frame, Graphs, Rules, Mounting, Committing, Onward

\* The entry of a mount point that one of the graphs of a commit has.
LEMMA EntryOf ==
  ASSUME NEW L, NEW R, Mounting(L, R), NEW g \in {L, R}, NEW m \in In(MountPoint, g)
  PROVE  /\ Entry(g, m).mp = m /\ Entry(g, m).fs = Parent(g, m) /\ Entry(g, m).path = g[m].name
         /\ g[m].name \in Seq(STRING)
         /\ Over(L, R, m) = {Entry(g, m).fs}
         /\ Entry(g, m).fs \in Filesystem \cap DOMAIN g
         /\ Entry(g, m).fs \in Swap => Entry(g, m).path = SwapPath
<1>1. Shape(g) /\ Mountables(g)
  BY DEF Mounting, Fits
<1>2. g[m].parents = {Parent(g, m)} /\ Parent(g, m) \in Filesystem \cap DOMAIN g /\ g[m].name \in Seq(STRING)
  BY <1>1, OnFilesystem DEF In
<1>3. Over(L, R, m) = g[m].parents
  <2>1. m \in DOMAIN L /\ m \in DOMAIN R => R[m].parents = L[m].parents
    BY ClassAssumption DEF In, Mounting, Fits, Kept
  <2> QED BY <2>1 DEF Over, In
<1>4. Parent(g, m) \in Swap => g[m].name = SwapPath
  BY <1>1, <1>2 DEF Mountables
<1> QED BY <1>2, <1>3, <1>4 DEF Entry

\* A step that changes nothing about the mounts and entries.
LEMMA NothingMounted ==
  ASSUME UNCHANGED <<probed, system, mounts, fstab>>,
         phase' = "commit" => phase = "commit" /\ staging' = staging /\ todo' \subseteq todo
  PROVE  Traced => Traced'
<1>1. Mounts' = Mounts
  BY DEF Mounts
<1>2. /\ Paired => Paired'
      /\ Once => Once'
      /\ Current => Current'
  BY <1>1 DEF Paired, Once, Current
<1>3. Tracked => Tracked'
  BY <1>1 DEF Tracked, Calculated, SystemProbed, NewEntry, OldEntry, Entry
<1> QED BY <1>2, <1>3 DEF Traced

\* The rules stay with what they are about.
LEMMA RulesStay ==
  ASSUME Rules, UNCHANGED <<probed, staging>>,
         \A e \in (Mounts \cup fstab)' : e \in Mounts \cup fstab \/ (e.fs \in Swap => e.path = SwapPath)
  PROVE  Rules'
BY DEF Rules

\* The first probing: the mount points that are active are mounted once.
LEMMA InitMounts ==
  ASSUME Init
  PROVE  Rules /\ Traced
<1>1. /\ Shape(probed) /\ Mountables(probed) /\ Grounded(probed)
      /\ system = probed /\ staging = probed /\ phase = "edit"
  BY ProbesAssumption DEF Init
<1> DEFINE S == {m \in In(MountPoint, probed) : probed[m].active}
           N == 1 .. Cardinality(S)
<1>2. /\ mounts \in [N -> {Entry(probed, m) : m \in S}]
      /\ {mounts[i].mp : i \in N} = S
  BY DEF Init, Nested
<1>3. \A m \in In(MountPoint, probed) : Entry(probed, m).mp = m
  BY DEF Entry
<1>4. fstab = {Entry(probed, m) : m \in {x \in In(MountPoint, probed) : probed[x].listed}}
  BY DEF Init
<1>5. IsFiniteSet(S) /\ Cardinality(S) \in Nat
  <2>1. S \subseteq DOMAIN probed /\ IsFiniteSet(DOMAIN probed)
    BY <1>1 DEF Shape, In
  <2> HIDE DEF S
  <2> QED BY <2>1, FS_Subset, FS_CardinalityType
<1>6. /\ \A e \in Mounts \cup fstab : e.mp \in In(MountPoint, probed) /\ e = Entry(probed, e.mp)
      /\ \A e \in Mounts : e.mp \in S
      /\ \A m \in S : \E e \in Mounts : e.mp = m
  <2>1. S \subseteq In(MountPoint, probed)
    OBVIOUS
  <2>2. \A e \in fstab : e.mp \in In(MountPoint, probed) /\ e = Entry(probed, e.mp)
    BY <1>3, <1>4
  <2> HIDE DEF S, N
  <2>3. ASSUME NEW e \in Mounts PROVE e.mp \in S /\ e = Entry(probed, e.mp)
    <3>1. PICK i \in N : e = mounts[i]
      BY <1>2 DEF Mounts
    <3>2. PICK m \in S : e = Entry(probed, m)
      BY <1>2, <3>1
    <3> QED BY <1>3, <2>1, <3>2
  <2>4. ASSUME NEW m \in S PROVE \E e \in Mounts : e.mp = m
    <3>1. PICK i \in N : mounts[i].mp = m
      BY <1>2
    <3> QED BY <1>2, <3>1 DEF Mounts
  <2> QED BY <2>1, <2>2, <2>3, <2>4
<1>7. Once
  <2> HIDE DEF S
  <2> DEFINE f == [i \in N |-> mounts[i].mp]
  <2>1. f \in Surjection(N, S)
    BY <1>2 DEF Surjection
  <2>2. IsFiniteSet(N) /\ Cardinality(N) = Cardinality(S)
    <3>1. IsFiniteSet(1 .. Cardinality(S)) /\ Cardinality(1 .. Cardinality(S)) = IF 1 > Cardinality(S) THEN 0 ELSE Cardinality(S) - 1 + 1
      BY <1>5, FS_Interval
    <3> QED BY <1>5, <3>1
  <2> HIDE DEF f, N
  <2>3. f \in Injection(N, S)
    BY <2>1, <2>2, FS_Surjection
  <2>4. \A i, j \in N : f[i] = f[j] => i = j
    BY <2>3 DEF Injection, IsInjective
  <2>5. DOMAIN mounts = N
    BY <1>2
  <2> QED BY <2>4, <2>5 DEF Once, f
<1>8. Paired
  BY <1>6 DEF Paired
<1>9. Current
  BY <1>1, <1>6 DEF Current
<1>10. Tracked
  BY <1>1 DEF Tracked
<1>11. Rules
  <2>1. ASSUME NEW e \in Mounts \cup fstab, e.fs \in Swap PROVE e.path = SwapPath
    <3>1. e.mp \in In(MountPoint, probed) /\ e.fs = Parent(probed, e.mp) /\ e.path = probed[e.mp].name
      BY <1>6 DEF Entry
    <3>2. probed[e.mp].parents = {e.fs}
      BY <1>1, <3>1, OnFilesystem DEF In
    <3> QED BY <1>1, <2>1, <3>1, <3>2 DEF Mountables
  <2> QED BY <1>1, <2>1 DEF Rules
<1> QED BY <1>7, <1>8, <1>9, <1>10, <1>11 DEF Traced

\* What is mounted of a mount point that is still to be unmounted is what was
\* mounted when the commit began.
LEMMA StillOld ==
  ASSUME Frame, Rules, Tracked, phase = "commit",
         NEW m, Act("unmount", m) \in todo, NEW e \in Mounts, e.mp = m
  PROVE  OldEntry(probed, e)
<1> DEFINE A == Actions(probed, staging)
<1> SUFFICES ASSUME NewEntry(staging, A \ todo, e) PROVE FALSE
  BY DEF Tracked
<1>1. Act("mount", m) \in A \ todo
  BY DEF NewEntry
<1>2. Awaits(probed, staging, todo, Act("mount", m))
  BY <1>1, CommitMounting, UnmountedFirst
<1> QED BY <1>1, <1>2, CommitMounting DEF Awaits, Onward

\* What is mounted where a mount point is still to be unmounted from.
LEMMA StillThere ==
  ASSUME Frame, Rules, Tracked, phase = "commit",
         NEW m, Act("unmount", m) \in todo, NEW e \in Mounts,
         probed[m].name # SwapPath, e.path = probed[m].name
  PROVE  e.mp = m
<1> DEFINE A == Actions(probed, staging)
           n == e.mp
<1>1. /\ Mounting(probed, staging) /\ todo \in SUBSET A /\ Onward(probed, staging, todo)
      /\ Act("unmount", m) \in A
  BY CommitMounting
<1>2. m \in In(MountPoint, probed) /\ probed[m].active
  BY <1>1, MountActionsAre
<1>3. CASE OldEntry(probed, e)
  <2>1. n \in In(MountPoint, probed) /\ probed[n].active /\ probed[n].name = probed[m].name
    BY <1>3 DEF OldEntry, Entry
  <2> QED BY <1>2, <2>1 DEF Tracked, Calculated, Distinct
<1>4. CASE NewEntry(staging, A \ todo, e)
  <2> SUFFICES ASSUME n # m PROVE FALSE
    OBVIOUS
  <2>1. Act("mount", n) \in A /\ Act("mount", n) \notin todo /\ staging[n].name = probed[m].name
    BY <1>4 DEF NewEntry, Entry
  <2>2. PathsClear(probed, staging, A)
    BY DEF Tracked, Calculated
  <2>3. Act("unmount", m).op = "unmount" /\ Act("unmount", m).sid = m /\ Act("mount", n).op = "mount" /\ Act("mount", n).sid = n
    BY DEF Act
  <2>4. \/ On(probed, m) = On(staging, n)
        \/ Above(probed[m].name, staging[n].name)
    <3>1. /\ Act("unmount", m) \in {x \in A : x.op = "unmount"}
          /\ Act("mount", n) \in {x \in A : x.op = "mount"}
      BY <1>1, <2>1, <2>3
    <3>2. LET p == probed[m].name
              q == staging[n].name
          IN  m # n /\ (Covers(p, q) \/ Covers(q, p))
                => \/ On(probed, m) = On(staging, n)
                   \/ Act("mount", m) \in A /\ Above(p, q) /\ Above(staging[m].name, q)
      <4> HIDE DEF A
      <4> QED BY <2>2, <2>3, <3>1 DEF PathsClear
    <3>3. Covers(probed[m].name, staging[n].name)
      BY <2>1 DEF Covers
    <3> QED BY <3>2, <3>3
  <2>5. ~ Above(probed[m].name, staging[n].name)
    <3>1. Len(probed[m].name) \in Nat
      BY <1>1, <1>2, EntryOf, LenProperties
    <3> QED BY <2>1, <3>1 DEF Above
  <2>6. Awaits(probed, staging, todo, Act("mount", n))
    BY <1>1, <2>1, <2>4, <2>5, UnmountedFirst
  <2> QED BY <1>1, <2>1, <2>6 DEF Awaits, Onward
<1> QED BY <1>3, <1>4 DEF Tracked

\* What umount or swapoff leaves: all but what was mounted of the mount point.
LEMMA UnmountExact ==
  ASSUME Frame, Rules, Traced, NEW a \in todo, CommitUnmount(a)
  PROVE  /\ a.sid \in In(MountPoint, probed) /\ a = Act("unmount", a.sid)
         /\ Mounts' = {e \in Mounts : e.mp # a.sid}
         /\ Once'
         /\ \A i, j \in DOMAIN mounts' : i < j =>
               \E k, l \in DOMAIN mounts : k < l /\ mounts'[i] = mounts[k] /\ mounts'[j] = mounts[l]
<1> DEFINE m == a.sid
           n == UnmountIndex(m)
           A == Actions(probed, staging)
           candidates == {i \in DOMAIN mounts : IF system[m].name = SwapPath THEN mounts[i].mp = m
                                                ELSE mounts[i].path = system[m].name}
<1>1. /\ phase = "commit" /\ a.op = "unmount" /\ CanUnmount(m)
      /\ mounts' = IF n = 0 THEN mounts ELSE SubSeq(mounts, 1, n - 1) \o SubSeq(mounts, n + 1, Len(mounts))
  BY DEF CommitUnmount, Done, Ready
<1>2. Mounting(probed, staging) /\ todo \in SUBSET A /\ Tracked
  BY <1>1, CommitMounting DEF Traced
<1>3. a = Act("unmount", m)
  BY <1>1, <1>2, MountActions
<1>4. m \in In(MountPoint, probed) /\ Act("unmount", m) \in todo
  BY <1>2, <1>3, MountActionsAre
<1>5. system[m].name = probed[m].name /\ system[m].parents = probed[m].parents
  BY <1>1, <1>2, <1>4 DEF Tracked, SystemProbed
<1>6. mounts \in Seq(EntryType)
  BY DEF Frame, Entries
<1>7. n # 0 => n \in candidates
  <2> DEFINE on(i) == \E j \in DOMAIN mounts : /\ j > i
                                               /\ \/ Covers(system[m].name, mounts[j].path)
                                                  \/ Covers(mounts[j].path, system[m].name)
             free == {i \in candidates : ~ on(i)}
  <2>1. n = IF free = {} THEN 0 ELSE CHOOSE i \in free : TRUE
    BY DEF UnmountIndex
  <2> HIDE DEF candidates, on
  <2> QED BY <2>1
<1>8. \A i \in candidates : mounts[i].mp = m
  <2> SUFFICES ASSUME NEW i \in candidates, system[m].name # SwapPath PROVE mounts[i].mp = m
    OBVIOUS
  <2>1. mounts[i] \in Mounts /\ mounts[i].path = probed[m].name
    BY <1>5 DEF Mounts
  <2> QED BY <1>1, <1>2, <1>4, <1>5, <2>1, StillThere
<1> HIDE DEF n, candidates
<1>9. ASSUME NEW e \in Mounts, e.mp = m PROVE e = Entry(probed, m)
  BY <1>1, <1>2, <1>4, <1>9, StillOld DEF OldEntry
<1>10. n = 0 => \A e \in Mounts : e.mp # m
  <2> SUFFICES ASSUME n = 0, NEW e \in Mounts, e.mp = m PROVE FALSE
    OBVIOUS
  <2>1. ~ Mounted(Parent(system, m))
    BY <1>1 DEF CanUnmount, n
  <2>2. e.fs = Parent(probed, m)
    BY <1>9 DEF Entry
  <2>3. Parent(system, m) = Parent(probed, m)
    BY <1>5 DEF Parent
  <2> QED BY <2>1, <2>2, <2>3 DEF Mounted, Mounts
<1>11. Once
  BY DEF Traced
<1>12. DOMAIN mounts = 1 .. Len(mounts) /\ Len(mounts) \in Nat
  BY <1>6
<1>13. CASE n = 0
  <2>1. mounts' = mounts
    BY <1>1, <1>13
  <2> QED BY <1>3, <1>4, <1>10, <1>11, <1>13, <2>1 DEF Mounts, Once
<1>14. CASE n # 0
  <2>1. n \in DOMAIN mounts /\ mounts[n].mp = m
    BY <1>7, <1>8, <1>14 DEF candidates
  <2>2. /\ Len(mounts') = Len(mounts) - 1 /\ DOMAIN mounts' = 1 .. Len(mounts')
        /\ \A i \in 1 .. Len(mounts') : mounts'[i] = IF i < n THEN mounts[i] ELSE mounts[i + 1]
    <3>1. mounts' = SubSeq(mounts, 1, n - 1) \o SubSeq(mounts, n + 1, Len(mounts))
      BY <1>1, <1>14
    <3>2. /\ mounts' \in Seq(EntryType) /\ Len(mounts') = Len(mounts) - 1
          /\ \A i \in 1 .. Len(mounts') : mounts'[i] = IF i < n THEN mounts[i] ELSE mounts[i + 1]
      BY <1>6, <2>1, <3>1, Unmounted
    <3> QED BY <3>2
  <2> DEFINE k(i) == IF i < n THEN i ELSE i + 1
  <2>3. \A i \in DOMAIN mounts' : /\ k(i) \in DOMAIN mounts /\ k(i) # n /\ mounts'[i] = mounts[k(i)]
                                  /\ i \in Int
    BY <1>12, <2>1, <2>2
  <2>4. \A i, j \in DOMAIN mounts' : (i < j => k(i) < k(j)) /\ (k(i) = k(j) => i = j)
    BY <1>12, <2>1, <2>2
  <2>5. \A j \in DOMAIN mounts : j # n => \E i \in DOMAIN mounts' : k(i) = j
    <3> SUFFICES ASSUME NEW j \in DOMAIN mounts, j # n PROVE \E i \in DOMAIN mounts' : k(i) = j
      OBVIOUS
    <3>1. CASE j < n
      <4>1. j \in DOMAIN mounts' /\ k(j) = j
        BY <1>12, <2>1, <2>2, <3>1
      <4> QED BY <4>1
    <3>2. CASE j > n
      <4>1. j - 1 \in DOMAIN mounts' /\ k(j - 1) = j
        BY <1>12, <2>1, <2>2, <3>2
      <4> QED BY <4>1
    <3> QED BY <1>12, <2>1, <3>1, <3>2
  <2> HIDE DEF k
  <2>6. Once'
    BY <1>11, <2>3, <2>4 DEF Once
  <2>7. \A j \in DOMAIN mounts : mounts[j].mp = m => j = n
    <3>1. \A j \in DOMAIN mounts : mounts[j] \in Mounts
      BY DEF Mounts
    <3> QED BY <1>9, <1>11, <2>1, <3>1 DEF Once
  <2>8. Mounts' = {e \in Mounts : e.mp # m}
    <3>1. ASSUME NEW e \in Mounts' PROVE e \in Mounts /\ e.mp # m
      <4>1. PICK i \in DOMAIN mounts' : e = mounts'[i]
        BY DEF Mounts
      <4>2. k(i) \in DOMAIN mounts /\ e = mounts[k(i)] /\ k(i) # n
        BY <2>3, <4>1
      <4> QED BY <2>7, <4>2 DEF Mounts
    <3>2. ASSUME NEW e \in Mounts, e.mp # m PROVE e \in Mounts'
      <4>1. PICK j \in DOMAIN mounts : e = mounts[j]
        BY DEF Mounts
      <4>2. PICK i \in DOMAIN mounts' : k(i) = j
        BY <2>1, <2>5, <3>2, <4>1
      <4> QED BY <2>3, <4>1, <4>2 DEF Mounts
    <3> QED BY <3>1, <3>2
  <2>9. \A i, j \in DOMAIN mounts' : i < j =>
           \E x, y \in DOMAIN mounts : x < y /\ mounts'[i] = mounts[x] /\ mounts'[j] = mounts[y]
    BY <2>3, <2>4
  <2> QED BY <1>3, <1>4, <2>6, <2>8, <2>9
<1> QED BY <1>13, <1>14

\* What the device graph of the system knows after a mount point was (de)activated.
LEMMA ActivatedInSystem ==
  ASSUME SystemProbed, Current, NEW m \in MountPoint, NEW active \in BOOLEAN, SetActiveInSystem(m, active),
         UNCHANGED probed,
         \A x \in MountPoint : (\E e \in Mounts' : e.mp = x)
                                 <=> IF x = m THEN active ELSE \E e \in Mounts : e.mp = x
  PROVE  SystemProbed' /\ Current'
<1>1. system' = IF m \in DOMAIN system THEN [system EXCEPT ![m].active = active] ELSE system
  BY DEF SetActiveInSystem
<1>2. /\ DOMAIN system = DOMAIN probed
      /\ \A x \in In(MountPoint, probed) : /\ DOMAIN system[x] = Fields
                                           /\ system[x].parents = probed[x].parents
                                           /\ system[x].name = probed[x].name
  BY DEF SystemProbed
<1>3. DOMAIN system' = DOMAIN system
  BY <1>1
<1>4. ASSUME NEW x \in In(MountPoint, probed)
      PROVE  /\ DOMAIN system'[x] = Fields
             /\ system'[x].parents = system[x].parents /\ system'[x].name = system[x].name
             /\ system'[x].active = IF x = m THEN active ELSE system[x].active
  <2>1. x \in DOMAIN system /\ DOMAIN system[x] = Fields
    BY <1>2 DEF In
  <2>2. CASE x = m
    BY <1>1, <2>1, <2>2 DEF Fields
  <2>3. CASE x # m
    BY <1>1, <2>1, <2>3
  <2> QED BY <2>2, <2>3
<1>5. SystemProbed'
  BY <1>2, <1>3, <1>4 DEF SystemProbed
<1>6. ASSUME NEW x \in In(MountPoint, system')
      PROVE  system'[x].active <=> \E e \in Mounts' : e.mp = x
  <2>1. x \in In(MountPoint, probed) /\ x \in In(MountPoint, system) /\ x \in MountPoint
    BY <1>2, <1>3 DEF In
  <2>2. system[x].active <=> \E e \in Mounts : e.mp = x
    BY <2>1 DEF Current
  <2> QED BY <1>4, <2>1, <2>2
<1>7. Current'
  BY <1>6 DEF Current
<1> QED BY <1>5, <1>7

\* Unmounting: nothing of the mount point stays mounted.
LEMMA UnmountTraced ==
  ASSUME Frame, Rules, Traced, NEW a \in todo, CommitUnmount(a)
  PROVE  Traced'
<1> DEFINE m == a.sid
           A == Actions(probed, staging)
<1>1. /\ m \in In(MountPoint, probed) /\ Mounts' = {e \in Mounts : e.mp # m} /\ Once'
  BY UnmountExact
<1>2. /\ phase = "commit" /\ phase' = phase /\ UNCHANGED <<probed, staging, fstab>> /\ todo' \subseteq todo
      /\ SetActiveInSystem(m, FALSE)
  BY DEF CommitUnmount, Done, Ready
<1>4. Tracked /\ Paired /\ Current
  BY DEF Traced
<1>5. SystemProbed' /\ Current'
  <2>1. SystemProbed /\ m \in MountPoint
    BY <1>1, <1>2, <1>4 DEF Tracked, In
  <2>2. \A x \in MountPoint : (\E e \in Mounts' : e.mp = x) <=> IF x = m THEN FALSE ELSE \E e \in Mounts : e.mp = x
    BY <1>1
  <2> QED BY <1>2, <1>4, <2>1, <2>2, ActivatedInSystem
<1>6. Paired'
  BY <1>1, <1>2, <1>4 DEF Paired
<1>7. Tracked'
  <2>1. Calculated'
    BY <1>2, <1>4 DEF Tracked, Calculated
  <2>2. \A e \in Mounts' : OldEntry(probed, e) \/ NewEntry(staging, A \ todo', e)
    <3> HIDE DEF A
    <3> QED BY <1>1, <1>2, <1>4 DEF Tracked, NewEntry, A
  <2> QED BY <1>2, <1>4, <1>5, <2>1, <2>2 DEF Tracked
<1> QED BY <1>1, <1>5, <1>6, <1>7 DEF Traced

\* Mounting: only the mount point is mounted more, and that once.
LEMMA MountTraced ==
  ASSUME Frame, Rules, Traced, NEW a \in todo, CommitMount(a)
  PROVE  Traced'
<1> DEFINE m == a.sid
           A == Actions(probed, staging)
           new == Entry(staging, m)
<1>1. /\ phase = "commit" /\ phase' = phase /\ UNCHANGED <<probed, staging, fstab>> /\ todo' = todo \ {a}
      /\ a.op = "mount" /\ CanMount(m) /\ mounts' = Append(mounts, new) /\ SetActiveInSystem(m, TRUE)
  BY DEF CommitMount, Done, Ready
<1>2. Tracked /\ Paired /\ Current /\ Once
  BY DEF Traced
<1>3. Mounting(probed, staging) /\ todo \in SUBSET A
  BY <1>1, CommitMounting
<1>4. a = Act("mount", m)
  BY <1>1, <1>3, MountActions
<1>5. m \in In(MountPoint, staging)
  BY <1>3, <1>4, MountActionsAre
<1>6. /\ new.mp = m /\ new.fs = Parent(staging, m) /\ new.path = staging[m].name
      /\ Over(probed, staging, m) = {new.fs}
      /\ new.fs \in Swap => new.path = SwapPath
  BY <1>3, <1>5, EntryOf
<1> HIDE DEF new, A
<1>7. mounts \in Seq(EntryType)
  BY DEF Frame, Entries
<1>8. /\ DOMAIN mounts = 1 .. Len(mounts) /\ Len(mounts) \in Nat
      /\ DOMAIN mounts' = 1 .. Len(mounts) + 1
      /\ \A i \in DOMAIN mounts : mounts'[i] = mounts[i]
      /\ mounts'[Len(mounts) + 1] = new
  BY <1>1, <1>7
<1>9. Mounts' = Mounts \cup {new}
  BY <1>8 DEF Mounts
<1>10. new \notin Mounts
  BY <1>1, <1>6 DEF CanMount, Mounts
<1>11. Once'
  <2>1. \A i \in DOMAIN mounts : mounts[i] # new
    BY <1>10 DEF Mounts
  <2> QED BY <1>2, <1>8, <2>1 DEF Once
<1>13. SystemProbed' /\ Current'
  <2>1. SystemProbed /\ m \in MountPoint
    BY <1>1, <1>2, <1>5 DEF Tracked, In
  <2>2. \A x \in MountPoint : (\E e \in Mounts' : e.mp = x) <=> IF x = m THEN TRUE ELSE \E e \in Mounts : e.mp = x
    BY <1>6, <1>9
  <2> QED BY <1>1, <1>2, <2>1, <2>2, ActivatedInSystem
<1>14. \A e \in Mounts \cup fstab : Over(probed, staging, e.mp) = {e.fs}
  <2>1. ASSUME NEW e \in Mounts PROVE Over(probed, staging, e.mp) = {e.fs}
    <3>1. PICK g \in {probed, staging} : e.mp \in In(MountPoint, g) /\ e = Entry(g, e.mp)
      BY <1>1, <1>2 DEF Tracked, OldEntry, NewEntry
    <3> QED BY <1>3, <3>1, EntryOf
  <2> QED BY <1>1, <1>2, <2>1 DEF Tracked
<1>15. Paired'
  <2>1. \A e \in Mounts \cup fstab : e.mp = m => e.fs = new.fs
    BY <1>6, <1>14
  <2> QED BY <1>1, <1>2, <1>6, <1>9, <2>1 DEF Paired
<1>16. Tracked'
  <2>1. Calculated'
    BY <1>1, <1>2 DEF Tracked, Calculated
  <2>2. a \in A \ todo'
    BY <1>1, <1>3
  <2>3. NewEntry(staging, A \ todo', new)
    BY <1>4, <1>5, <1>6, <2>2 DEF NewEntry, new
  <2>4. \A e \in Mounts' : OldEntry(probed, e) \/ NewEntry(staging, A \ todo', e)
    BY <1>1, <1>2, <1>9, <2>3 DEF Tracked, NewEntry, A
  <2> QED BY <1>1, <1>2, <1>13, <2>1, <2>4 DEF Tracked, A
<1> QED BY <1>11, <1>13, <1>15, <1>16 DEF Traced

\* The entries that are written are of the filesystems the mount points are on.
LEMMA FstabTraced ==
  ASSUME Frame, Rules, Traced, NEW a \in todo, CommitFstab(a)
  PROVE  Traced'
<1> DEFINE m == a.sid
           A == Actions(probed, staging)
           new == Entry(staging, m)
<1>1. /\ phase = "commit" /\ phase' = phase /\ UNCHANGED <<probed, staging, system, mounts>> /\ todo' \subseteq todo
      /\ a.op \in {"add_fstab", "update_fstab", "remove_fstab"}
      /\ \A e \in fstab' : e \in fstab \/ (e = new /\ a.op \in {"add_fstab", "update_fstab"})
  BY DEF CommitFstab, Done, Ready, Without
<1>2. Tracked /\ Paired /\ Current /\ Once
  BY DEF Traced
<1>3. Mounting(probed, staging) /\ todo \in SUBSET A
  BY <1>1, CommitMounting
<1>4. ASSUME a.op \in {"add_fstab", "update_fstab"}
      PROVE  /\ new.mp = m /\ Over(probed, staging, m) = {new.fs}
             /\ new.fs \in Swap => new.path = SwapPath
  <2>1. m \in In(MountPoint, staging)
    BY <1>3, <1>4, ActionFacts DEF In
  <2> QED BY <1>3, <2>1, EntryOf
<1> HIDE DEF new, A
<1>5. Mounts' = Mounts
  BY <1>1 DEF Mounts
<1>7. \A e \in Mounts \cup fstab : Over(probed, staging, e.mp) = {e.fs}
  <2>1. ASSUME NEW e \in Mounts PROVE Over(probed, staging, e.mp) = {e.fs}
    <3>1. PICK g \in {probed, staging} : e.mp \in In(MountPoint, g) /\ e = Entry(g, e.mp)
      BY <1>1, <1>2 DEF Tracked, OldEntry, NewEntry
    <3> QED BY <1>3, <3>1, EntryOf
  <2> QED BY <1>1, <1>2, <2>1 DEF Tracked
<1>8. \A e \in (Mounts \cup fstab)' : Over(probed, staging, e.mp) = {e.fs}
  BY <1>1, <1>4, <1>5, <1>7
<1>9. Paired'
  BY <1>8 DEF Paired
<1>10. Once' /\ Current'
  BY <1>1, <1>2, <1>5 DEF Once, Current
<1>11. Tracked'
  <2>1. Calculated' /\ SystemProbed'
    BY <1>1, <1>2 DEF Tracked, Calculated, SystemProbed
  <2>2. \A e \in Mounts' : OldEntry(probed, e) \/ NewEntry(staging, A \ todo', e)
    BY <1>1, <1>2, <1>5 DEF Tracked, NewEntry, A
  <2>3. \A e \in fstab' : Over(probed, staging, e.mp)' = {e.fs}
    BY <1>1, <1>8 DEF Over
  <2> QED BY <1>1, <2>1, <2>2, <2>3 DEF Tracked, A
<1> QED BY <1>9, <1>10, <1>11 DEF Traced

-----------------------------------------------------------------------------

\* Committing: what is mounted and written is of mount points of staging.
LEMMA CommitRules ==
  ASSUME Frame, Rules, CommitAction
  PROVE  Rules'
<1>1. PICK a \in todo : \/ CommitCreate(a) \/ CommitDelete(a)
                        \/ CommitActivate(a) \/ CommitDeactivate(a)
                        \/ CommitResize(a) \/ CommitReallot(a)
                        \/ CommitMount(a) \/ CommitUnmount(a)
                        \/ CommitFstab(a) \/ CommitCrypttab(a)
                        \/ Fail(a)
  BY DEF CommitAction
<1> DEFINE new == Entry(staging, a.sid)
<1>2. phase = "commit" /\ UNCHANGED <<probed, staging>>
  BY <1>1 DEF CommitCreate, CommitDelete, CommitActivate, CommitDeactivate, CommitResize, CommitReallot,
              CommitMount, CommitUnmount, CommitFstab, CommitCrypttab, Fail, Done, Ready
<1>3. Mounting(probed, staging) /\ todo \in SUBSET Actions(probed, staging)
  BY <1>2, CommitMounting
<1>4. a.op \in {"mount", "add_fstab", "update_fstab"} => (new.fs \in Swap => new.path = SwapPath)
  <2> SUFFICES ASSUME a.op \in {"mount", "add_fstab", "update_fstab"}
               PROVE  new.fs \in Swap => new.path = SwapPath
    OBVIOUS
  <2>1. a.sid \in In(MountPoint, staging)
    BY <1>3, ActionFacts DEF In
  <2> QED BY <1>3, <2>1, EntryOf
<1> HIDE DEF new
<1>5. CASE UNCHANGED <<mounts, fstab>>
  <2>1. (Mounts \cup fstab)' = Mounts \cup fstab
    BY <1>5 DEF Mounts
  <2> QED BY <1>2, <2>1, RulesStay
<1>6. CASE CommitMount(a)
  <2>1. a.op = "mount" /\ mounts' = Append(mounts, new) /\ fstab' = fstab
    BY <1>6 DEF CommitMount, new
  <2>2. mounts \in Seq(EntryType)
    BY DEF Frame, Entries
  <2>3. Mounts' \subseteq Mounts \cup {new}
    BY <2>1, <2>2 DEF Mounts
  <2> QED BY <1>2, <1>4, <2>1, <2>3, RulesStay
<1>7. CASE CommitUnmount(a)
  <2> DEFINE n == UnmountIndex(a.sid)
  <2>1. /\ mounts' = IF n = 0 THEN mounts ELSE SubSeq(mounts, 1, n - 1) \o SubSeq(mounts, n + 1, Len(mounts))
        /\ fstab' = fstab
    BY <1>7 DEF CommitUnmount
  <2>2. n # 0 => n \in DOMAIN mounts
    <3> DEFINE candidates == {i \in DOMAIN mounts : IF system[a.sid].name = SwapPath THEN mounts[i].mp = a.sid
                                                    ELSE mounts[i].path = system[a.sid].name}
               on(i) == \E j \in DOMAIN mounts : /\ j > i
                                                 /\ \/ Covers(system[a.sid].name, mounts[j].path)
                                                    \/ Covers(mounts[j].path, system[a.sid].name)
               free == {i \in candidates : ~ on(i)}
    <3>1. n = IF free = {} THEN 0 ELSE CHOOSE i \in free : TRUE
      BY DEF UnmountIndex
    <3>2. free \subseteq DOMAIN mounts
      OBVIOUS
    <3> HIDE DEF free
    <3> QED BY <3>1, <3>2
  <2> HIDE DEF n
  <2>3. mounts \in Seq(EntryType)
    BY DEF Frame, Entries
  <2>4. Mounts' \subseteq Mounts
    <3>1. CASE n = 0
      BY <2>1, <3>1 DEF Mounts
    <3>2. CASE n # 0
      <4>1. mounts' = SubSeq(mounts, 1, n - 1) \o SubSeq(mounts, n + 1, Len(mounts))
        BY <2>1, <3>2
      <4>2. /\ mounts' \in Seq(EntryType) /\ Len(mounts') = Len(mounts) - 1
            /\ \A i \in 1 .. Len(mounts') : mounts'[i] = IF i < n THEN mounts[i] ELSE mounts[i + 1]
        BY <2>2, <2>3, <3>2, <4>1, Unmounted
      <4>3. ASSUME NEW i \in DOMAIN mounts' PROVE \E j \in DOMAIN mounts : mounts'[i] = mounts[j]
        <5>1. i \in 1 .. Len(mounts) - 1 /\ DOMAIN mounts = 1 .. Len(mounts) /\ Len(mounts) \in Nat
          BY <2>3, <4>2
        <5>2. i \in DOMAIN mounts /\ i + 1 \in DOMAIN mounts /\ (mounts'[i] = mounts[i] \/ mounts'[i] = mounts[i + 1])
          BY <4>2, <5>1
        <5> QED BY <5>2
      <4> QED BY <4>3 DEF Mounts
    <3> QED BY <3>1, <3>2
  <2> QED BY <1>2, <2>1, <2>4, RulesStay
<1>8. CASE CommitFstab(a)
  <2>1. /\ mounts' = mounts
        /\ \A e \in fstab' : e \in fstab \/ (e = new /\ a.op \in {"add_fstab", "update_fstab"})
    BY <1>8 DEF CommitFstab, Without, new
  <2>2. Mounts' = Mounts
    BY <2>1 DEF Mounts
  <2> QED BY <1>2, <1>4, <2>1, <2>2, RulesStay
<1> QED BY <1>1, <1>5, <1>6, <1>7, <1>8
     DEF CommitCreate, CommitDelete, CommitActivate, CommitDeactivate, CommitResize, CommitReallot,
         CommitCrypttab, Fail

\* Committing goes on to be traced.
LEMMA CommitTraced ==
  ASSUME Frame, Rules, Traced, CommitAction
  PROVE  Traced'
<1>1. PICK a \in todo : \/ CommitCreate(a) \/ CommitDelete(a)
                        \/ CommitActivate(a) \/ CommitDeactivate(a)
                        \/ CommitResize(a) \/ CommitReallot(a)
                        \/ CommitMount(a) \/ CommitUnmount(a)
                        \/ CommitFstab(a) \/ CommitCrypttab(a)
                        \/ Fail(a)
  BY DEF CommitAction
<1>2. CASE CommitMount(a)
  BY <1>2, MountTraced
<1>3. CASE CommitUnmount(a)
  BY <1>3, UnmountTraced
<1>4. CASE CommitFstab(a)
  BY <1>4, FstabTraced
<1>5. CASE Done(a) /\ UNCHANGED <<system, mounts, fstab>>
  <2>1. /\ UNCHANGED <<probed, system, mounts, fstab>>
        /\ phase' = "commit" => phase = "commit" /\ staging' = staging /\ todo' \subseteq todo
    BY <1>5 DEF Done
  <2> QED BY <2>1, NothingMounted
<1>6. CASE Fail(a)
  <2>1. /\ UNCHANGED <<probed, system, mounts, fstab>>
        /\ phase' = "commit" => phase = "commit" /\ staging' = staging /\ todo' \subseteq todo
    BY <1>6 DEF Fail
  <2> QED BY <2>1, NothingMounted
<1> QED BY <1>1, <1>2, <1>3, <1>4, <1>5, <1>6
     DEF CommitCreate, CommitDelete, CommitActivate, CommitDeactivate, CommitResize, CommitReallot,
         CommitCrypttab

\* When the actions are calculated and Clear holds, what is mounted is what was probed.
LEMMA CalculateTraced ==
  ASSUME Frame, Rules, clear => Traced, CalculateActiongraph, clear'
  PROVE  Traced'
<1>1. /\ phase = "edit" /\ UNCHANGED <<probed, system, staging, world, mounts, fstab>>
      /\ clear /\ Clear(system, staging, Actions(system, staging))
  BY DEF CalculateActiongraph
<1>2. system = probed /\ Mounting(probed, staging)
  BY <1>1 DEF Frame, Editing, Graphs, Rules, Mounting
<1>3. Mounts' = Mounts
  BY <1>1 DEF Mounts
<1>4. Paired' /\ Once' /\ Current'
  BY <1>1, <1>3 DEF Traced, Paired, Once, Current
<1>5. Calculated'
  BY <1>1, <1>2 DEF Calculated, Clear
<1>6. SystemProbed'
  BY <1>1, <1>2, BlankFields DEF SystemProbed, Mounting, Shape, In
<1>7. /\ Mounts = {Entry(probed, m) : m \in {x \in In(MountPoint, probed) : probed[x].active}}
      /\ fstab = {Entry(probed, m) : m \in {x \in In(MountPoint, probed) : probed[x].listed}}
  BY <1>1, <1>2 DEF Clear, Known, Mounts
<1>8. \A e \in Mounts : OldEntry(probed, e)
  BY <1>7 DEF OldEntry, Entry
<1>9. ASSUME NEW e \in fstab PROVE Over(probed, staging, e.mp) = {e.fs}
  <2>1. PICK m \in In(MountPoint, probed) : e = Entry(probed, m)
    BY <1>7
  <2>2. e.mp = m /\ Over(probed, staging, m) = {e.fs}
    BY <1>2, <2>1, EntryOf
  <2> QED BY <2>2
<1>10. /\ \A e \in Mounts' : OldEntry(probed', e)
       /\ \A e \in fstab' : Over(probed, staging, e.mp)' = {e.fs}
  BY <1>1, <1>3, <1>8, <1>9 DEF Over
<1> QED BY <1>4, <1>5, <1>6, <1>10 DEF Traced, Tracked, OldEntry, NewEntry

\* Every filesystem that is found gets the one mount point that was selected.
LEMMA ProbedMountPoint ==
  ASSUME Frame, NEW m \in In(MountPoint, Probed)
  PROVE  \E e \in Selected : /\ e.mp = m /\ Probed[m].parents = {e.fs} /\ Probed[m].name = e.path
                             /\ Probed[m].active <=> e \in MountedOf(e.fs)
                             /\ e = SelectedEntry(e.fs)
                             /\ e \in (IF MountedOf(e.fs) # {} THEN MountedOf(e.fs) ELSE ListedOf(e.fs))
<1>1. m \in DOMAIN Probed \ Found
  BY WhatIsFound DEF In
<1>2. PICK e \in Selected : /\ e.mp = m /\ Probed[m].parents = {e.fs} /\ Probed[m].name = e.path
                            /\ Probed[m].active <=> e \in MountedOf(e.fs)
  BY <1>1, WhatIsProbed
<1>3. e = SelectedEntry(e.fs) /\ MountedOf(e.fs) \cup ListedOf(e.fs) # {}
  BY WhatIsProbed
<1>4. e \in (IF MountedOf(e.fs) # {} THEN MountedOf(e.fs) ELSE ListedOf(e.fs))
  BY <1>3, EntrySelected DEF Frame
<1> QED BY <1>2, <1>3, <1>4

\* Probing makes graphs with the rules for mount points.
LEMMA ProbeRules ==
  ASSUME Frame, Rules, Probe
  PROVE  Rules'
<1>1. /\ probed' = Probed /\ staging' = Probed
      /\ mounts' = mounts /\ fstab' \subseteq fstab
  BY DEF Probe
<1>2. Shape(Probed)
  BY ProbedShape
<1>3. ASSUME NEW f \in In(Filesystem, Probed), NEW m \in Children(Probed, f)
      PROVE  m = SelectedEntry(f).mp
  <2>1. m \in In(MountPoint, Probed) /\ f \in Probed[m].parents
    BY <1>2, OnlyMountPoints DEF In, Children
  <2>2. PICK e \in Selected : e.mp = m /\ Probed[m].parents = {e.fs} /\ e = SelectedEntry(e.fs)
    BY <2>1, ProbedMountPoint
  <2> QED BY <2>1, <2>2
<1>4. ASSUME NEW m \in In(MountPoint, Probed), Probed[m].parents \subseteq Swap
      PROVE  Probed[m].name = SwapPath
  <2>1. PICK e \in Selected : /\ Probed[m].parents = {e.fs} /\ Probed[m].name = e.path
                              /\ e \in (IF MountedOf(e.fs) # {} THEN MountedOf(e.fs) ELSE ListedOf(e.fs))
    BY ProbedMountPoint
  <2>2. e \in Mounts \cup fstab
    BY <2>1 DEF MountedOf, ListedOf, Mounts
  <2> QED BY <1>4, <2>1, <2>2 DEF Rules
<1>5. Mountables(Probed)
  <2>1. ASSUME NEW f \in In(Filesystem, Probed), NEW m \in Children(Probed, f), NEW n \in Children(Probed, f)
        PROVE  m = n
    BY <1>3
  <2> QED BY <1>4, <2>1 DEF Mountables
<1>6. Mounts' = Mounts
  BY <1>1 DEF Mounts
<1> QED BY <1>1, <1>5, <1>6 DEF Rules

\* Probing: the mount points are active that are mounted.
LEMMA ProbeTraced ==
  ASSUME Frame, Traced, Probe
  PROVE  Traced'
<1>1. /\ system' = Probed /\ phase' = "edit" /\ mounts' = mounts /\ fstab' \subseteq fstab
  BY DEF Probe
<1>2. Mounts' = Mounts
  BY <1>1 DEF Mounts
<1>3. Paired' /\ Once' /\ Tracked'
  BY <1>1, <1>2 DEF Traced, Paired, Once, Tracked
<1>4. ASSUME NEW m \in In(MountPoint, Probed)
      PROVE  Probed[m].active <=> \E x \in Mounts : x.mp = m
  <2>1. PICK e \in Selected : /\ e.mp = m
                              /\ Probed[m].active <=> e \in MountedOf(e.fs)
                              /\ e \in (IF MountedOf(e.fs) # {} THEN MountedOf(e.fs) ELSE ListedOf(e.fs))
    BY ProbedMountPoint
  <2>2. \A f : MountedOf(f) = {x \in Mounts : x.fs = f} /\ ListedOf(f) \subseteq fstab
    BY DEF MountedOf, Mounts, ListedOf
  <2>3. ASSUME NEW x \in Mounts, x.mp = m PROVE e \in MountedOf(e.fs)
    <3>1. e \in Mounts \cup fstab
      BY <2>1, <2>2
    <3>2. x.fs = e.fs
      BY <2>1, <2>3, <3>1 DEF Traced, Paired
    <3> QED BY <2>1, <2>2, <3>2
  <2> QED BY <2>1, <2>2, <2>3
<1>5. Current'
  BY <1>1, <1>2, <1>4 DEF Current
<1> QED BY <1>3, <1>5 DEF Traced

\* Every step keeps MountInv.
LEMMA MountStep ==
  ASSUME MountInv, [Next]_vars
  PROVE  MountInv'
<1>1. Frame /\ Rules /\ (clear => Traced) /\ Inv'
  BY Step DEF MountInv, Inv
<1> SUFFICES Rules' /\ (clear' => Traced')
  BY <1>1 DEF MountInv
<1>2. CASE EditStaging
  <2>1. phase = "edit" /\ UNCHANGED <<probed, system, mounts, fstab, phase, clear>>
    BY <1>2, EditEdited DEF Edited
  <2>2. Mountables(staging')
    BY <1>1, <1>2, <2>1, EditsMountable DEF Frame, Graphs, Editing, Rules
  <2>3. Mounts' = Mounts
    BY <2>1 DEF Mounts
  <2>4. Rules'
    BY <1>1, <2>1, <2>2, <2>3 DEF Rules
  <2> QED BY <1>1, <2>1, <2>4, NothingMounted
<1>3. CASE CalculateActiongraph
  <2>1. UNCHANGED <<probed, staging, mounts, fstab>>
    BY <1>3 DEF CalculateActiongraph
  <2>2. Rules'
    BY <1>1, <2>1 DEF Rules, Mounts
  <2> QED BY <1>1, <1>3, <2>2, CalculateTraced
<1>4. CASE CommitAction
  <2>1. clear' = clear
    BY <1>4 DEF CommitAction, CommitCreate, CommitDelete, CommitActivate, CommitDeactivate, CommitResize,
                CommitReallot, CommitMount, CommitUnmount, CommitFstab, CommitCrypttab, Fail, Done
  <2> QED BY <1>1, <1>4, <2>1, CommitRules, CommitTraced
<1>5. CASE EndCommit
  <2>1. UNCHANGED <<probed, system, staging, mounts, fstab, clear>> /\ phase' = "done"
    BY <1>5 DEF EndCommit
  <2>2. Rules'
    BY <1>1, <2>1 DEF Rules, Mounts
  <2> QED BY <1>1, <2>1, <2>2, NothingMounted
<1>6. CASE Probe
  <2>1. clear' = clear
    BY <1>6 DEF Probe
  <2> QED BY <1>1, <1>6, <2>1, ProbeRules, ProbeTraced
<1>7. CASE UNCHANGED vars
  <2>1. UNCHANGED <<probed, system, staging, mounts, fstab, clear, phase, todo>>
    BY <1>7 DEF vars
  <2>2. Rules'
    BY <1>1, <2>1 DEF Rules, Mounts
  <2> QED BY <1>1, <2>1, <2>2, NothingMounted
<1> QED BY <1>2, <1>3, <1>4, <1>5, <1>6, <1>7 DEF Next

\* What is mounted is traced back to the graphs whenever commits can be relied on.
LEMMA MountInvariance == Spec => []MountInv
<1>1. Init => MountInv
  BY InitSound, InitMounts DEF MountInv
<1>2. MountInv /\ [Next]_vars => MountInv'
  BY MountStep
<1> QED BY <1>1, <1>2, PTL DEF Spec

\* The device graph of the system, from which the library reads whether it has to
\* mount or unmount, knows what is mounted at every point of every commit, also
\* after failures, aborted commits and when the system is probed again.
THEOREM SystemStaysCurrent == Spec => []SystemCurrent
<1>1. MountInv => SystemCurrent
  BY DEF MountInv, Traced, Current, SystemCurrent, Mounts
<1> QED BY <1>1, MountInvariance, PTL

-----------------------------------------------------------------------------
(* Mounts that hide others.                                                *)

\* Of two directories above a third one, one is above the other one or the same.
LEMMA BothAbove ==
  ASSUME NEW p \in Seq(STRING), NEW r \in Seq(STRING), NEW q \in Seq(STRING),
         Above(p, q), Above(r, q), Len(p) <= Len(r)
  PROVE  p = r \/ Above(p, r)
<1>1. /\ Len(p) \in Nat /\ Len(r) \in Nat /\ Len(q) \in Nat
      /\ Len(p) < Len(q) /\ Len(r) < Len(q)
      /\ p = SubSeq(q, 1, Len(p)) /\ r = SubSeq(q, 1, Len(r))
  BY LenProperties DEF Above
<1>2. \A i \in 1 .. Len(p) : p[i] = q[i]
  BY <1>1
<1>3. \A i \in 1 .. Len(r) : r[i] = q[i]
  BY <1>1
<1>4. \A i \in 1 .. Len(p) : i \in 1 .. Len(r) /\ p[i] = r[i]
  BY <1>1, <1>2, <1>3
<1>5. CASE Len(p) = Len(r)
  BY <1>1, <1>4, <1>5, SeqEqual
<1>6. CASE Len(p) < Len(r)
  <2> DEFINE s == SubSeq(r, 1, Len(p))
  <2>1. s \in Seq(STRING) /\ Len(s) = Len(p) /\ \A i \in 1 .. Len(s) : s[i] = r[i]
    BY <1>1, <1>6
  <2> HIDE DEF s
  <2>2. p = s
    BY <1>4, <2>1, SeqEqual
  <2> QED BY <1>6, <2>2 DEF Above, s
<1>7. Len(p) = Len(r) \/ Len(p) < Len(r)
  <2>1. Len(p) \in Nat /\ Len(r) \in Nat
    BY LenProperties
  <2> QED BY <2>1
<1> QED BY <1>5, <1>6, <1>7

\* What is mounted has a path, and a filesystem that is no swap where it has not
\* the path of swaps.
LEMMA MountNames ==
  ASSUME NEW L, NEW R, Mounting(L, R), NEW m, Act("mount", m) \in Actions(L, R)
  PROVE  /\ m \in In(MountPoint, R) /\ R[m].active
         /\ R[m].name \in Seq(STRING) /\ Len(R[m].name) \in Nat
         /\ R[m].name # SwapPath => ~ Swaps(R, Act("mount", m))
<1>1. m \in In(MountPoint, R) /\ R[m].active
  BY MountActionsAre
<1>2. R[m].name \in Seq(STRING)
  BY <1>1, EntryOf
<1>3. Act("mount", m).sid = m
  BY DEF Act
<1>4. R[m].name # SwapPath => ~ Swaps(R, Act("mount", m))
  BY <1>1, <1>3 DEF Mounting, Mountables, Swaps
<1> QED BY <1>1, <1>2, <1>4, LenProperties

\* Below a directory that is mounted something else is mounted right after the one
\* that is closest above it.
LEMMA ClosestAbove ==
  ASSUME NEW L, NEW R, Mounting(L, R),
         NEW m, Act("mount", m) \in Actions(L, R), ~ Swaps(R, Act("mount", m)),
         NEW n, Act("mount", n) \in Actions(L, R), ~ Swaps(R, Act("mount", n)),
         Above(R[m].name, R[n].name)
  PROVE  \E x : /\ Act("mount", x) \in Actions(L, R) /\ ~ Swaps(R, Act("mount", x))
                /\ <<Act("mount", x), Act("mount", n)>> \in Order(L, R)
                /\ Above(R[x].name, R[n].name)
                /\ R[m].name = R[x].name \/ Above(R[m].name, R[x].name)
<1> DEFINE A == Actions(L, R)
           M == {a \in A : a.op = "mount" /\ ~ Swaps(R, a)}
           above(b) == {a \in M : Above(R[a.sid].name, R[b.sid].name)}
           closest(b) == {a \in above(b) : \A c \in above(b) : Len(R[c.sid].name) <= Len(R[a.sid].name)}
           b == Act("mount", n)
           len(a) == Len(R[a.sid].name)
           T == {len(b) - len(a) : a \in above(b)}
<1>1. ASSUME NEW x PROVE Act("mount", x).op = "mount" /\ Act("mount", x).sid = x
  BY DEF Act
<1>2. ASSUME NEW a \in M
      PROVE  /\ a = Act("mount", a.sid) /\ Act("mount", a.sid) \in A
             /\ R[a.sid].name \in Seq(STRING) /\ len(a) \in Nat
  <2>1. a = Act("mount", a.sid)
    BY MountActions
  <2> QED BY <2>1, MountNames
<1>3. b \in M /\ b.sid = n /\ Act("mount", m) \in above(b)
  BY <1>1
<1>4. T \in SUBSET Nat /\ T # {}
  <2>1. ASSUME NEW a \in above(b) PROVE len(b) - len(a) \in Nat
    <3>1. len(a) \in Nat /\ len(b) \in Nat /\ len(a) < len(b)
      BY <1>2, <1>3 DEF Above
    <3> QED BY <3>1
  <2> HIDE DEF above, len
  <2> QED BY <1>3, <2>1
<1>5. PICK t \in T : \A k \in T : t <= k
  <2> HIDE DEF T
  <2> QED BY <1>4, LeastNat
<1>6. PICK a \in above(b) : t = len(b) - len(a)
  BY <1>5
<1>7. a \in closest(b)
  <2>1. ASSUME NEW c \in above(b) PROVE len(c) <= len(a)
    <3>1. len(b) - len(a) <= len(b) - len(c)
      BY <1>5, <1>6
    <3>2. len(a) \in Nat /\ len(b) \in Nat /\ len(c) \in Nat
      BY <1>2, <1>3
    <3> HIDE DEF len
    <3> QED BY <3>1, <3>2
  <2> QED BY <2>1
<1>8. <<a, b>> \in Order(L, R)
  <2> DEFINE pairs(d) == {<<c, d>> : c \in closest(d)}
  <2>1. <<a, b>> \in pairs(b)
    BY <1>7
  <2>2. pairs(b) \in {pairs(d) : d \in M}
    BY <1>3
  <2>3. MountParents(M, R) = UNION {pairs(d) : d \in M}
    BY DEF MountParents
  <2> HIDE DEF pairs, M
  <2>4. <<a, b>> \in MountParents(M, R)
    BY <2>1, <2>2, <2>3
  <2> QED BY <2>4 DEF Order, Dependencies, MountDependencies, M
<1>9. a \in M /\ Above(R[a.sid].name, R[n].name) /\ len(Act("mount", m)) <= len(a)
  BY <1>3, <1>6, <1>7
<1>10. R[m].name = R[a.sid].name \/ Above(R[m].name, R[a.sid].name)
  <2>1. R[m].name \in Seq(STRING) /\ R[n].name \in Seq(STRING) /\ R[a.sid].name \in Seq(STRING)
    BY <1>2, <1>9, MountNames
  <2>2. Len(R[m].name) <= Len(R[a.sid].name)
    BY <1>1, <1>9
  <2> QED BY <1>9, <2>1, <2>2, BothAbove
<1>11. Act("mount", a.sid) \in A /\ ~ Swaps(R, Act("mount", a.sid)) /\ <<Act("mount", a.sid), b>> \in Order(L, R)
  BY <1>2, <1>8, <1>9
<1> HIDE DEF A, M, b
<1> QED BY <1>9, <1>10, <1>11 DEF A, b

\* What is below a directory that is to be mounted is mounted after it.
LEMMA MountedFirst ==
  ASSUME NEW L, NEW R, Mounting(L, R), Distinct(R), NEW T \in SUBSET Actions(L, R), Onward(L, R, T),
         NEW m, Act("mount", m) \in T, R[m].name # SwapPath,
         NEW n, Act("mount", n) \in Actions(L, R), R[n].name # SwapPath, Above(R[m].name, R[n].name)
  PROVE  Act("mount", n) \in T
<1> DEFINE A == Actions(L, R)
           below == {x \in {a.sid : a \in A} :
                       /\ Act("mount", x) \in A /\ ~ Swaps(R, Act("mount", x))
                       /\ Above(R[m].name, R[x].name) /\ Act("mount", x) \notin T}
           S == {Len(R[x].name) : x \in below}
<1> SUFFICES ASSUME Act("mount", n) \notin T PROVE FALSE
  OBVIOUS
<1>1. ASSUME NEW x PROVE Act("mount", x).sid = x
  BY DEF Act
<1>2. Act("mount", m) \in A /\ ~ Swaps(R, Act("mount", m)) /\ ~ Swaps(R, Act("mount", n))
  BY MountNames
<1>3. n \in below
  BY <1>1, <1>2
<1>4. \A x \in below : Len(R[x].name) \in Nat
  BY MountNames
<1> HIDE DEF A
<1>5. S \in SUBSET Nat /\ S # {}
  <2> HIDE DEF below
  <2> QED BY <1>3, <1>4
<1>6. PICK k \in S : \A l \in S : k <= l
  <2> HIDE DEF S
  <2> QED BY <1>5, LeastNat
<1>7. PICK y \in below : k = Len(R[y].name)
  BY <1>6
<1>8. PICK x : /\ Act("mount", x) \in A /\ ~ Swaps(R, Act("mount", x))
               /\ <<Act("mount", x), Act("mount", y)>> \in Order(L, R)
               /\ Above(R[x].name, R[y].name)
               /\ R[m].name = R[x].name \/ Above(R[m].name, R[x].name)
  BY <1>2, <1>7, ClosestAbove DEF A
<1>9. Act("mount", x) \in T
  <2>1. CASE R[m].name = R[x].name
    <3>1. m \in In(MountPoint, R) /\ R[m].active /\ x \in In(MountPoint, R) /\ R[x].active
      BY <1>2, <1>8, MountNames DEF A
    <3>2. m = x
      BY <2>1, <3>1 DEF Distinct
    <3> QED BY <3>2
  <2>2. CASE Above(R[m].name, R[x].name)
    <3> SUFFICES ASSUME Act("mount", x) \notin T PROVE FALSE
      OBVIOUS
    <3>1. x \in below
      BY <1>1, <1>8, <2>2
    <3>2. k <= Len(R[x].name)
      BY <1>6, <3>1
    <3>3. Len(R[x].name) < Len(R[y].name)
      BY <1>8 DEF Above
    <3>4. Len(R[x].name) \in Nat /\ Len(R[y].name) \in Nat
      BY <1>4, <1>7, <3>1
    <3> QED BY <1>7, <3>2, <3>3, <3>4
  <2> QED BY <1>8, <2>1, <2>2
<1>10. Act("mount", y) \in T
  <2>1. Act("mount", y) \in Actions(L, R)
    BY <1>7 DEF A
  <2> QED BY <1>8, <1>9, <2>1 DEF Onward
<1> QED BY <1>7, <1>10

\* Nothing is mounted over or above what was mounted before it.
Ascending == \A i, j \in DOMAIN mounts : i < j => ~ Covers(mounts[j].path, mounts[i].path)

\* What is mounted as it was probed is not unmounted at all, or not yet.
Pending == phase = "commit" => \A e \in Mounts :
  \/ /\ OldEntry(probed, e)
     /\ Act("unmount", e.mp) \in Actions(probed, staging) => Act("unmount", e.mp) \in todo
  \/ NewEntry(staging, Actions(probed, staging) \ todo, e)

PendInv == MountInv /\ (Undisturbed => Pending)

HideInv == PendInv /\ (Undisturbed => Ascending)

\* What is mounted next covers nothing that is mounted.
LEMMA NothingCovered ==
  ASSUME Frame, Rules, Traced, Pending, NEW a \in todo, CommitMount(a), NEW e \in Mounts
  PROVE  ~ Covers(staging[a.sid].name, e.path)
<1> DEFINE A == Actions(probed, staging)
           m == a.sid
           n == e.mp
           p == staging[m].name
           q == e.path
<1> SUFFICES ASSUME Covers(p, q) PROVE FALSE
  OBVIOUS
<1>1. phase = "commit" /\ a.op = "mount" /\ a \in Ready
  BY DEF CommitMount, Done, Ready
<1>2. Mounting(probed, staging) /\ todo \in SUBSET A /\ Onward(probed, staging, todo) /\ deps = Order(probed, staging)
  BY <1>1, CommitMounting
<1>3. a = Act("mount", m)
  BY <1>1, <1>2, MountActions
<1>4. Calculated
  BY <1>1 DEF Traced, Tracked
<1>5. p # SwapPath /\ q # SwapPath /\ (p = q \/ Above(p, q))
  BY DEF Covers
<1>6. m \in In(MountPoint, staging) /\ staging[m].active /\ p \in Seq(STRING) /\ Len(p) \in Nat
  BY <1>2, <1>3, MountNames
\* The action is the next one: it waits for nothing.
<1>7. ~ Awaits(probed, staging, todo, Act("mount", m))
  <2>1. \A d \in deps : d[2] = a => d[1] \notin todo
    BY <1>1 DEF Ready
  <2> QED BY <1>2, <1>3, <2>1 DEF Awaits
<1>8. CASE NewEntry(staging, A \ todo, e)
  <2>1. n \in In(MountPoint, staging) /\ Act("mount", n) \in A /\ Act("mount", n) \notin todo /\ staging[n].name = q
    BY <1>8 DEF NewEntry, Entry
  <2>2. CASE p = q
    <3>1. staging[n].active
      BY <1>2, <2>1, MountNames
    <3>2. m = n
      BY <1>4, <1>5, <1>6, <2>1, <2>2, <3>1 DEF Calculated, Distinct
    <3> QED BY <1>3, <2>1, <3>2
  <2>3. CASE Above(p, q)
    <3>1. Distinct(staging) /\ Act("mount", m) \in todo
      BY <1>3, <1>4 DEF Calculated
    <3> QED BY <1>2, <1>5, <2>1, <2>3, <3>1, MountedFirst
  <2> QED BY <1>5, <2>2, <2>3
<1>9. CASE /\ OldEntry(probed, e)
           /\ Act("unmount", n) \in A => Act("unmount", n) \in todo
  <2>1. n \in In(MountPoint, probed) /\ probed[n].active /\ probed[n].name = q
    BY <1>9 DEF OldEntry, Entry
  <2>2. CASE Act("unmount", n) \in todo
    <3>1. n # m /\ On(probed, n) # On(staging, m)
      BY <1>2, <1>3, <1>7, <2>2, UnmountedFirst
    <3>2. Above(q, p)
      <4>1. /\ Act("unmount", n) \in {x \in A : x.op = "unmount"}
            /\ Act("mount", m) \in {x \in A : x.op = "mount"}
        BY <1>1, <1>2, <1>3, <2>2 DEF Act
      <4>2. Act("unmount", n).sid = n /\ Act("mount", m).sid = m
        BY DEF Act
      <4>3. PathsClear(probed, staging, A)
        BY <1>4 DEF Calculated
      <4> HIDE DEF A
      <4> QED BY <2>1, <3>1, <4>1, <4>2, <4>3 DEF PathsClear
    <3>3. Len(q) \in Nat
      BY <1>2, <2>1, EntryOf, LenProperties
    <3> QED BY <1>5, <1>6, <3>2, <3>3 DEF Above
  <2>3. CASE Act("unmount", n) \notin A
    <3>1. /\ n \in In(MountPoint, staging) /\ staging[n].active /\ staging[n].name = q
          /\ Act("mount", n) \notin A
      <4>1. n \in MountPoint /\ n \in DOMAIN probed
        BY <2>1 DEF In
      <4>2. n \in DOMAIN staging
        BY <1>2, <2>1, <2>3, MountActionsAre
      <4>3. staging[n].active /\ ~ Moved(probed, staging, n)
        BY <1>2, <2>1, <2>3, <4>1, <4>2, MountActionsAre
      <4>4. Act("mount", n) \notin A
        BY <1>2, <2>1, <2>3, <4>1, <4>2, <4>3, MountActionsAre
      <4> QED BY <2>1, <4>1, <4>2, <4>3, <4>4 DEF Moved, In
    <3>2. a \in {x \in A : x.op = "mount"}
      BY <1>1, <1>2
    <3>3. NestedClear(probed, staging, A)
      BY <1>4 DEF Calculated
    <3> HIDE DEF A
    <3> QED BY <3>1, <3>2, <3>3 DEF NestedClear
  <2> QED BY <1>9, <2>2, <2>3
<1> QED BY <1>1, <1>8, <1>9 DEF Pending

\* What is done of the actions is what is mounted anew, or no longer.
LEMMA CommitPending ==
  ASSUME Frame, Rules, Traced, Pending, ignored \in Nat, CommitAction, Undisturbed'
  PROVE  Pending'
<1> DEFINE A == Actions(probed, staging)
<1>1. PICK a \in todo : \/ CommitCreate(a) \/ CommitDelete(a)
                        \/ CommitActivate(a) \/ CommitDeactivate(a)
                        \/ CommitResize(a) \/ CommitReallot(a)
                        \/ CommitMount(a) \/ CommitUnmount(a)
                        \/ CommitFstab(a) \/ CommitCrypttab(a)
                        \/ Fail(a)
  BY DEF CommitAction
\* What is not done stays to be done.
<1>2. ASSUME Done(a)
      PROVE  /\ phase = "commit" /\ UNCHANGED <<phase, probed, staging>> /\ todo' = todo \ {a}
             /\ \A b \in todo : b # a => b \in todo'
  BY <1>2 DEF Done, Ready
<1> HIDE DEF A
<1>3. ASSUME Done(a), NEW e \in Mounts, Act("unmount", e.mp) # a,
             \/ OldEntry(probed, e) /\ (Act("unmount", e.mp) \in A => Act("unmount", e.mp) \in todo)
             \/ NewEntry(staging, A \ todo, e)
      PROVE  \/ OldEntry(probed, e) /\ (Act("unmount", e.mp) \in A => Act("unmount", e.mp) \in todo')
             \/ NewEntry(staging, A \ todo', e)
  BY <1>2, <1>3 DEF NewEntry
<1>4. CASE Done(a) /\ mounts' = mounts /\ a.op # "unmount"
  <2>1. Mounts' = Mounts
    BY <1>4 DEF Mounts
  <2>2. \A n : Act("unmount", n) # a
    BY <1>4 DEF Act
  <2> QED BY <1>2, <1>3, <1>4, <2>1, <2>2 DEF Pending, OldEntry, A
<1>5. CASE CommitMount(a)
  <2> DEFINE new == Entry(staging, a.sid)
  <2>1. Done(a) /\ a.op = "mount" /\ mounts' = Append(mounts, new)
    BY <1>5 DEF CommitMount
  <2>2. phase = "commit" /\ Mounting(probed, staging) /\ todo \in SUBSET A
    BY <1>2, <2>1, CommitMounting DEF A
  <2>3. a = Act("mount", a.sid) /\ a.sid \in In(MountPoint, staging)
    BY <2>1, <2>2, MountActions, MountActionsAre DEF A
  <2>4. new.mp = a.sid
    BY DEF Entry
  <2>5. mounts \in Seq(EntryType)
    BY DEF Frame, Entries
  <2> HIDE DEF new
  <2>6. Mounts' = Mounts \cup {new}
    BY <2>1, <2>5 DEF Mounts
  <2>7. \A n : Act("unmount", n) # a
    BY <2>1 DEF Act
  <2>8. NewEntry(staging, A \ todo', new)
    BY <1>2, <2>1, <2>2, <2>3, <2>4 DEF NewEntry, new
  <2> QED BY <1>2, <1>3, <2>1, <2>6, <2>7, <2>8 DEF Pending, OldEntry, A
<1>6. CASE CommitUnmount(a)
  <2>1. Mounts' = {e \in Mounts : e.mp # a.sid}
    BY <1>6, UnmountExact
  <2>2. Done(a)
    BY <1>6 DEF CommitUnmount
  <2>3. \A n : n # a.sid => Act("unmount", n) # a
    BY DEF Act
  <2> QED BY <1>2, <1>3, <2>1, <2>2, <2>3 DEF Pending, OldEntry, A
<1>7. CASE Fail(a)
  <2>1. phase' = "aborted"
    BY <1>7 DEF Fail, Undisturbed
  <2> QED BY <2>1 DEF Pending
<1> QED BY <1>1, <1>4, <1>5, <1>6, <1>7
     DEF CommitCreate, CommitDelete, CommitActivate, CommitDeactivate, CommitResize, CommitReallot,
         CommitFstab, CommitCrypttab, is_resize

\* Every step keeps PendInv.
LEMMA PendStep ==
  ASSUME PendInv, [Next]_vars
  PROVE  PendInv'
<1>1. MountInv' /\ Frame /\ Rules /\ ignored \in Nat
  BY MountStep DEF PendInv, MountInv, Inv
<1> SUFFICES ASSUME Undisturbed' PROVE Pending'
  BY <1>1 DEF PendInv
<1>2. Undisturbed
  BY <1>1, CountersStep
<1>3. Pending /\ Traced
  BY <1>2 DEF PendInv, MountInv, Undisturbed
<1>4. CASE EditStaging
  <2>1. phase' = "edit"
    BY <1>4, EditEdited DEF Edited
  <2> QED BY <2>1 DEF Pending
<1>5. CASE CalculateActiongraph
  <2>1. /\ phase = "edit" /\ UNCHANGED <<probed, staging, mounts>> /\ todo' = Actions(system, staging)
        /\ clear /\ Clear(system, staging, Actions(system, staging))
    BY <1>5 DEF CalculateActiongraph, Undisturbed
  <2>2. system = probed
    BY <1>1, <2>1 DEF Frame, Editing
  <2>3. Mounts' = Mounts /\ \A e \in Mounts : OldEntry(probed, e)
    BY <2>1, <2>2 DEF Clear, Known, Mounts, OldEntry, Entry
  <2> QED BY <2>1, <2>2, <2>3 DEF Pending, OldEntry, Entry
<1>6. CASE CommitAction
  BY <1>1, <1>3, <1>6, CommitPending
<1>7. CASE EndCommit \/ Probe
  <2>1. phase' \in {"done", "edit"}
    BY <1>7 DEF EndCommit, Probe
  <2> QED BY <2>1 DEF Pending
<1>8. CASE UNCHANGED vars
  <2>1. UNCHANGED <<probed, staging, mounts, phase, todo>>
    BY <1>8 DEF vars
  <2> QED BY <1>3, <2>1 DEF Pending, Mounts, OldEntry, NewEntry, Entry
<1> QED BY <1>4, <1>5, <1>6, <1>7, <1>8 DEF Next

\* The next step of a commit leaves what was mounted before it uncovered.
LEMMA CommitAscending ==
  ASSUME Frame, Rules, Traced, Ascending, Pending, CommitAction
  PROVE  Ascending'
<1>1. PICK a \in todo : \/ CommitCreate(a) \/ CommitDelete(a)
                        \/ CommitActivate(a) \/ CommitDeactivate(a)
                        \/ CommitResize(a) \/ CommitReallot(a)
                        \/ CommitMount(a) \/ CommitUnmount(a)
                        \/ CommitFstab(a) \/ CommitCrypttab(a)
                        \/ Fail(a)
  BY DEF CommitAction
<1>2. CASE mounts' = mounts
  BY <1>2 DEF Ascending
<1>3. CASE CommitMount(a)
  <2> DEFINE new == Entry(staging, a.sid)
  <2>1. mounts' = Append(mounts, new)
    BY <1>3 DEF CommitMount
  <2>2. new.path = staging[a.sid].name
    BY DEF Entry
  <2>3. mounts \in Seq(EntryType)
    BY DEF Frame, Entries
  <2> HIDE DEF new
  <2>4. /\ DOMAIN mounts = 1 .. Len(mounts) /\ Len(mounts) \in Nat
        /\ DOMAIN mounts' = 1 .. Len(mounts) + 1
        /\ \A i \in DOMAIN mounts : mounts'[i] = mounts[i]
        /\ mounts'[Len(mounts) + 1] = new
    BY <2>1, <2>3
  <2> SUFFICES ASSUME NEW i \in DOMAIN mounts', NEW j \in DOMAIN mounts', i < j
               PROVE  ~ Covers(mounts'[j].path, mounts'[i].path)
    BY DEF Ascending
  <2>5. i \in DOMAIN mounts
    BY <2>4
  <2>6. CASE j \in DOMAIN mounts
    BY <2>4, <2>5, <2>6 DEF Ascending
  <2>7. CASE j = Len(mounts) + 1
    <3>1. mounts[i] \in Mounts
      BY <2>5 DEF Mounts
    <3>2. ~ Covers(staging[a.sid].name, mounts[i].path)
      BY <1>3, <3>1, NothingCovered
    <3> QED BY <2>2, <2>4, <2>5, <2>7, <3>2
  <2> QED BY <2>4, <2>6, <2>7
<1>4. CASE CommitUnmount(a)
  <2>1. \A i, j \in DOMAIN mounts' : i < j =>
           \E k, l \in DOMAIN mounts : k < l /\ mounts'[i] = mounts[k] /\ mounts'[j] = mounts[l]
    BY <1>4, UnmountExact
  <2> QED BY <2>1 DEF Ascending
<1> QED BY <1>1, <1>2, <1>3, <1>4
     DEF CommitCreate, CommitDelete, CommitActivate, CommitDeactivate, CommitResize, CommitReallot,
         CommitFstab, CommitCrypttab, Fail

\* The first probing: what is above is mounted first.
LEMMA InitUnhidden ==
  ASSUME Init, \A g \in Probes : Distinct(g)
  PROVE  Ascending
<1>1. Shape(probed) /\ Mountables(probed) /\ Distinct(probed) /\ phase = "edit"
  BY ProbesAssumption DEF Init
<1> DEFINE S == {m \in In(MountPoint, probed) : probed[m].active}
           N == 1 .. Cardinality(S)
<1>2. /\ mounts \in [N -> {Entry(probed, m) : m \in S}]
      /\ \A i, j \in DOMAIN mounts : i < j => Len(mounts[i].path) <= Len(mounts[j].path)
  BY DEF Init, Nested
<1>3. Once
  BY InitMounts DEF Traced
<1>4. \A i \in DOMAIN mounts : \E m \in S : mounts[i] = Entry(probed, m)
  <2> HIDE DEF S, N
  <2> QED BY <1>2
<1>5. ASSUME NEW m \in S
      PROVE  /\ Entry(probed, m).path = probed[m].name /\ probed[m].name \in Seq(STRING)
             /\ m \in In(MountPoint, probed) /\ probed[m].active
  <2>1. m \in MountPoint \cap DOMAIN probed
    BY DEF In
  <2> QED BY <1>1, <2>1, OnFilesystem DEF Entry
<1> HIDE DEF S
<1>6. Ascending
  <2> SUFFICES ASSUME NEW i \in DOMAIN mounts, NEW j \in DOMAIN mounts, i < j,
                      Covers(mounts[j].path, mounts[i].path)
               PROVE  FALSE
    BY DEF Ascending
  <2>1. PICK m \in S : mounts[i] = Entry(probed, m)
    BY <1>4
  <2>2. PICK n \in S : mounts[j] = Entry(probed, n)
    BY <1>4
  <2>3. CASE mounts[i].path = mounts[j].path
    <3>1. probed[m].name = probed[n].name /\ probed[m].name # SwapPath
      BY <1>5, <2>1, <2>2, <2>3 DEF Covers
    <3>2. m = n
      BY <1>1, <1>5, <3>1 DEF Distinct
    <3>3. i = j
      BY <1>3, <2>1, <2>2, <3>2 DEF Once
    <3>4. i \in Int /\ j \in Int
      BY <1>2
    <3> QED BY <3>3, <3>4
  <2>4. CASE Above(mounts[j].path, mounts[i].path)
    <3>1. Len(mounts[j].path) < Len(mounts[i].path) /\ Len(mounts[i].path) <= Len(mounts[j].path)
      BY <1>2, <2>4 DEF Above
    <3>2. Len(mounts[j].path) \in Nat /\ Len(mounts[i].path) \in Nat
      BY <1>5, <2>1, <2>2, LenProperties
    <3> QED BY <3>1, <3>2
  <2> QED BY <2>3, <2>4 DEF Covers
<1> QED BY <1>6

\* Every step keeps HideInv.
LEMMA HideStep ==
  ASSUME HideInv, [Next]_vars
  PROVE  HideInv'
<1>1. PendInv' /\ Frame /\ Rules /\ ignored \in Nat
  BY PendStep DEF HideInv, PendInv, MountInv, Inv
<1> SUFFICES ASSUME Undisturbed' PROVE Ascending'
  BY <1>1 DEF HideInv
<1>2. Undisturbed
  BY <1>1, CountersStep
<1>3. Ascending /\ Pending /\ Traced
  BY <1>2 DEF HideInv, PendInv, MountInv, Undisturbed
<1>4. CASE mounts' = mounts
  BY <1>3, <1>4 DEF Ascending
<1>5. CASE CommitAction
  BY <1>1, <1>3, <1>5, CommitAscending
<1>6. EditStaging => mounts' = mounts
  BY EditEdited DEF Edited
<1> QED BY <1>4, <1>5, <1>6 DEF Next, CalculateActiongraph, EndCommit, Probe, vars

\* Where the mount points of the system that is probed at first have paths of
\* their own, nothing that is mounted hides another mount at any point of any commit, in
\* whatever order the dependencies allow.
THEOREM NothingIsHidden ==
  ASSUME \A g \in Probes : Distinct(g)
  PROVE  Spec => []NothingHidden
<1>1. Init => HideInv
  BY InitSound, InitMounts, InitUnhidden DEF HideInv, PendInv, MountInv, Pending, Init
<1>2. HideInv /\ [Next]_vars => HideInv'
  BY HideStep
<1>3. HideInv => NothingHidden
  BY DEF HideInv, Ascending, NothingHidden
<1> QED BY <1>1, <1>2, <1>3, PTL DEF Spec

-----------------------------------------------------------------------------
(* The mounts and tables in the end.                                       *)

\* The entries of mount points that change are added, removed or updated.
LEMMA EntriesChanged ==
  ASSUME NEW L, NEW R, NEW m \in MountPoint
  PROVE  LET new == m \in DOMAIN R /\ R[m].listed
             old == m \in DOMAIN L /\ L[m].listed
         IN  /\ new /\ ~ old => Act("add_fstab", m) \in Actions(L, R)
             /\ old /\ ~ new => Act("remove_fstab", m) \in Actions(L, R)
             /\ old /\ new /\ Moved(L, R, m) => Act("update_fstab", m) \in Actions(L, R)
<1> DEFINE X == Acts(MountOps, {m})
           moved == L[m].name # R[m].name
           s1 == When(L[m].listed /\ ~ R[m].listed, "remove_fstab", m)
           s2 == When(L[m].active /\ (~ R[m].active \/ moved), "unmount", m)
           s3 == When(L[m].listed /\ R[m].listed /\ moved, "update_fstab", m)
           s4 == When(R[m].active /\ (~ L[m].active \/ moved), "mount", m)
           s5 == When(~ L[m].listed /\ R[m].listed, "add_fstab", m)
           t1 == When(R[m].active, "mount", m)
           t2 == When(R[m].listed, "add_fstab", m)
<1>1. \A op \in MountOps : Act(op, m) \in X
  BY InActs
<1> HIDE DEF X
<1>2. /\ s1 \in Seq(X) /\ s2 \in Seq(X) /\ s3 \in Seq(X) /\ s4 \in Seq(X) /\ s5 \in Seq(X)
      /\ t1 \in Seq(X) /\ t2 \in Seq(X)
  BY <1>1, Pieces DEF MountOps
<1>3. \A c, op : c => Act(op, m) \in Elements(When(c, op, m))
  BY DEF Elements, When
<1>4. ASSUME m \in DOMAIN R, m \notin DOMAIN L, R[m].listed PROVE Act("add_fstab", m) \in Actions(L, R)
  <2>1. CreateChain(R, m).actions = t1 \o t2
    BY ClassAssumption DEF CreateChain, Chain
  <2>2. Act("add_fstab", m) \in Elements(t2)
    BY <1>3, <1>4
  <2> HIDE DEF t1, t2
  <2>3. Act("add_fstab", m) \in Elements(t1 \o t2)
    BY <1>2, <2>2, JoinedOrder
  <2>4. CreateChain(R, m) \in Chains(L, R)
    BY <1>4 DEF Chains
  <2> QED BY <2>1, <2>3, <2>4, ChainOf
<1>5. ASSUME m \in DOMAIN L, m \notin DOMAIN R, L[m].listed PROVE Act("remove_fstab", m) \in Actions(L, R)
  BY <1>5, EntryRemoved
<1>6. ASSUME m \in DOMAIN L, m \in DOMAIN R
      PROVE  /\ L[m].listed /\ ~ R[m].listed => Act("remove_fstab", m) \in Actions(L, R)
             /\ L[m].listed /\ R[m].listed /\ moved => Act("update_fstab", m) \in Actions(L, R)
             /\ ~ L[m].listed /\ R[m].listed => Act("add_fstab", m) \in Actions(L, R)
  <2> DEFINE s == s1 \o s2 \o s3 \o s4 \o s5
  <2>1. MountPointChain(L, R, m).actions = s
    BY DEF MountPointChain, Chain
  <2>2. /\ L[m].listed /\ ~ R[m].listed => Act("remove_fstab", m) \in Elements(s1)
        /\ L[m].listed /\ R[m].listed /\ moved => Act("update_fstab", m) \in Elements(s3)
        /\ ~ L[m].listed /\ R[m].listed => Act("add_fstab", m) \in Elements(s5)
    BY <1>3
  <2> HIDE DEF s1, s2, s3, s4, s5
  <2>3. s1 \o s2 \in Seq(X) /\ s1 \o s2 \o s3 \in Seq(X) /\ s1 \o s2 \o s3 \o s4 \in Seq(X)
    BY <1>2, ConcatProperties
  <2>4. /\ Elements(s1) \subseteq Elements(s1 \o s2)
        /\ Elements(s1 \o s2) \subseteq Elements(s1 \o s2 \o s3)
        /\ Elements(s3) \subseteq Elements(s1 \o s2 \o s3)
        /\ Elements(s1 \o s2 \o s3) \subseteq Elements(s1 \o s2 \o s3 \o s4)
        /\ Elements(s1 \o s2 \o s3 \o s4) \subseteq Elements(s)
        /\ Elements(s5) \subseteq Elements(s)
    BY <1>2, <2>3, JoinedOrder
  <2> HIDE DEF s
  <2>5. /\ L[m].listed /\ ~ R[m].listed => Act("remove_fstab", m) \in Elements(s)
        /\ L[m].listed /\ R[m].listed /\ moved => Act("update_fstab", m) \in Elements(s)
        /\ ~ L[m].listed /\ R[m].listed => Act("add_fstab", m) \in Elements(s)
    BY <2>2, <2>4
  <2>6. MountPointChain(L, R, m) \in Chains(L, R)
    BY <1>6 DEF Chains
  <2> QED BY <2>1, <2>5, <2>6, ChainOf
<1> QED BY <1>4, <1>5, <1>6 DEF Moved

\* The crypttab actions of a LUKS that is new or deleted.
LEMMA ChainCrypttab ==
  ASSUME NEW g, NEW l \in Luks
  PROVE  /\ Act("add_crypttab", l) \in Elements(CreateChain(g, l).actions) <=> g[l].listed
         /\ Act("remove_crypttab", l) \in Elements(DeleteChain(g, l).actions) <=> g[l].listed
         /\ Act("remove_crypttab", l) \notin Elements(CreateChain(g, l).actions)
         /\ Act("add_crypttab", l) \notin Elements(DeleteChain(g, l).actions)
<1> DEFINE X == Acts({"create", "activate", "add_crypttab", "remove_crypttab", "deactivate", "delete"}, {l})
           add == Act("add_crypttab", l)
           remove == Act("remove_crypttab", l)
           s1 == <<Act("create", l), Act("activate", l)>>
           s2 == When(g[l].listed, "add_crypttab", l)
           t1 == When(g[l].listed, "remove_crypttab", l)
           t2 == When(g[l].active, "deactivate", l)
           t3 == <<Act("delete", l)>>
<1>1. CreateChain(g, l).actions = s1 \o s2 /\ DeleteChain(g, l).actions = t1 \o t2 \o t3
  BY ClassAssumption DEF CreateChain, DeleteChain, Chain
<1>2. \A op \in {"create", "activate", "add_crypttab", "remove_crypttab", "deactivate", "delete"} : Act(op, l) \in X
  BY InActs
<1> HIDE DEF X
<1>3. s1 \in Seq(X) /\ s2 \in Seq(X) /\ t1 \in Seq(X) /\ t2 \in Seq(X) /\ t3 \in Seq(X)
  BY <1>2, Pieces
<1>4. /\ Elements(s1) \subseteq {Act("create", l), Act("activate", l)}
      /\ Elements(s2) = IF g[l].listed THEN {add} ELSE {}
      /\ Elements(t1) = IF g[l].listed THEN {remove} ELSE {}
      /\ Elements(t2) \subseteq {Act("deactivate", l)}
      /\ Elements(t3) \subseteq {Act("delete", l)}
  BY DEF Elements, When
<1>5. /\ add # remove
      /\ \A op \in {"create", "activate", "deactivate", "delete"} : Act(op, l) # add /\ Act(op, l) # remove
  BY DEF Act
<1> HIDE DEF s1, s2, t1, t2, t3, add, remove
<1>6. t1 \o t2 \in Seq(X)
  BY <1>3, ConcatProperties
<1>7. /\ Elements(s2) \subseteq Elements(s1 \o s2)
      /\ Elements(t1) \subseteq Elements(t1 \o t2)
      /\ Elements(t1 \o t2) \subseteq Elements(t1 \o t2 \o t3)
  BY <1>3, <1>6, JoinedOrder
<1>8. /\ \A x \in Elements(s1 \o s2) : x \in Elements(s1) \cup Elements(s2)
      /\ \A x \in Elements(t1 \o t2 \o t3) : x \in Elements(t1 \o t2) \cup Elements(t3)
      /\ \A x \in Elements(t1 \o t2) : x \in Elements(t1) \cup Elements(t2)
  BY <1>3, <1>6, ElementsOf
<1>9. /\ add \in Elements(s1 \o s2) <=> g[l].listed
      /\ remove \in Elements(t1 \o t2 \o t3) <=> g[l].listed
      /\ remove \notin Elements(s1 \o s2)
      /\ add \notin Elements(t1 \o t2 \o t3)
  BY <1>4, <1>5, <1>7, <1>8
<1> QED BY <1>1, <1>9 DEF add, remove

\* Where a crypttab action comes from, and whose it is.
LEMMA CrypttabFrom ==
  ASSUME NEW L, NEW R, NEW a \in Actions(L, R), a.op \in {"add_crypttab", "remove_crypttab"}
  PROVE  LET l == a.sid
         IN  /\ l \in Luks /\ a = Act(a.op, l)
             /\ \/ l \in DOMAIN R \ DOMAIN L /\ a \in Elements(CreateChain(R, l).actions)
                \/ l \in DOMAIN L \ DOMAIN R /\ a \in Elements(DeleteChain(L, l).actions)
                \/ l \in DOMAIN L /\ l \in DOMAIN R /\ (IF a.op = "add_crypttab" THEN ~ L[l].listed /\ R[l].listed
                                                                                 ELSE L[l].listed /\ ~ R[l].listed)
<1> DEFINE l == a.sid
           Q == /\ l \in Luks /\ a = Act(a.op, l)
                /\ \/ l \in DOMAIN R \ DOMAIN L /\ a \in Elements(CreateChain(R, l).actions)
                   \/ l \in DOMAIN L \ DOMAIN R /\ a \in Elements(DeleteChain(L, l).actions)
                   \/ l \in DOMAIN L /\ l \in DOMAIN R /\ (IF a.op = "add_crypttab" THEN ~ L[l].listed /\ R[l].listed
                                                                                    ELSE L[l].listed /\ ~ R[l].listed)
<1>1. ASSUME NEW d \in DOMAIN R \ DOMAIN L, a \in Elements(CreateChain(R, d).actions) PROVE Q
  <2>1. a \in Acts(CreateOps(d), {d})
    BY <1>1, CreateChainActions, InChain
  <2>2. a.sid = d /\ a.op \in CreateOps(d) /\ a = Act(a.op, d)
    BY <2>1, InActs
  <2>3. d \notin MountPoint
    BY <2>2 DEF CreateOps
  <2>4. d \in Luks
    <3> SUFFICES ASSUME d \notin Luks PROVE FALSE
      OBVIOUS
    <3>1. CreateChain(R, d).actions = <<Act("create", d)>>
      BY <2>3 DEF CreateChain, Chain
    <3> QED BY <1>1, <3>1 DEF Elements, Act
  <2> QED BY <1>1, <2>2, <2>4
<1>2. ASSUME NEW d \in DOMAIN L \ DOMAIN R, a \in Elements(DeleteChain(L, d).actions) PROVE Q
  <2>1. a \in Acts(DeleteOps(d), {d})
    BY <1>2, DeleteChainActions, InChain
  <2>2. a.sid = d /\ a.op \in DeleteOps(d) /\ a = Act(a.op, d)
    BY <2>1, InActs
  <2>3. d \in Luks
    BY <2>2 DEF DeleteOps
  <2> QED BY <1>2, <2>2, <2>3
<1>3. ASSUME NEW d, a \in Elements(MountPointChain(L, R, d).actions) PROVE FALSE
  <2>1. a \in Acts(MountOps, {d})
    BY <1>3, MountPointChainActions, InChain
  <2> QED BY <2>1, InActs DEF MountOps
<1>4. ASSUME NEW b \in Resizing(L, R), a \in Elements(ResizeChain(L, R, b).actions) PROVE FALSE
  <2>1. b \in Device
    BY DEF Resizing, Device, Blk
  <2>2. a \in ResizeActs(L, R)
    BY <1>4, <2>1, ResizeChainActions, InChain
  <2> QED BY <2>2, InResizeActs
<1>5. ASSUME a \in Singles(L, R) PROVE Q
  <2>1. \/ \E x \in {y \in DOMAIN L \cap DOMAIN R \cap Luks : ~ L[y].listed /\ R[y].listed} : a = Act("add_crypttab", x)
        \/ \E x \in {y \in DOMAIN L \cap DOMAIN R \cap Luks : L[y].listed /\ ~ R[y].listed} : a = Act("remove_crypttab", x)
    BY <1>5 DEF Singles, Reallot
  <2> QED BY <2>1 DEF Act
<1>6. Q
  <2>1. (\E c \in Chains(L, R) : a \in Elements(c.actions)) \/ a \in Singles(L, R)
    BY DEF Actions
  <2> HIDE DEF Q
  <2> QED BY <1>1, <1>2, <1>3, <1>4, <1>5, <2>1, ChainOf
<1> QED BY <1>6

\* What is added to /etc/crypttab and removed from it.
LEMMA CrypttabActions ==
  ASSUME NEW L, NEW R, NEW l \in Luks
  PROVE  LET new == l \in DOMAIN R /\ R[l].listed
             old == l \in DOMAIN L /\ L[l].listed
         IN  /\ Act("add_crypttab", l) \in Actions(L, R) <=> new /\ ~ old
             /\ Act("remove_crypttab", l) \in Actions(L, R) <=> old /\ ~ new
<1> DEFINE new == l \in DOMAIN R /\ R[l].listed
           old == l \in DOMAIN L /\ L[l].listed
           add == Act("add_crypttab", l)
           remove == Act("remove_crypttab", l)
<1>1. add.op = "add_crypttab" /\ add.sid = l /\ remove.op = "remove_crypttab" /\ remove.sid = l
  BY DEF Act
<1>2. /\ add \in Elements(CreateChain(R, l).actions) <=> R[l].listed
      /\ remove \in Elements(DeleteChain(L, l).actions) <=> L[l].listed
      /\ remove \notin Elements(CreateChain(R, l).actions)
      /\ add \notin Elements(DeleteChain(L, l).actions)
  BY ChainCrypttab
<1>3. l \in DOMAIN L /\ l \in DOMAIN R => /\ ~ L[l].listed /\ R[l].listed => add \in Actions(L, R)
                                          /\ L[l].listed /\ ~ R[l].listed => remove \in Actions(L, R)
  BY DEF Actions, Singles
<1> HIDE DEF add, remove
<1>4. ASSUME add \in Actions(L, R) PROVE new /\ ~ old
  <2>1. \/ l \in DOMAIN R \ DOMAIN L /\ add \in Elements(CreateChain(R, l).actions)
        \/ l \in DOMAIN L \ DOMAIN R /\ add \in Elements(DeleteChain(L, l).actions)
        \/ l \in DOMAIN L /\ l \in DOMAIN R /\ ~ L[l].listed /\ R[l].listed
    BY <1>1, <1>4, CrypttabFrom
  <2> QED BY <1>2, <2>1
<1>5. ASSUME remove \in Actions(L, R) PROVE old /\ ~ new
  <2>1. \/ l \in DOMAIN R \ DOMAIN L /\ remove \in Elements(CreateChain(R, l).actions)
        \/ l \in DOMAIN L \ DOMAIN R /\ remove \in Elements(DeleteChain(L, l).actions)
        \/ l \in DOMAIN L /\ l \in DOMAIN R /\ L[l].listed /\ ~ R[l].listed
    BY <1>1, <1>5, CrypttabFrom
  <2> QED BY <1>2, <2>1
<1>6. l \in DOMAIN R \ DOMAIN L /\ R[l].listed => add \in Actions(L, R)
  <2>1. l \in DOMAIN R \ DOMAIN L => CreateChain(R, l) \in Chains(L, R)
    BY DEF Chains
  <2> QED BY <1>2, <2>1, ChainOf
<1>7. l \in DOMAIN L \ DOMAIN R /\ L[l].listed => remove \in Actions(L, R)
  <2>1. l \in DOMAIN L \ DOMAIN R => DeleteChain(L, l) \in Chains(L, R)
    BY DEF Chains
  <2> QED BY <1>2, <2>1, ChainOf
<1> QED BY <1>3, <1>4, <1>5, <1>6, <1>7 DEF add, remove

\* What is mounted and in the tables when the actions done are committed that lead
\* from L to R.
MountsAfter(L, R, done) ==
  {Entry(L, m) : m \in {x \in In(MountPoint, L) : L[x].active /\ Act("unmount", x) \notin done}}
  \cup {Entry(R, m) : m \in {x \in In(MountPoint, R) : Act("mount", x) \in done}}

Unwritten(L, done) ==
  {m \in In(MountPoint, L) : /\ L[m].listed
                             /\ \A op \in {"add_fstab", "update_fstab", "remove_fstab"} : Act(op, m) \notin done}
Written(R, done) ==
  {m \in In(MountPoint, R) : \E op \in {"add_fstab", "update_fstab"} : Act(op, m) \in done}

FstabAfter(L, R, done) ==
  {Entry(L, m) : m \in Unwritten(L, done)} \cup {Entry(R, m) : m \in Written(R, done)}

CrypttabAfter(L, done) ==
  {l \in Luks : \/ Act("add_crypttab", l) \in done
                \/ l \in DOMAIN L /\ L[l].listed /\ Act("remove_crypttab", l) \notin done}

\* Mount points whose name does not change have the same entry in both graphs.
LEMMA SameEntry ==
  ASSUME NEW L, NEW R, Mounting(L, R), NEW m \in In(MountPoint, L), m \in DOMAIN R, ~ Moved(L, R, m)
  PROVE  Entry(L, m) = Entry(R, m)
<1>1. m \in In(MountPoint, R)
  BY DEF In
<1>2. /\ Over(L, R, m) = {Entry(L, m).fs} /\ Over(L, R, m) = {Entry(R, m).fs}
      /\ Entry(L, m).fs = Parent(L, m) /\ Entry(R, m).fs = Parent(R, m)
  <2>1. Over(L, R, m) = {Entry(L, m).fs} /\ Entry(L, m).fs = Parent(L, m)
    BY EntryOf
  <2>2. Over(L, R, m) = {Entry(R, m).fs} /\ Entry(R, m).fs = Parent(R, m)
    BY <1>1, EntryOf
  <2> QED BY <2>1, <2>2
<1>3. Parent(L, m) = Parent(R, m) /\ L[m].name = R[m].name
  BY <1>2 DEF Moved
<1> QED BY <1>3 DEF Entry

\* Without any action it is what it was.
LEMMA AfterNothing ==
  ASSUME NEW L, NEW R
  PROVE  /\ MountsAfter(L, R, {}) = {Entry(L, m) : m \in {x \in In(MountPoint, L) : L[x].active}}
         /\ FstabAfter(L, R, {}) = {Entry(L, m) : m \in {x \in In(MountPoint, L) : L[x].listed}}
         /\ CrypttabAfter(L, {}) = {l \in In(Luks, L) : L[l].listed}
<1>1. Unwritten(L, {}) = {x \in In(MountPoint, L) : L[x].listed} /\ Written(R, {}) = {}
  BY DEF Unwritten, Written
<1>2. FstabAfter(L, R, {}) = {Entry(L, m) : m \in {x \in In(MountPoint, L) : L[x].listed}}
  BY <1>1 DEF FstabAfter
<1>3. CrypttabAfter(L, {}) = {l \in In(Luks, L) : L[l].listed}
  BY DEF CrypttabAfter, In
<1> QED BY <1>2, <1>3 DEF MountsAfter

\* With all of them what R has is mounted.
LEMMA MountsAfterAll ==
  ASSUME NEW L, NEW R, Mounting(L, R)
  PROVE  MountsAfter(L, R, Actions(L, R)) = {Entry(R, m) : m \in {x \in In(MountPoint, R) : R[x].active}}
<1> DEFINE unmount(m) == Act("unmount", m) \in Actions(L, R)
           mount(m) == Act("mount", m) \in Actions(L, R)
           old == {x \in In(MountPoint, L) : L[x].active /\ ~ unmount(x)}
           new == {x \in In(MountPoint, R) : mount(x)}
           active == {x \in In(MountPoint, R) : R[x].active}
<1>1. /\ \A m : mount(m) => m \in In(MountPoint, R) /\ R[m].active
      /\ \A m \in In(MountPoint, L) : m \notin DOMAIN R /\ L[m].active => unmount(m)
      /\ \A m \in In(MountPoint, R) : m \notin DOMAIN L /\ R[m].active => mount(m)
      /\ \A m \in MountPoint \cap DOMAIN L \cap DOMAIN R :
            /\ L[m].active /\ (~ R[m].active \/ Moved(L, R, m)) => unmount(m)
            /\ R[m].active /\ (~ L[m].active \/ Moved(L, R, m)) => mount(m)
            /\ L[m].active /\ R[m].active => (unmount(m) <=> mount(m))
  BY MountActionsAre
<1> HIDE DEF unmount, mount
<1>2. ASSUME NEW m \in old PROVE m \in active /\ Entry(L, m) = Entry(R, m)
  <2>1. m \in In(MountPoint, L) /\ L[m].active /\ ~ unmount(m)
    OBVIOUS
  <2>2. m \in DOMAIN R
    BY <1>1, <2>1
  <2>3. R[m].active /\ ~ Moved(L, R, m)
    BY <1>1, <2>1, <2>2 DEF In
  <2> QED BY <2>1, <2>2, <2>3, SameEntry DEF In
<1>3. new \subseteq active
  BY <1>1
<1>4. ASSUME NEW m \in active PROVE m \in old \/ m \in new
  <2>1. m \in MountPoint /\ m \in DOMAIN R /\ R[m].active
    BY DEF In
  <2>2. CASE m \notin DOMAIN L
    BY <1>1, <2>1, <2>2
  <2>3. CASE m \in DOMAIN L /\ ~ mount(m)
    <3>1. L[m].active /\ ~ unmount(m)
      BY <1>1, <2>1, <2>3
    <3> QED BY <2>1, <2>3, <3>1 DEF In
  <2> QED BY <2>2, <2>3
<1> HIDE DEF old, new, active
<1>5. {Entry(L, m) : m \in old} \cup {Entry(R, m) : m \in new} = {Entry(R, m) : m \in active}
  <2>1. ASSUME NEW m \in old PROVE Entry(L, m) \in {Entry(R, x) : x \in active}
    BY <1>2
  <2>2. ASSUME NEW m \in new PROVE Entry(R, m) \in {Entry(R, x) : x \in active}
    BY <1>3
  <2>3. ASSUME NEW m \in active PROVE Entry(R, m) \in {Entry(L, x) : x \in old} \cup {Entry(R, x) : x \in new}
    <3>1. CASE m \in old
      <4>1. Entry(R, m) = Entry(L, m)
        BY <1>2, <3>1
      <4> QED BY <3>1, <4>1
    <3>2. CASE m \in new
      BY <3>2
    <3> QED BY <1>4, <3>1, <3>2
  <2> QED BY <2>1, <2>2, <2>3
<1> QED BY <1>5 DEF old, new, active, unmount, mount, MountsAfter

\* With all of them /etc/fstab has what R has.
LEMMA FstabAfterAll ==
  ASSUME NEW L, NEW R, Mounting(L, R)
  PROVE  FstabAfter(L, R, Actions(L, R)) = {Entry(R, m) : m \in {x \in In(MountPoint, R) : R[x].listed}}
<1> DEFINE A == Actions(L, R)
           old == Unwritten(L, A)
           new == Written(R, A)
           listed == {x \in In(MountPoint, R) : R[x].listed}
<1>1. \A op, x : Act(op, x).op = op /\ Act(op, x).sid = x
  BY DEF Act
<1>2. ASSUME NEW m \in MountPoint
      PROVE  /\ Act("add_fstab", m) \in A \/ Act("update_fstab", m) \in A => m \in DOMAIN R /\ R[m].listed
             /\ Act("remove_fstab", m) \in A => ~ (m \in DOMAIN R /\ R[m].listed)
  BY <1>1, EntryActions
<1>3. ASSUME NEW m \in old PROVE m \in listed /\ Entry(L, m) = Entry(R, m)
  <2>1. /\ m \in In(MountPoint, L) /\ L[m].listed
        /\ Act("add_fstab", m) \notin A /\ Act("update_fstab", m) \notin A /\ Act("remove_fstab", m) \notin A
    BY DEF Unwritten
  <2>2. m \in MountPoint /\ m \in DOMAIN L
    BY <2>1 DEF In
  <2>3. m \in DOMAIN R /\ R[m].listed
    BY <2>1, <2>2, EntriesChanged
  <2>4. ~ Moved(L, R, m)
    BY <2>1, <2>2, <2>3, EntriesChanged
  <2> QED BY <2>1, <2>2, <2>3, <2>4, SameEntry DEF In
<1>4. new \subseteq listed
  <2> SUFFICES ASSUME NEW m \in new PROVE m \in listed
    OBVIOUS
  <2>1. m \in In(MountPoint, R) /\ (Act("add_fstab", m) \in A \/ Act("update_fstab", m) \in A)
    BY DEF Written
  <2> QED BY <1>2, <2>1 DEF In
<1>5. ASSUME NEW m \in listed PROVE m \in old \/ m \in new
  <2>1. m \in MountPoint /\ m \in DOMAIN R /\ R[m].listed
    BY DEF In
  <2>2. CASE Act("add_fstab", m) \in A \/ Act("update_fstab", m) \in A
    BY <2>1, <2>2 DEF Written, In
  <2>3. CASE Act("add_fstab", m) \notin A /\ Act("update_fstab", m) \notin A
    <3>1. Act("remove_fstab", m) \notin A
      BY <1>2, <2>1
    <3>2. m \in DOMAIN L /\ L[m].listed
      BY <2>1, <2>3, EntriesChanged
    <3> QED BY <2>1, <2>3, <3>1, <3>2 DEF Unwritten, In
  <2> QED BY <2>2, <2>3
<1> HIDE DEF old, new, listed
<1>6. {Entry(L, m) : m \in old} \cup {Entry(R, m) : m \in new} = {Entry(R, m) : m \in listed}
  <2>1. ASSUME NEW m \in old PROVE Entry(L, m) \in {Entry(R, x) : x \in listed}
    BY <1>3
  <2>2. ASSUME NEW m \in new PROVE Entry(R, m) \in {Entry(R, x) : x \in listed}
    BY <1>4
  <2>3. ASSUME NEW m \in listed PROVE Entry(R, m) \in {Entry(L, x) : x \in old} \cup {Entry(R, x) : x \in new}
    <3>1. CASE m \in old
      <4>1. Entry(R, m) = Entry(L, m)
        BY <1>3, <3>1
      <4> QED BY <3>1, <4>1
    <3>2. CASE m \in new
      BY <3>2
    <3> QED BY <1>5, <3>1, <3>2
  <2> QED BY <2>1, <2>2, <2>3
<1> QED BY <1>6 DEF old, new, listed, A, FstabAfter

\* With all of them /etc/crypttab has what R has.
LEMMA CrypttabAfterAll ==
  ASSUME NEW L, NEW R
  PROVE  CrypttabAfter(L, Actions(L, R)) = {l \in In(Luks, R) : R[l].listed}
<1>1. ASSUME NEW l \in Luks
      PROVE  (\/ Act("add_crypttab", l) \in Actions(L, R)
              \/ l \in DOMAIN L /\ L[l].listed /\ Act("remove_crypttab", l) \notin Actions(L, R))
             <=> l \in DOMAIN R /\ R[l].listed
  BY CrypttabActions
<1> QED BY <1>1 DEF CrypttabAfter, In

\* What one more action to mount makes of it.
LEMMA AfterMount ==
  ASSUME NEW L, NEW R, NEW done, NEW m \in In(MountPoint, R)
  PROVE  MountsAfter(L, R, done \cup {Act("mount", m)}) = MountsAfter(L, R, done) \cup {Entry(R, m)}
<1> DEFINE more == done \cup {Act("mount", m)}
           old(S) == {x \in In(MountPoint, L) : L[x].active /\ Act("unmount", x) \notin S}
           new(S) == {x \in In(MountPoint, R) : Act("mount", x) \in S}
<1>1. \A x : Act("unmount", x) # Act("mount", m) /\ (Act("mount", x) = Act("mount", m) <=> x = m)
  BY DEF Act
<1>2. old(more) = old(done) /\ new(more) = new(done) \cup {m}
  BY <1>1
<1> HIDE DEF old, new, more
<1>3. {Entry(R, x) : x \in new(done) \cup {m}} = {Entry(R, x) : x \in new(done)} \cup {Entry(R, m)}
  OBVIOUS
<1>4. \A S : MountsAfter(L, R, S) = {Entry(L, x) : x \in old(S)} \cup {Entry(R, x) : x \in new(S)}
  BY DEF MountsAfter, old, new
<1>5. MountsAfter(L, R, more) = MountsAfter(L, R, done) \cup {Entry(R, m)}
  BY <1>2, <1>3, <1>4
<1> QED BY <1>5 DEF more

\* What one more action to unmount makes of it.
LEMMA AfterUnmount ==
  ASSUME NEW L, NEW R, NEW done, NEW m, Act("mount", m) \notin done
  PROVE  MountsAfter(L, R, done \cup {Act("unmount", m)}) = {e \in MountsAfter(L, R, done) : e.mp # m}
<1> DEFINE more == done \cup {Act("unmount", m)}
           old(S) == {x \in In(MountPoint, L) : L[x].active /\ Act("unmount", x) \notin S}
           new(S) == {x \in In(MountPoint, R) : Act("mount", x) \in S}
<1>1. \A x : Act("mount", x) # Act("unmount", m) /\ (Act("unmount", x) = Act("unmount", m) <=> x = m)
  BY DEF Act
<1>2. old(more) = old(done) \ {m} /\ new(more) = new(done) /\ m \notin new(done)
  BY <1>1
<1> HIDE DEF old, new, more
<1>3. \A g, x : Entry(g, x).mp = x
  BY DEF Entry
<1>4. \A S : MountsAfter(L, R, S) = {Entry(L, x) : x \in old(S)} \cup {Entry(R, x) : x \in new(S)}
  BY DEF MountsAfter, old, new
<1>5. {Entry(L, x) : x \in old(done) \ {m}} = {e \in {Entry(L, x) : x \in old(done)} : e.mp # m}
  BY <1>3
<1>6. {Entry(R, x) : x \in new(done)} = {e \in {Entry(R, x) : x \in new(done)} : e.mp # m}
  BY <1>2, <1>3
<1>7. MountsAfter(L, R, more) = {e \in MountsAfter(L, R, done) : e.mp # m}
  BY <1>2, <1>4, <1>5, <1>6
<1> QED BY <1>7 DEF more

\* The entries without that of a mount point.
LEMMA WithoutEntry ==
  ASSUME NEW L, NEW R, NEW done, NEW m
  PROVE  Without(FstabAfter(L, R, done), m)
           = {Entry(L, x) : x \in Unwritten(L, done) \ {m}} \cup {Entry(R, x) : x \in Written(R, done) \ {m}}
<1> DEFINE S == {Entry(L, x) : x \in Unwritten(L, done)}
           T == {Entry(R, x) : x \in Written(R, done)}
<1>1. \A g, x : Entry(g, x).mp = x
  BY DEF Entry
<1>2. Without(S \cup T, m) = Without(S, m) \cup Without(T, m)
  BY DEF Without
<1>3. FstabAfter(L, R, done) = S \cup T
  BY DEF FstabAfter
<1>4. Without(S, m) = {Entry(L, x) : x \in Unwritten(L, done) \ {m}}
  BY <1>1 DEF Without
<1>5. Without(T, m) = {Entry(R, x) : x \in Written(R, done) \ {m}}
  BY <1>1 DEF Without
<1> HIDE DEF S, T
<1> QED BY <1>2, <1>3, <1>4, <1>5

\* An entry is added or updated.
LEMMA AfterListed ==
  ASSUME NEW L, NEW R, NEW done, NEW op \in {"add_fstab", "update_fstab"}, NEW m \in In(MountPoint, R)
  PROVE  FstabAfter(L, R, done \cup {Act(op, m)}) = Without(FstabAfter(L, R, done), m) \cup {Entry(R, m)}
<1> DEFINE more == done \cup {Act(op, m)}
<1>1. \A x, o : Act(o, x) \in more <=> Act(o, x) \in done \/ (o = op /\ x = m)
  BY DEF Act
<1> HIDE DEF more
<1>2. Unwritten(L, more) = Unwritten(L, done) \ {m}
  BY <1>1 DEF Unwritten
<1>3. Written(R, more) = (Written(R, done) \ {m}) \cup {m}
  BY <1>1 DEF Written
<1>4. {Entry(R, x) : x \in (Written(R, done) \ {m}) \cup {m}}
        = {Entry(R, x) : x \in Written(R, done) \ {m}} \cup {Entry(R, m)}
  OBVIOUS
<1>5. FstabAfter(L, R, more) = {Entry(L, x) : x \in Unwritten(L, done) \ {m}}
                                 \cup {Entry(R, x) : x \in (Written(R, done) \ {m}) \cup {m}}
  BY <1>2, <1>3 DEF FstabAfter
<1>6. FstabAfter(L, R, more) = Without(FstabAfter(L, R, done), m) \cup {Entry(R, m)}
  BY <1>4, <1>5, WithoutEntry
<1> QED BY <1>6 DEF more

\* An entry is removed.
LEMMA AfterUnlisted ==
  ASSUME NEW L, NEW R, NEW done, NEW m, m \notin Written(R, done)
  PROVE  FstabAfter(L, R, done \cup {Act("remove_fstab", m)}) = Without(FstabAfter(L, R, done), m)
<1> DEFINE more == done \cup {Act("remove_fstab", m)}
<1>1. \A x, o : Act(o, x) \in more <=> Act(o, x) \in done \/ (o = "remove_fstab" /\ x = m)
  BY DEF Act
<1> HIDE DEF more
<1>2. Unwritten(L, more) = Unwritten(L, done) \ {m}
  BY <1>1 DEF Unwritten
<1>3. Written(R, more) = Written(R, done) /\ Written(R, done) = Written(R, done) \ {m}
  BY <1>1 DEF Written
<1>4. FstabAfter(L, R, more) = {Entry(L, x) : x \in Unwritten(L, done) \ {m}}
                                 \cup {Entry(R, x) : x \in Written(R, done) \ {m}}
  BY <1>2, <1>3 DEF FstabAfter
<1>5. FstabAfter(L, R, more) = Without(FstabAfter(L, R, done), m)
  BY <1>4, WithoutEntry
<1> QED BY <1>5 DEF more

\* /etc/crypttab gets longer.
LEMMA AfterAddCrypttab ==
  ASSUME NEW L, NEW done, NEW l \in Luks
  PROVE  CrypttabAfter(L, done \cup {Act("add_crypttab", l)}) = CrypttabAfter(L, done) \cup {l}
<1>1. \A op, o, x : Act(op, x) = Act(o, l) <=> op = o /\ x = l
  BY DEF Act
<1> QED BY <1>1 DEF CrypttabAfter

\* /etc/crypttab gets shorter.
LEMMA AfterRemoveCrypttab ==
  ASSUME NEW L, NEW done, NEW l \in Luks, Act("add_crypttab", l) \notin done
  PROVE  CrypttabAfter(L, done \cup {Act("remove_crypttab", l)}) = CrypttabAfter(L, done) \ {l}
<1>1. \A op, o, x : Act(op, x) = Act(o, l) <=> op = o /\ x = l
  BY DEF Act
<1> QED BY <1>1 DEF CrypttabAfter

\* Other actions make no difference.
LEMMA AfterOther ==
  ASSUME NEW L, NEW R, NEW done, NEW a
  PROVE  /\ a.op \notin {"mount", "unmount"} => MountsAfter(L, R, done \cup {a}) = MountsAfter(L, R, done)
         /\ a.op \notin {"add_fstab", "update_fstab", "remove_fstab"} =>
              FstabAfter(L, R, done \cup {a}) = FstabAfter(L, R, done)
         /\ a.op \notin {"add_crypttab", "remove_crypttab"} =>
              CrypttabAfter(L, done \cup {a}) = CrypttabAfter(L, done)
<1>1. \A op, x : a.op # op => (Act(op, x) \in done \cup {a} <=> Act(op, x) \in done)
  BY DEF Act
<1>2. a.op \notin {"mount", "unmount"} => MountsAfter(L, R, done \cup {a}) = MountsAfter(L, R, done)
  BY <1>1 DEF MountsAfter
<1>3. a.op \notin {"add_fstab", "update_fstab", "remove_fstab"} =>
        Unwritten(L, done \cup {a}) = Unwritten(L, done) /\ Written(R, done \cup {a}) = Written(R, done)
  BY <1>1 DEF Unwritten, Written
<1>4. a.op \notin {"add_crypttab", "remove_crypttab"} => CrypttabAfter(L, done \cup {a}) = CrypttabAfter(L, done)
  BY <1>1 DEF CrypttabAfter
<1> QED BY <1>2, <1>3, <1>4 DEF FstabAfter

\* /etc/crypttab is read when the system is probed.
CrypttabProbed == crypttab \subseteq Luks /\ (phase = "edit" => crypttab = {l \in In(Luks, probed) : probed[l].listed})

\* What the committed actions have made of what was probed.
AccessAfter == phase = "commit" =>
  /\ Mounts = MountsAfter(probed, staging, Actions(probed, staging) \ todo)
  /\ fstab = FstabAfter(probed, staging, Actions(probed, staging) \ todo)
  /\ crypttab = CrypttabAfter(probed, Actions(probed, staging) \ todo)

AccessAsStaging == phase = "done" =>
  /\ Mounts = {Entry(staging, m) : m \in {x \in In(MountPoint, staging) : staging[x].active}}
  /\ fstab = {Entry(staging, m) : m \in {x \in In(MountPoint, staging) : staging[x].listed}}
  /\ crypttab = {l \in In(Luks, staging) : staging[l].listed}

AccessInv == MountInv /\ CrypttabProbed /\ (Undisturbed => AccessAfter /\ AccessAsStaging)

\* What is still to be committed and what is committed after a step.
LEMMA OneMore ==
  ASSUME NEW A, NEW T \in SUBSET A, NEW a \in T
  PROVE  A \ (T \ {a}) = (A \ T) \cup {a}
OBVIOUS

\* The next step of a commit does what its action says.
LEMMA CommitAccess ==
  ASSUME Frame, Rules, Traced, AccessAfter, ignored \in Nat, CommitAction, Undisturbed'
  PROVE  AccessAfter'
<1> DEFINE A == Actions(probed, staging)
           done == A \ todo
<1> HIDE DEF A, done
<1>1. PICK a \in todo : \/ CommitCreate(a) \/ CommitDelete(a)
                        \/ CommitActivate(a) \/ CommitDeactivate(a)
                        \/ CommitResize(a) \/ CommitReallot(a)
                        \/ CommitMount(a) \/ CommitUnmount(a)
                        \/ CommitFstab(a) \/ CommitCrypttab(a)
                        \/ Fail(a)
  BY DEF CommitAction
<1>2. CASE Fail(a)
  <2>1. phase' = "aborted"
    BY <1>2 DEF Fail, Undisturbed
  <2> QED BY <2>1 DEF AccessAfter
<1>3. CASE Done(a)
  <2>1. phase = "commit" /\ UNCHANGED <<probed, staging, phase>> /\ todo' = todo \ {a} /\ a \in Ready
    BY <1>3 DEF Done, Ready
  <2>2. Mounting(probed, staging) /\ todo \in SUBSET A /\ Onward(probed, staging, todo) /\ deps = Order(probed, staging)
    BY <2>1, CommitMounting DEF A
  <2>3. A \ todo' = done \cup {a}
    BY <2>1, <2>2, OneMore DEF done
  <2>4. /\ Mounts = MountsAfter(probed, staging, done)
        /\ fstab = FstabAfter(probed, staging, done)
        /\ crypttab = CrypttabAfter(probed, done)
    BY <2>1 DEF AccessAfter, A, done
  <2>5. /\ a.op \notin {"mount", "unmount"} => MountsAfter(probed, staging, done \cup {a}) = Mounts
        /\ a.op \notin {"add_fstab", "update_fstab", "remove_fstab"} => FstabAfter(probed, staging, done \cup {a}) = fstab
        /\ a.op \notin {"add_crypttab", "remove_crypttab"} => CrypttabAfter(probed, done \cup {a}) = crypttab
    BY <2>4, AfterOther
  <2>6. a \in A
    BY <2>2
  <2> SUFFICES /\ Mounts' = MountsAfter(probed, staging, done \cup {a})
               /\ fstab' = FstabAfter(probed, staging, done \cup {a})
               /\ crypttab' = CrypttabAfter(probed, done \cup {a})
    BY <2>1, <2>3 DEF AccessAfter, A
  <2>7. CASE CommitMount(a)
    <3>1. a.op = "mount" /\ UNCHANGED <<fstab, crypttab>> /\ mounts' = Append(mounts, Entry(staging, a.sid))
      BY <2>7 DEF CommitMount
    <3>2. a = Act("mount", a.sid)
      BY <2>6, <3>1, MountActions DEF A
    <3>3. a.sid \in In(MountPoint, staging)
      BY <2>2, <2>6, <3>2, MountActionsAre DEF A
    <3>4. Mounts' = Mounts \cup {Entry(staging, a.sid)}
      <4> DEFINE new == Entry(staging, a.sid)
      <4>1. mounts \in Seq(EntryType) /\ mounts' = Append(mounts, new)
        BY <3>1 DEF Frame, Entries
      <4> HIDE DEF new
      <4>2. /\ DOMAIN mounts = 1 .. Len(mounts) /\ Len(mounts) \in Nat
            /\ DOMAIN mounts' = 1 .. Len(mounts) + 1
            /\ \A i \in DOMAIN mounts : mounts'[i] = mounts[i]
            /\ mounts'[Len(mounts) + 1] = new
        BY <4>1
      <4>3. Mounts' = Mounts \cup {new}
        BY <4>2 DEF Mounts
      <4> QED BY <4>3 DEF new
    <3>5. MountsAfter(probed, staging, done \cup {Act("mount", a.sid)}) = MountsAfter(probed, staging, done) \cup {Entry(staging, a.sid)}
      BY <3>3, AfterMount
    <3> QED BY <2>4, <2>5, <3>1, <3>2, <3>4, <3>5
  <2>8. CASE CommitUnmount(a)
    <3>1. a.op = "unmount" /\ UNCHANGED <<fstab, crypttab>>
      BY <2>8 DEF CommitUnmount
    <3>2. a = Act("unmount", a.sid) /\ Mounts' = {e \in Mounts : e.mp # a.sid}
      BY <2>8, UnmountExact
    <3>3. Act("mount", a.sid) \notin done
      <4> SUFFICES ASSUME Act("mount", a.sid) \in A, Act("mount", a.sid) \notin todo PROVE FALSE
        BY DEF done
      <4>1. Act("unmount", a.sid) \in todo
        BY <3>2
      <4>2. Awaits(probed, staging, todo, Act("mount", a.sid))
        BY <2>2, <4>1, UnmountedFirst DEF A
      <4> QED BY <2>2, <4>2 DEF Awaits, Onward, A
    <3>4. MountsAfter(probed, staging, done \cup {Act("unmount", a.sid)})
            = {e \in MountsAfter(probed, staging, done) : e.mp # a.sid}
      BY <3>3, AfterUnmount
    <3> QED BY <2>4, <2>5, <3>1, <3>2, <3>4
  <2>9. CASE CommitFstab(a)
    <3>1. /\ UNCHANGED <<mounts, crypttab>> /\ a.op \in {"add_fstab", "update_fstab", "remove_fstab"}
          /\ a.op \in {"add_fstab", "update_fstab"} => fstab' = Without(fstab, a.sid) \cup {Entry(staging, a.sid)}
          /\ a.op = "remove_fstab" => fstab' = Without(fstab, a.sid)
      BY <2>9 DEF CommitFstab
    <3>2. a = Act(a.op, a.sid) /\ a.sid \in MountPoint
      BY <2>6, <3>1, EntryActions DEF A
    <3>3. Mounts' = Mounts
      BY <3>1 DEF Mounts
    <3>4. CASE a.op \in {"add_fstab", "update_fstab"}
      <4>1. a.sid \in In(MountPoint, staging)
        BY <2>6, <3>4, ActionFacts DEF In, A
      <4>2. FstabAfter(probed, staging, done \cup {Act(a.op, a.sid)})
              = Without(FstabAfter(probed, staging, done), a.sid) \cup {Entry(staging, a.sid)}
        BY <3>4, <4>1, AfterListed
      <4> QED BY <2>4, <2>5, <3>1, <3>2, <3>3, <3>4, <4>2
    <3>5. CASE a.op = "remove_fstab"
      <4>1. a.sid \notin Written(staging, done)
        <5>1. ~ (a.sid \in DOMAIN staging /\ staging[a.sid].listed)
          BY <2>6, <3>5, EntryActions DEF A
        <5>2. \A op : Act(op, a.sid).op = op /\ Act(op, a.sid).sid = a.sid
          BY DEF Act
        <5>3. Act("add_fstab", a.sid) \notin A /\ Act("update_fstab", a.sid) \notin A
          BY <5>1, <5>2, EntryActions DEF A
        <5> QED BY <5>3 DEF Written, done
      <4>2. FstabAfter(probed, staging, done \cup {Act("remove_fstab", a.sid)})
              = Without(FstabAfter(probed, staging, done), a.sid)
        BY <4>1, AfterUnlisted
      <4> QED BY <2>4, <2>5, <3>1, <3>2, <3>3, <3>5, <4>2
    <3> QED BY <3>1, <3>4, <3>5
  <2>10. CASE CommitCrypttab(a)
    <3>1. /\ UNCHANGED <<mounts, fstab>> /\ a.op \in {"add_crypttab", "remove_crypttab"}
          /\ a.op = "add_crypttab" => crypttab' = crypttab \cup {a.sid}
          /\ a.op = "remove_crypttab" => crypttab' = crypttab \ {a.sid}
      BY <2>10 DEF CommitCrypttab
    <3>2. a.sid \in Luks /\ a = Act(a.op, a.sid)
      BY <2>6, <3>1, CrypttabFrom DEF A
    <3>3. Mounts' = Mounts
      BY <3>1 DEF Mounts
    <3>4. a.op = "remove_crypttab" => Act("add_crypttab", a.sid) \notin done
      BY <2>6, <3>2, CrypttabActions DEF A, done
    <3>5. CASE a.op = "add_crypttab"
      <4>1. CrypttabAfter(probed, done \cup {Act("add_crypttab", a.sid)}) = CrypttabAfter(probed, done) \cup {a.sid}
        BY <3>2, AfterAddCrypttab
      <4> QED BY <2>4, <2>5, <3>1, <3>2, <3>3, <3>5, <4>1
    <3>6. CASE a.op = "remove_crypttab"
      <4>1. Act("add_crypttab", a.sid) \notin done
        BY <3>4, <3>6
      <4>2. CrypttabAfter(probed, done \cup {Act("remove_crypttab", a.sid)}) = CrypttabAfter(probed, done) \ {a.sid}
        BY <3>2, <4>1, AfterRemoveCrypttab
      <4> QED BY <2>4, <2>5, <3>1, <3>2, <3>3, <3>6, <4>2
    <3> QED BY <3>1, <3>5, <3>6
  <2>11. CASE /\ UNCHANGED <<mounts, fstab, crypttab>>
              /\ a.op \in {"create", "delete", "activate", "deactivate", "shrink", "grow", "extend", "reduce"}
    <3>1. Mounts' = Mounts
      BY <2>11 DEF Mounts
    <3> QED BY <2>5, <2>11, <3>1
  <2>12. ~ Fail(a)
    <3>1. Fail(a) => todo' = todo \/ ignored' = ignored + 1
      BY DEF Fail
    <3> QED BY <2>1, <3>1 DEF Undisturbed
  <2>13. \/ CommitMount(a) \/ CommitUnmount(a) \/ CommitFstab(a) \/ CommitCrypttab(a)
         \/ /\ UNCHANGED <<mounts, fstab, crypttab>>
            /\ a.op \in {"create", "delete", "activate", "deactivate", "shrink", "grow", "extend", "reduce"}
    BY <1>1, <2>12 DEF CommitCreate, CommitDelete, CommitActivate, CommitDeactivate, CommitResize, CommitReallot, is_resize
  <2> QED BY <2>7, <2>8, <2>9, <2>10, <2>11, <2>13
<1> QED BY <1>1, <1>2, <1>3
     DEF CommitCreate, CommitDelete, CommitActivate, CommitDeactivate, CommitResize, CommitReallot,
         CommitMount, CommitUnmount, CommitFstab, CommitCrypttab

\* A device that is found has its attributes.
LEMMA ProbedDevice ==
  ASSUME Frame, NEW d \in Found
  PROVE  /\ Probed[d].start = world[d].start
         /\ Probed[d].name = world[d].name
         /\ Probed[d].active = world[d].active
         /\ Probed[d].listed <=> d \in crypttab
         /\ d \notin Content => Probed[d].size = world[d].size
<1> DEFINE listed == d \in crypttab
           size == IF d \in Content THEN 0 ELSE world[d].size
<1>1. Probed[d] = [world[d] EXCEPT !.size = size, !.listed = listed]
  BY DEF Probed
<1>2. DOMAIN world[d] = Fields
  BY WhatIsFound DEF Frame, World
<1> HIDE DEF listed, size
<1>3. /\ Probed[d].start = world[d].start /\ Probed[d].name = world[d].name
      /\ Probed[d].active = world[d].active /\ Probed[d].listed = listed
      /\ Probed[d].size = size
  BY <1>1, <1>2 DEF Fields
<1> QED BY <1>3 DEF listed, size

\* At first /etc/crypttab has what was probed.
LEMMA InitAccess ==
  ASSUME Init
  PROVE  AccessInv
<1>1. MountInv
  BY InitSound, InitMounts DEF MountInv
<1>2. phase = "edit" /\ crypttab = {l \in In(Luks, probed) : probed[l].listed}
  BY DEF Init
<1>3. crypttab \subseteq Luks
  BY <1>2 DEF In
<1> QED BY <1>1, <1>2, <1>3 DEF AccessInv, CrypttabProbed, AccessAfter, AccessAsStaging

\* Probing reads /etc/crypttab.
LEMMA ProbeCrypttab ==
  ASSUME Frame, CrypttabProbed, Probe
  PROVE  CrypttabProbed'
<1>1. probed' = Probed /\ crypttab' = crypttab \cap Found /\ crypttab \subseteq Luks
  BY DEF Probe, CrypttabProbed
<1>2. \A l \in Luks : l \in DOMAIN Probed <=> l \in Found
  <2>1. DOMAIN Probed = Found \cup {e.mp : e \in Selected} /\ \A e \in Selected : e \in EntryType
    BY WhatIsProbed
  <2>2. Luks \cap MountPoint = {}
    BY ClassAssumption
  <2> QED BY <2>1, <2>2 DEF EntryType
<1>3. \A l \in Found : Probed[l].listed <=> l \in crypttab
  BY ProbedDevice
<1>4. crypttab' = {l \in In(Luks, Probed) : Probed[l].listed}
  BY <1>1, <1>2, <1>3 DEF In
<1> QED BY <1>1, <1>4 DEF CrypttabProbed

\* A commit only writes LUKS devices to /etc/crypttab.
LEMMA CommitCrypttabProbed ==
  ASSUME Frame, CrypttabProbed, CommitAction
  PROVE  CrypttabProbed'
<1>1. PICK a \in todo : \/ CommitCreate(a) \/ CommitDelete(a)
                        \/ CommitActivate(a) \/ CommitDeactivate(a)
                        \/ CommitResize(a) \/ CommitReallot(a)
                        \/ CommitMount(a) \/ CommitUnmount(a)
                        \/ CommitFstab(a) \/ CommitCrypttab(a)
                        \/ Fail(a)
  BY DEF CommitAction
<1>2. phase = "commit" /\ phase' # "edit"
  BY <1>1 DEF CommitCreate, CommitDelete, CommitActivate, CommitDeactivate, CommitResize, CommitReallot,
              CommitMount, CommitUnmount, CommitFstab, CommitCrypttab, Fail, Done, Ready
<1>3. CASE CommitCrypttab(a)
  <2>1. a \in Actions(probed, staging)
    BY <1>2 DEF Frame, Committing
  <2>2. a.op \in {"add_crypttab", "remove_crypttab"} /\ crypttab' \subseteq crypttab \cup {a.sid}
    BY <1>3 DEF CommitCrypttab
  <2>3. a.sid \in Luks
    BY <2>1, <2>2, CrypttabFrom
  <2> QED BY <1>2, <2>2, <2>3 DEF CrypttabProbed
<1>4. CASE crypttab' = crypttab
  BY <1>2, <1>4 DEF CrypttabProbed
<1> QED BY <1>1, <1>3, <1>4
     DEF CommitCreate, CommitDelete, CommitActivate, CommitDeactivate, CommitResize, CommitReallot,
         CommitMount, CommitUnmount, CommitFstab, Fail

\* Every step keeps AccessInv.
LEMMA AccessStep ==
  ASSUME AccessInv, [Next]_vars
  PROVE  AccessInv'
<1>1. MountInv' /\ Frame /\ Rules /\ ignored \in Nat /\ CrypttabProbed
  BY MountStep DEF AccessInv, MountInv, Inv
<1>2. CrypttabProbed'
  <2>1. EditStaging => UNCHANGED <<probed, crypttab, phase>>
    BY EditEdited DEF Edited
  <2>2. CASE UNCHANGED <<probed, crypttab>> /\ (phase' = "edit" => phase = "edit")
    BY <1>1, <2>2 DEF CrypttabProbed
  <2> QED BY <1>1, <2>1, <2>2, ProbeCrypttab, CommitCrypttabProbed
       DEF Next, CalculateActiongraph, EndCommit, vars
<1> SUFFICES ASSUME Undisturbed' PROVE AccessAfter' /\ AccessAsStaging'
  BY <1>1, <1>2 DEF AccessInv
<1>3. Undisturbed
  BY <1>1, CountersStep
<1>4. AccessAfter /\ AccessAsStaging /\ Traced
  BY <1>3 DEF AccessInv, MountInv, Undisturbed
<1>5. CASE EditStaging \/ Probe
  <2>1. phase' = "edit"
    BY <1>5, EditEdited DEF Edited, Probe
  <2> QED BY <2>1 DEF AccessAfter, AccessAsStaging
<1>6. CASE CalculateActiongraph
  <2>1. /\ phase = "edit" /\ phase' # "done" /\ UNCHANGED <<probed, staging, mounts, fstab, crypttab>>
        /\ todo' = Actions(system, staging)
        /\ Clear(system, staging, Actions(system, staging))
    BY <1>6 DEF CalculateActiongraph, Undisturbed
  <2>2. system = probed
    BY <1>1, <2>1 DEF Frame, Editing
  <2>3. Actions(probed', staging') \ todo' = {}
    BY <2>1, <2>2
  <2>4. /\ Mounts' = {Entry(probed, m) : m \in {x \in In(MountPoint, probed) : probed[x].active}}
        /\ fstab' = {Entry(probed, m) : m \in {x \in In(MountPoint, probed) : probed[x].listed}}
        /\ crypttab' = {l \in In(Luks, probed) : probed[l].listed}
    BY <1>1, <2>1, <2>2 DEF Clear, Known, Mounts, CrypttabProbed
  <2>5. /\ Mounts' = MountsAfter(probed, staging, {})
        /\ fstab' = FstabAfter(probed, staging, {})
        /\ crypttab' = CrypttabAfter(probed, {})
    BY <2>4, AfterNothing
  <2> QED BY <2>1, <2>3, <2>5 DEF AccessAfter, AccessAsStaging
<1>7. CASE CommitAction
  <2>1. AccessAfter'
    BY <1>1, <1>4, <1>7, CommitAccess
  <2>2. phase' # "done"
    BY <1>7 DEF CommitAction, CommitCreate, CommitDelete, CommitActivate, CommitDeactivate, CommitResize, CommitReallot,
                CommitMount, CommitUnmount, CommitFstab, CommitCrypttab, Fail, Done, Ready
  <2> QED BY <2>1, <2>2 DEF AccessAsStaging
<1>8. CASE EndCommit
  <2>1. phase = "commit" /\ todo = {} /\ phase' = "done" /\ UNCHANGED <<staging, mounts, fstab, crypttab>>
    BY <1>8 DEF EndCommit
  <2>2. Mounting(probed, staging)
    BY <1>1, <2>1, CommitMounting
  <2>3. Actions(probed, staging) \ todo = Actions(probed, staging)
    BY <2>1
  <2>4. /\ Mounts = MountsAfter(probed, staging, Actions(probed, staging))
        /\ fstab = FstabAfter(probed, staging, Actions(probed, staging))
        /\ crypttab = CrypttabAfter(probed, Actions(probed, staging))
    BY <1>4, <2>1, <2>3 DEF AccessAfter
  <2>5. Mounts = {Entry(staging, m) : m \in {x \in In(MountPoint, staging) : staging[x].active}}
    BY <2>2, <2>4, MountsAfterAll
  <2>6. fstab = {Entry(staging, m) : m \in {x \in In(MountPoint, staging) : staging[x].listed}}
    BY <2>2, <2>4, FstabAfterAll
  <2>7. crypttab = {l \in In(Luks, staging) : staging[l].listed}
    BY <2>4, CrypttabAfterAll
  <2> QED BY <2>1, <2>5, <2>6, <2>7 DEF AccessAfter, AccessAsStaging, Mounts
<1>9. CASE UNCHANGED vars
  <2>1. UNCHANGED <<probed, staging, mounts, fstab, crypttab, phase, todo>>
    BY <1>9 DEF vars
  <2> QED BY <1>4, <2>1 DEF AccessAfter, AccessAsStaging, Mounts
<1> QED BY <1>5, <1>6, <1>7, <1>8, <1>9 DEF Next

-----------------------------------------------------------------------------
(* The attributes of the devices in the graphs.                            *)

\* What is in both graphs has what it had when it was probed, but for the sizes of
\* partitions and logical volumes; what is new is active if it is a LUKS.
Alike(L, R) ==
  /\ \A d \in (DOMAIN L \cap DOMAIN R) \ MountPoint :
        /\ R[d].start = L[d].start /\ R[d].name = L[d].name /\ R[d].active = L[d].active
        /\ d \notin Partition \cup Lv => R[d].size = L[d].size
  /\ \A d \in DOMAIN R \ (DOMAIN L \cup MountPoint) : R[d].active = (IF d \in Luks THEN TRUE ELSE FALSE)

\* An edit of g that makes h of it changes nothing that L has.
Retains(L, g, h) ==
  \A d \in DOMAIN h \ MountPoint :
     /\ d \in DOMAIN g => /\ h[d].start = g[d].start /\ h[d].active = g[d].active
                          /\ d \in DOMAIN L => h[d].name = g[d].name
                          /\ d \notin Partition \cup Lv => h[d].size = g[d].size
     /\ d \notin DOMAIN g => d \notin DOMAIN L /\ (h[d].active = (IF d \in Luks THEN TRUE ELSE FALSE))

\* The graphs stay alike.
LEMMA RetainsAlike ==
  ASSUME NEW L, NEW g, NEW h, Alike(L, g), Retains(L, g, h)
  PROVE  Alike(L, h)
<1>1. ASSUME NEW d \in (DOMAIN L \cap DOMAIN h) \ MountPoint
      PROVE  /\ h[d].start = L[d].start /\ h[d].name = L[d].name /\ h[d].active = L[d].active
             /\ d \notin Partition \cup Lv => h[d].size = L[d].size
  <2>1. d \in DOMAIN g
    BY DEF Retains
  <2>2. /\ g[d].start = L[d].start /\ g[d].name = L[d].name /\ g[d].active = L[d].active
        /\ d \notin Partition \cup Lv => g[d].size = L[d].size
    BY <2>1 DEF Alike
  <2>3. /\ h[d].start = g[d].start /\ h[d].active = g[d].active /\ h[d].name = g[d].name
        /\ d \notin Partition \cup Lv => h[d].size = g[d].size
    BY <2>1 DEF Retains
  <2> QED BY <2>2, <2>3
<1>2. ASSUME NEW d \in DOMAIN h \ (DOMAIN L \cup MountPoint)
      PROVE  h[d].active = (IF d \in Luks THEN TRUE ELSE FALSE)
  <2>1. CASE d \in DOMAIN g
    <3>1. h[d].active = g[d].active
      BY <2>1 DEF Retains
    <3>2. g[d].active = (IF d \in Luks THEN TRUE ELSE FALSE)
      BY <2>1 DEF Alike
    <3> QED BY <3>1, <3>2
  <2>2. CASE d \notin DOMAIN g
    BY <2>2 DEF Retains
  <2> QED BY <2>1, <2>2
<1> QED BY <1>1, <1>2 DEF Alike

\* Removing devices and adding new ones changes nothing else.
LEMMA RetainedByPieces ==
  ASSUME NEW L, NEW g, \A d \in DOMAIN g : DOMAIN g[d] = Fields
  PROVE  /\ \A S : Retains(L, g, Remove(g, S))
         /\ \A d, r : d \in MountPoint \/ (d \notin DOMAIN L /\ (r.active = (IF d \in Luks THEN TRUE ELSE FALSE)) /\ d \notin DOMAIN g)
                      => Retains(L, g, Add(g, d, r))
<1>1. ASSUME NEW S PROVE Retains(L, g, Remove(g, S))
  BY DEF Retains, Remove, Fields
<1>2. ASSUME NEW d, NEW r, d \in MountPoint \/ (d \notin DOMAIN L /\ (r.active = (IF d \in Luks THEN TRUE ELSE FALSE)) /\ d \notin DOMAIN g)
      PROVE  Retains(L, g, Add(g, d, r))
  <2> DEFINE h == Add(g, d, r)
  <2>1. DOMAIN h = DOMAIN g \cup {d} /\ h[d] = r /\ \A x \in DOMAIN g \ {d} : h[x] = g[x]
    BY DEF Add
  <2> HIDE DEF h
  <2>2. ASSUME NEW x \in DOMAIN h \ MountPoint
        PROVE  /\ x \in DOMAIN g => h[x] = g[x]
               /\ x \notin DOMAIN g => x \notin DOMAIN L /\ (h[x].active = (IF x \in Luks THEN TRUE ELSE FALSE))
    BY <1>2, <2>1
  <2>3. Retains(L, g, h)
    BY <2>2 DEF Retains
  <2> QED BY <2>3 DEF h
<1> QED BY <1>1, <1>2

\* The physical volume of a device is put into a volume group.
LEMMA RetainedByPv ==
  ASSUME NEW L, NEW g, \A d \in DOMAIN g : DOMAIN g[d] = Fields,
         NEW v, NEW pv \in Pv, pv \notin DOMAIN L, pv \notin DOMAIN g, NEW b
  PROVE  Retains(L, g, add_lvm_pv(g, v, b, pv))
<1>1. CASE Children(g, b) = {}
  <2> DEFINE a == Add(g, pv, Blank({b}))
             h == add_lvm_pv(g, v, b, pv)
  <2>1. h = [a EXCEPT ![v].parents = @ \cup {pv}]
    BY <1>1 DEF add_lvm_pv
  <2>2. Blank({b}).active = FALSE /\ pv \notin Luks /\ DOMAIN Blank({b}) = Fields
    BY ClassAssumption, BlankFields DEF Blank
  <2>3. Retains(L, g, a)
    <3>1. Blank({b}).active = (IF pv \in Luks THEN TRUE ELSE FALSE)
      BY <2>2
    <3> QED BY <3>1, RetainedByPieces
  <2>4. \A d \in DOMAIN a : DOMAIN a[d] = Fields
    BY <2>2 DEF Add
  <2> HIDE DEF a, h
  <2>5. /\ DOMAIN h = DOMAIN a
        /\ \A d \in DOMAIN a : /\ h[d].start = a[d].start /\ h[d].active = a[d].active
                               /\ h[d].name = a[d].name /\ h[d].size = a[d].size
    BY <2>1, <2>4 DEF Fields
  <2>6. Retains(L, g, h)
    BY <2>3, <2>5 DEF Retains
  <2> QED BY <2>6 DEF h
<1>2. CASE Children(g, b) # {}
  <2> DEFINE h == add_lvm_pv(g, v, b, pv)
             C == Children(g, b)
  <2>1. h = [g EXCEPT ![v].parents = @ \cup C]
    BY <1>2 DEF add_lvm_pv
  <2> HIDE DEF h, C
  <2>2. /\ DOMAIN h = DOMAIN g
        /\ \A d \in DOMAIN g : /\ h[d].start = g[d].start /\ h[d].active = g[d].active
                               /\ h[d].name = g[d].name /\ h[d].size = g[d].size
    BY <2>1 DEF Fields
  <2>3. Retains(L, g, h)
    BY <2>2 DEF Retains
  <2> QED BY <2>3 DEF h
<1> QED BY <1>1, <1>2

\* The only devices an edit changes in another way than their size are new ones and
\* mount points.
LEMMA EditsRetain ==
  ASSUME Shape(probed), Fits(probed, staging), system = probed, EditStaging
  PROVE  Retains(probed, staging, staging')
<1>1. Shape(staging)
  BY DEF Fits
<1>2. ASSUME NEW g, Edit(g), Retains(probed, staging, g) PROVE Retains(probed, staging, staging')
  BY <1>2 DEF Edit
<1>3. \A d \in DOMAIN staging : DOMAIN staging[d] = Fields
  BY <1>1, BlankFields DEF Shape
<1>4. /\ \A S : Retains(probed, staging, Remove(staging, S))
      /\ \A d, r : d \in MountPoint \/ (d \notin DOMAIN probed /\ (r.active = (IF d \in Luks THEN TRUE ELSE FALSE)) /\ d \notin DOMAIN staging)
                   => Retains(probed, staging, Add(staging, d, r))
  BY <1>3, RetainedByPieces
<1>5. /\ \A S, x : x \in New(S) => x \in S \ (DOMAIN staging \cup DOMAIN probed)
      /\ (Table \cup Partition \cup Pv \cup Vg \cup Lv \cup Filesystem) \cap Luks = {}
  BY ClassAssumption DEF New
\* New devices.
<1>6. ASSUME NEW d, NEW r, d \in Table \cup Partition \cup Lv \cup Filesystem, d \notin DOMAIN staging \cup DOMAIN probed,
             r.active = FALSE, Edit(Add(staging, d, r))
      PROVE  Retains(probed, staging, staging')
  <2>1. r.active = (IF d \in Luks THEN TRUE ELSE FALSE)
    BY <1>5, <1>6
  <2>2. Retains(probed, staging, Add(staging, d, r))
    BY <1>4, <1>6, <2>1
  <2> QED BY <1>2, <1>6, <2>2
<1>7. CASE CreatePartitionTable
  <2>1. PICK d \in In(Disk, staging), t \in New(Table) : Edit(create_partition_table(staging, d, t))
    BY <1>7 DEF CreatePartitionTable
  <2>2. t \in Table /\ t \notin DOMAIN staging \cup DOMAIN probed /\ Blank({d}).active = FALSE
    BY <1>5 DEF Blank
  <2> QED BY <1>6, <2>1, <2>2 DEF create_partition_table
<1>8. CASE CreatePartition
  <2>1. PICK t \in In(Table, staging), p \in New(Partition), size \in PartitionSize :
           \E start \in Unused(staging, t, p) : Edit(create_partition(staging, t, p, start, size))
    BY <1>8 DEF CreatePartition
  <2>2. PICK start \in Unused(staging, t, p) : Edit(create_partition(staging, t, p, start, size))
    BY <2>1
  <2> DEFINE number == FreeNumber(staging, t)
             r == [Blank({t}) EXCEPT !.start = start, !.size = size, !.name = number]
  <2>3. create_partition(staging, t, p, start, size) = Add(staging, p, r)
    BY DEF create_partition
  <2> HIDE DEF number
  <2>4. p \in Partition /\ p \notin DOMAIN staging \cup DOMAIN probed /\ r.active = FALSE
    BY <1>5 DEF Blank
  <2> HIDE DEF r
  <2> QED BY <1>6, <2>2, <2>3, <2>4
<1>9. CASE CreateBlkFilesystem
  <2>1. PICK b \in Usable, f \in New(Filesystem) : Edit(create_blk_filesystem(staging, b, f))
    BY <1>9 DEF CreateBlkFilesystem
  <2>2. f \in Filesystem /\ f \notin DOMAIN staging \cup DOMAIN probed /\ Blank({b}).active = FALSE
    BY <1>5 DEF Blank
  <2> QED BY <1>6, <2>1, <2>2 DEF create_blk_filesystem
<1>10. CASE CreateLvmLv
  <2>1. PICK v \in In(Vg, staging), lv \in New(Lv), name \in LvName, size \in LvSize :
           Edit(create_lvm_lv(staging, v, lv, name, size))
    BY <1>10 DEF CreateLvmLv
  <2> DEFINE r == [Blank({v}) EXCEPT !.name = name, !.size = size]
  <2>2. lv \in Lv /\ lv \notin DOMAIN staging \cup DOMAIN probed /\ r.active = FALSE
    BY <1>5 DEF Blank
  <2>3. create_lvm_lv(staging, v, lv, name, size) = Add(staging, lv, r)
    BY DEF create_lvm_lv
  <2> HIDE DEF r
  <2> QED BY <1>6, <2>1, <2>2, <2>3
<1>11. CASE CreateMountPoint
  <2>1. PICK f \in In(Filesystem, staging), m \in New(MountPoint) : \E r : Edit(Add(staging, m, r))
    BY <1>11 DEF CreateMountPoint, create_mount_point
  <2>2. m \in MountPoint
    BY <1>5
  <2> QED BY <1>2, <1>4, <2>1, <2>2
<1>12. CASE CreateEncryption
  <2>1. PICK b \in In(Partition \cup Lv, staging), l \in New(Luks), listed \in BOOLEAN :
           Edit(create_encryption(staging, b, l, listed))
    BY <1>12 DEF CreateEncryption
  <2> DEFINE moved == [d \in DOMAIN staging |-> IF d \in Children(staging, b) THEN [staging[d] EXCEPT !.parents = {l}]
                                                                            ELSE staging[d]]
             r == [Blank({b}) EXCEPT !.active = TRUE, !.listed = listed]
  <2>2. create_encryption(staging, b, l, listed) = Add(moved, l, r)
    BY DEF create_encryption
  <2>3. l \in Luks /\ l \notin DOMAIN staging \cup DOMAIN probed /\ r.active = TRUE
    BY <1>5 DEF Blank
  <2>4. /\ DOMAIN moved = DOMAIN staging
        /\ \A d \in DOMAIN staging : /\ DOMAIN moved[d] = Fields
                                     /\ moved[d].start = staging[d].start /\ moved[d].active = staging[d].active
                                     /\ moved[d].name = staging[d].name /\ moved[d].size = staging[d].size
    BY <1>3 DEF Fields
  <2> HIDE DEF r, moved
  <2>5. Retains(probed, moved, Add(moved, l, r))
    BY <2>3, <2>4, RetainedByPieces
  <2>6. Retains(probed, staging, Add(moved, l, r))
    <3> DEFINE h == Add(moved, l, r)
    <3> HIDE DEF h
    <3>1. Retains(probed, moved, h)
      BY <2>5 DEF h
    <3>2. ASSUME NEW d \in DOMAIN h \ MountPoint
          PROVE  /\ d \in DOMAIN staging =>
                      /\ h[d].start = staging[d].start /\ h[d].active = staging[d].active
                      /\ d \in DOMAIN probed => h[d].name = staging[d].name
                      /\ d \notin Partition \cup Lv => h[d].size = staging[d].size
                 /\ d \notin DOMAIN staging =>
                      d \notin DOMAIN probed /\ (h[d].active = (IF d \in Luks THEN TRUE ELSE FALSE))
      <4>1. CASE d \in DOMAIN staging
        <5>1. /\ h[d].start = moved[d].start /\ h[d].active = moved[d].active
              /\ d \in DOMAIN probed => h[d].name = moved[d].name
              /\ d \notin Partition \cup Lv => h[d].size = moved[d].size
          BY <2>4, <3>1, <3>2, <4>1 DEF Retains
        <5> QED BY <2>4, <4>1, <5>1
      <4>2. CASE d \notin DOMAIN staging
        BY <2>4, <3>1, <3>2, <4>2 DEF Retains
      <4> QED BY <4>1, <4>2
    <3>3. Retains(probed, staging, h)
      BY <3>2 DEF Retains
    <3> QED BY <3>3 DEF h
  <2> QED BY <1>2, <2>1, <2>2, <2>6
\* Attributes.
<1>13. ASSUME NEW d, NEW n, NEW g, Edit(g),
             \/ d \in Partition \cup Lv /\ g = set_size(staging, d, n)
             \/ d \in MountPoint /\ (g = set_active(staging, d, n) \/ g = set_path(staging, d, n))
             \/ g = set_in_etc_fstab(staging, d, n) \/ g = set_in_etc_crypttab(staging, d, n)
      PROVE  Retains(probed, staging, staging')
  <2>1. DOMAIN g = DOMAIN staging
    BY <1>13 DEF set_size, set_active, set_path, set_in_etc_fstab, set_in_etc_crypttab
  <2>2. ASSUME NEW x \in DOMAIN staging \ MountPoint
        PROVE  /\ g[x].start = staging[x].start /\ g[x].active = staging[x].active /\ g[x].name = staging[x].name
               /\ x \notin Partition \cup Lv => g[x].size = staging[x].size
    BY <1>3, <1>13, <2>2 DEF set_size, set_active, set_path, set_in_etc_fstab, set_in_etc_crypttab, Fields
  <2>3. Retains(probed, staging, g)
    BY <2>1, <2>2 DEF Retains
  <2> QED BY <1>2, <1>13, <2>3
<1>14. CASE ResizePartition
  <2>1. PICK p \in In(Partition, staging), size \in PartitionSize : Edit(set_size(staging, p, size))
    BY <1>14 DEF ResizePartition
  <2>2. p \in Partition \cup Lv
    BY DEF In
  <2> QED BY <1>13, <2>1, <2>2
<1>15. CASE ResizeLvmLv
  <2>1. PICK lv \in In(Lv, staging), size \in LvSize : Edit(set_size(staging, lv, size))
    BY <1>15 DEF ResizeLvmLv
  <2>2. lv \in Partition \cup Lv
    BY DEF In
  <2> QED BY <1>13, <2>1, <2>2
<1>16. CASE SetPath \/ SetActive
  <2>1. \E m \in In(MountPoint, staging) : \E n : Edit(set_active(staging, m, n)) \/ Edit(set_path(staging, m, n))
    BY <1>16 DEF SetPath, SetActive
  <2>2. PICK m \in In(MountPoint, staging) : \E n : Edit(set_active(staging, m, n)) \/ Edit(set_path(staging, m, n))
    BY <2>1
  <2>3. PICK n : Edit(set_active(staging, m, n)) \/ Edit(set_path(staging, m, n))
    BY <2>2
  <2>4. m \in MountPoint
    BY DEF In
  <2> QED BY <1>13, <2>3, <2>4
<1>17. CASE SetInEtcFstab \/ SetInEtcCrypttab
  <2>1. \E d, n : Edit(set_in_etc_fstab(staging, d, n)) \/ Edit(set_in_etc_crypttab(staging, d, n))
    BY <1>17 DEF SetInEtcFstab, SetInEtcCrypttab
  <2> QED BY <1>13, <2>1
\* Volume groups.
<1>18. CASE AddLvmPv
  <2>1. PICK v \in In(Vg, staging), pv \in New(Pv), b \in In(Partition, staging) :
           Edit(add_lvm_pv(staging, v, b, pv))
    BY <1>18 DEF AddLvmPv
  <2>2. pv \in Pv /\ pv \notin DOMAIN staging /\ pv \notin DOMAIN probed
    BY <1>5
  <2>3. Retains(probed, staging, add_lvm_pv(staging, v, b, pv))
    BY <1>3, <2>2, RetainedByPv
  <2> QED BY <1>2, <2>1, <2>3
<1>19. CASE CreateLvmVg
  <2>1. PICK v \in New(Vg), pv \in New(Pv), name \in VgName, b \in Usable :
           Edit(add_lvm_pv(create_lvm_vg(staging, v, name), v, b, pv))
    BY <1>19 DEF CreateLvmVg
  <2> DEFINE g == create_lvm_vg(staging, v, name)
             r == [Blank({}) EXCEPT !.name = name]
             h == add_lvm_pv(g, v, b, pv)
  <2>2. g = Add(staging, v, r) /\ DOMAIN r = Fields /\ r.active = FALSE
    BY BlankFields DEF create_lvm_vg, Blank
  <2>3. /\ v \in Vg /\ v \notin DOMAIN staging \cup DOMAIN probed /\ v \notin Luks
        /\ pv \in Pv /\ pv \notin DOMAIN staging \cup DOMAIN probed /\ pv # v
    BY <1>5, ClassAssumption
  <2> HIDE DEF g, r
  <2>4. Retains(probed, staging, g)
    <3>1. r.active = (IF v \in Luks THEN TRUE ELSE FALSE)
      BY <2>2, <2>3
    <3> QED BY <1>4, <2>2, <2>3, <3>1
  <2>5. (\A d \in DOMAIN g : DOMAIN g[d] = Fields) /\ DOMAIN g = DOMAIN staging \cup {v}
    BY <1>3, <2>2 DEF Add
  <2>6. Retains(probed, g, h)
    <3>1. pv \notin DOMAIN probed /\ pv \notin DOMAIN g
      BY <2>3, <2>5
    <3> QED BY <2>3, <2>5, <3>1, RetainedByPv
  <2> HIDE DEF h
  <2>7. Retains(probed, staging, h)
    <3>1. ASSUME NEW d \in DOMAIN h \ MountPoint, d \in DOMAIN staging
          PROVE  /\ h[d].start = staging[d].start /\ h[d].active = staging[d].active
                 /\ d \in DOMAIN probed => h[d].name = staging[d].name
                 /\ d \notin Partition \cup Lv => h[d].size = staging[d].size
      <4>1. d \in DOMAIN g \ MountPoint
        BY <2>5, <3>1
      <4>2. /\ h[d].start = g[d].start /\ h[d].active = g[d].active
            /\ d \in DOMAIN probed => h[d].name = g[d].name
            /\ d \notin Partition \cup Lv => h[d].size = g[d].size
        BY <2>6, <4>1 DEF Retains
      <4>3. /\ g[d].start = staging[d].start /\ g[d].active = staging[d].active
            /\ d \in DOMAIN probed => g[d].name = staging[d].name
            /\ d \notin Partition \cup Lv => g[d].size = staging[d].size
        BY <2>4, <3>1, <4>1 DEF Retains
      <4> QED BY <4>2, <4>3
    <3>2. ASSUME NEW d \in DOMAIN h \ MountPoint, d \notin DOMAIN staging
          PROVE  d \notin DOMAIN probed /\ (h[d].active = (IF d \in Luks THEN TRUE ELSE FALSE))
      <4>1. CASE d \in DOMAIN g
        <5>1. h[d].active = g[d].active
          BY <2>6, <4>1 DEF Retains
        <5>2. d \notin DOMAIN probed /\ (g[d].active = (IF d \in Luks THEN TRUE ELSE FALSE))
          BY <2>4, <3>2, <4>1 DEF Retains
        <5> QED BY <5>1, <5>2
      <4>2. CASE d \notin DOMAIN g
        BY <2>6, <4>2 DEF Retains
      <4> QED BY <4>1, <4>2
    <3> QED BY <3>1, <3>2 DEF Retains
  <2> QED BY <1>2, <2>1, <2>7 DEF g, h
\* Devices are removed.
<1>20. CASE RemoveDescendants \/ RemoveMountPoint \/ RemoveLvmPv \/ DeleteLvm
  <2>1. PICK S : Edit(Remove(staging, S))
    BY <1>20 DEF RemoveDescendants, RemoveMountPoint, RemoveLvmPv, DeleteLvm,
                 remove_descendants, remove_lvm_pv, delete_device
  <2> QED BY <1>2, <1>4, <2>1
<1>21. CASE DeletePartition
  <2>1. PICK p \in In(Partition, staging) : Edit(delete_partition(staging, system, p))
    BY <1>21 DEF DeletePartition
  <2> DEFINE rest == Remove(staging, Descendants(staging, p) \cup {p})
             moving == {c \in Children(rest, Parent(staging, p)) : /\ staging[c].name > staging[p].name
                                                                   /\ c \notin DOMAIN system}
             number(c) ==
               LET lower == {staging[b].name : b \in {x \in moving : staging[x].name < staging[c].name}}
               IN  CHOOSE n \in lower \cup {staging[p].name} : \A m \in lower : m <= n
             g == delete_partition(staging, system, p)
  <2>2. g = [c \in DOMAIN rest |-> IF c \in moving THEN [rest[c] EXCEPT !.name = number(c)] ELSE rest[c]]
    BY DEF delete_partition
  <2>3. Retains(probed, staging, rest)
    BY <1>4
  <2>4. \A d \in DOMAIN rest : DOMAIN rest[d] = Fields /\ d \in DOMAIN staging
    BY <1>3 DEF Remove, Fields
  <2>5. \A c \in moving : c \notin DOMAIN probed
    OBVIOUS
  <2> HIDE DEF g, rest, moving, number
  <2>6. /\ DOMAIN g = DOMAIN rest
        /\ \A c \in DOMAIN rest : /\ g[c].start = rest[c].start /\ g[c].active = rest[c].active
                                  /\ g[c].size = rest[c].size
                                  /\ c \in DOMAIN probed => g[c].name = rest[c].name
    BY <2>2, <2>4, <2>5 DEF Fields
  <2>7. Retains(probed, staging, g)
    BY <2>3, <2>4, <2>6 DEF Retains
  <2> QED BY <1>2, <2>1, <2>7 DEF g
<1> QED BY <1>7, <1>8, <1>9, <1>10, <1>11, <1>12, <1>14, <1>15, <1>16, <1>17, <1>18, <1>19, <1>20, <1>21 DEF EditStaging

-----------------------------------------------------------------------------
(* The actions that resize.                                                *)

ResizeOp(L, R, b) == IF Size(R, b) < Size(L, b) THEN "shrink" ELSE "grow"

\* What is resized with b, from b up.
Stack(L, R, b) == {b} \cup (LuksOn(R, b) \cap DOMAIN L) \cup (ContentOn(R, b) \cap DOMAIN L)

\* On a partition or logical volume is one LUKS at most, and one content at most:
\* on the LUKS if there is one.
LEMMA ContentIsOn ==
  ASSUME NEW g, Shape(g), NEW b \in (Partition \cup Lv) \cap DOMAIN g
  PROVE  /\ \A x, y \in LuksOn(g, b) : x = y
         /\ \A x, y \in ContentOn(g, b) : x = y
         /\ \A d : d \in LuksOn(g, b) <=> d \in Luks \cap DOMAIN g /\ b \in g[d].parents
         /\ \A d : d \in ContentOn(g, b) <=> /\ d \in (Pv \cup Filesystem) \cap DOMAIN g
                                             /\ \E p \in {b} \cup LuksOn(g, b) : p \in g[d].parents
<1>1. b \in In(Blk, g) /\ \A c \in In(Blk, g) : \A x, y \in Children(g, c) : x = y
  BY DEF In, Blk, Shape, Exclusive
<1>2. \A x, y \in LuksOn(g, b) : x = y
  BY <1>1 DEF LuksOn
<1>3. \A d : d \in LuksOn(g, b) <=> d \in Luks \cap DOMAIN g /\ b \in g[d].parents
  BY DEF LuksOn, Children
<1> DEFINE C == Pv \cup Filesystem
           p == IF LuksOn(g, b) = {} THEN b ELSE CHOOSE l \in LuksOn(g, b) : TRUE
<1>4. C \cap Luks = {}
  BY ClassAssumption
<1>5. ContentOn(g, b) = Children(g, p) \cap C
  BY DEF ContentOn
<1>6. p \in In(Blk, g) /\ p \in {b} \cup LuksOn(g, b) /\ (LuksOn(g, b) # {} => p \in LuksOn(g, b))
  <2>1. LuksOn(g, b) # {} => p \in LuksOn(g, b)
    OBVIOUS
  <2> HIDE DEF p
  <2>2. LuksOn(g, b) \subseteq In(Blk, g)
    BY <1>3 DEF In, Blk
  <2>3. LuksOn(g, b) = {} => p = b
    BY DEF p
  <2> QED BY <1>1, <2>1, <2>2, <2>3
<1> HIDE DEF C, p
<1>7. \A x, y \in ContentOn(g, b) : x = y
  BY <1>1, <1>5, <1>6
<1>8. ASSUME NEW d, d \in ContentOn(g, b)
      PROVE  d \in C \cap DOMAIN g /\ \E q \in {b} \cup LuksOn(g, b) : q \in g[d].parents
  BY <1>5, <1>6, <1>8 DEF Children
<1>9. ASSUME NEW d \in C \cap DOMAIN g, NEW q \in {b} \cup LuksOn(g, b), q \in g[d].parents
      PROVE  d \in ContentOn(g, b)
  <2>1. CASE LuksOn(g, b) = {}
    <3>1. q = b /\ p = b
      BY <2>1, <1>6
    <3> QED BY <1>5, <1>9, <3>1 DEF Children
  <2>2. CASE LuksOn(g, b) # {}
    <3>1. p \in LuksOn(g, b) /\ p \in Children(g, b) /\ p \in Luks
      BY <1>6, <2>2 DEF LuksOn
    <3>2. q # b
      <4> SUFFICES ASSUME q = b PROVE FALSE
        OBVIOUS
      <4>1. d \in Children(g, b)
        BY <1>9 DEF Children
      <4>2. d = p
        BY <1>1, <3>1, <4>1
      <4> QED BY <1>4, <1>9, <3>1, <4>2
    <3>3. q = p
      BY <1>2, <3>1, <3>2
    <3> QED BY <1>5, <1>9, <3>3 DEF Children
  <2> QED BY <2>1, <2>2
<1> QED BY <1>2, <1>3, <1>7, <1>8, <1>9 DEF C

\* What stays is on the same device in both graphs.
LEMMA SameStack ==
  ASSUME NEW L, NEW R, Shape(L), Fits(L, R), NEW b \in (Partition \cup Lv) \cap DOMAIN L \cap DOMAIN R
  PROVE  /\ LuksOn(L, b) \cap DOMAIN R = LuksOn(R, b) \cap DOMAIN L
         /\ ContentOn(L, b) \cap DOMAIN R = ContentOn(R, b) \cap DOMAIN L
<1>1. /\ Shape(R)
      /\ \A d \in (DOMAIN L \cap DOMAIN R) \ Vg : R[d].parents = L[d].parents
  BY DEF Fits, Kept
<1>2. Vg \cap Luks = {} /\ Vg \cap (Pv \cup Filesystem) = {}
  BY ClassAssumption
<1>3. \A g \in {L, R} :
         /\ Shape(g)
         /\ \A d : d \in LuksOn(g, b) <=> d \in Luks \cap DOMAIN g /\ b \in g[d].parents
         /\ \A d : d \in ContentOn(g, b) <=> /\ d \in (Pv \cup Filesystem) \cap DOMAIN g
                                             /\ \E p \in {b} \cup LuksOn(g, b) : p \in g[d].parents
  <2>1. ASSUME NEW g \in {L, R} PROVE Shape(g) /\ b \in (Partition \cup Lv) \cap DOMAIN g
    BY <1>1
  <2> QED BY <2>1, ContentIsOn
<1>4. LuksOn(L, b) \cap DOMAIN R = LuksOn(R, b) \cap DOMAIN L
  BY <1>1, <1>2, <1>3
<1>5. ASSUME NEW g \in {L, R}, NEW h \in {L, R}, NEW d \in ContentOn(g, b) \cap DOMAIN h
      PROVE  d \in ContentOn(h, b)
  <2>1. /\ d \in (Pv \cup Filesystem) \cap DOMAIN g
        /\ \E p \in {b} \cup LuksOn(g, b) : p \in g[d].parents
    BY <1>3
  <2>2. PICK p \in {b} \cup LuksOn(g, b) : p \in g[d].parents
    BY <2>1
  <2>3. h[d].parents = g[d].parents
    BY <1>1, <1>2, <2>1
  <2>4. p \in DOMAIN h
    BY <1>3, <2>2, <2>3 DEF Shape, Placed
  <2>5. p \in {b} \cup LuksOn(h, b)
    BY <1>4, <2>2, <2>4
  <2> QED BY <1>3, <2>1, <2>2, <2>3, <2>5
<1>6. ContentOn(L, b) \cap DOMAIN R = ContentOn(R, b) \cap DOMAIN L
  <2>1. ContentOn(L, b) \subseteq DOMAIN L /\ ContentOn(R, b) \subseteq DOMAIN R
    BY <1>3
  <2> QED BY <1>5, <2>1
<1> QED BY <1>4, <1>6

\* A device is resized with one partition or logical volume only.
LEMMA OneStack ==
  ASSUME NEW L, NEW R, Shape(R),
         NEW b \in (Partition \cup Lv) \cap DOMAIN R, NEW c \in (Partition \cup Lv) \cap DOMAIN R,
         NEW d, d \in Stack(L, R, b), d \in Stack(L, R, c)
  PROVE  b = c
<1>1. \A x \in {b, c} :
         /\ \A y : y \in LuksOn(R, x) <=> y \in Luks \cap DOMAIN R /\ x \in R[y].parents
         /\ \A y : y \in ContentOn(R, x) <=> /\ y \in (Pv \cup Filesystem) \cap DOMAIN R
                                             /\ \E p \in {x} \cup LuksOn(R, x) : p \in R[y].parents
  <2>1. ASSUME NEW x \in {b, c} PROVE x \in (Partition \cup Lv) \cap DOMAIN R
    OBVIOUS
  <2> QED BY <2>1, ContentIsOn
<1>2. \A x \in {b, c} : d = x \/ d \in LuksOn(R, x) \/ d \in ContentOn(R, x)
  BY DEF Stack
<1>3. /\ (Partition \cup Lv) \cap (Luks \cup Pv \cup Filesystem) = {}
      /\ Luks \cap (Pv \cup Filesystem) = {}
  BY ClassAssumption
<1>4. \A y \in DOMAIN R : y \in Luks \cup Pv \cup Filesystem => \E q : R[y].parents = {q}
  <2>1. (Luks \cup Pv \cup Filesystem) \cap (Disk \cup Vg) = {}
    BY ClassAssumption
  <2> QED BY <2>1 DEF Shape, Placed
<1>5. CASE d \in Partition \cup Lv
  BY <1>1, <1>2, <1>3, <1>5
<1>6. CASE d \in Luks
  <2>1. d \in DOMAIN R /\ b \in R[d].parents /\ c \in R[d].parents
    BY <1>1, <1>2, <1>3, <1>6
  <2> QED BY <1>4, <1>6, <2>1
<1>7. CASE d \in Pv \cup Filesystem
  <2>1. /\ d \in DOMAIN R
        /\ \E p \in {b} \cup LuksOn(R, b) : p \in R[d].parents
        /\ \E p \in {c} \cup LuksOn(R, c) : p \in R[d].parents
    BY <1>1, <1>2, <1>3, <1>7
  <2>2. PICK q : R[d].parents = {q}
    BY <1>4, <1>7, <2>1
  <2>3. q \in {b} \cup LuksOn(R, b) /\ q \in {c} \cup LuksOn(R, c)
    BY <2>1, <2>2
  <2>4. CASE q \in Luks
    <3>1. q \in DOMAIN R /\ b \in R[q].parents /\ c \in R[q].parents
      BY <1>1, <1>3, <2>3, <2>4
    <3> QED BY <1>4, <2>4, <3>1
  <2>5. CASE q \notin Luks
    BY <1>1, <2>3, <2>5
  <2> QED BY <2>4, <2>5
<1> QED BY <1>1, <1>2, <1>5, <1>6, <1>7

\* What is ordered in the second part of a list is ordered in the list.
LEMMA JoinedAfter ==
  ASSUME NEW X, NEW s \in Seq(X), NEW t \in Seq(X), NEW x, NEW y, Follows(t, x, y)
  PROVE  Follows(s \o t, x, y)
<1>1. /\ Len(s) \in Nat /\ Len(t) \in Nat /\ Len(s \o t) = Len(s) + Len(t)
      /\ DOMAIN s = 1 .. Len(s) /\ DOMAIN t = 1 .. Len(t) /\ DOMAIN (s \o t) = 1 .. Len(s) + Len(t)
  BY ConcatProperties
<1>2. \A j \in DOMAIN t : j + Len(s) \in DOMAIN (s \o t) /\ (s \o t)[j + Len(s)] = t[j]
  BY <1>1
<1> DEFINE u == s \o t
<1>3. \A j \in DOMAIN t : j + Len(s) \in DOMAIN u /\ u[j + Len(s)] = t[j]
  BY <1>2
<1> HIDE DEF u
<1>4. PICK i, j \in DOMAIN t : i < j /\ t[i] = x /\ t[j] = y
  BY DEF Follows
<1>5. i + Len(s) < j + Len(s)
  BY <1>1, <1>4
<1>6. Follows(u, x, y)
  BY <1>3, <1>4, <1>5 DEF Follows
<1> QED BY <1>6 DEF u

\* What is in a joined list.
LEMMA JoinedElements ==
  ASSUME NEW X, NEW s \in Seq(X), NEW t \in Seq(X)
  PROVE  /\ s \o t \in Seq(X)
         /\ \A a : a \in Elements(s \o t) <=> a \in Elements(s) \/ a \in Elements(t)
<1>1. s \o t \in Seq(X)
  BY ConcatProperties
<1> QED BY <1>1, JoinedOrder, ElementsOf

\* A resize is one of all that is on the device and stays; what is on it grows
\* after what it is on.
LEMMA ResizeSizes ==
  ASSUME NEW L, NEW R, Shape(L), Fits(L, R), NEW b \in Resizing(L, R)
  PROVE  LET s == ResizeChain(L, R, b).actions
             op == ResizeOp(L, R, b)
             l == LuksOn(R, b) \cap DOMAIN L
             c == ContentOn(R, b) \cap DOMAIN L
         IN  /\ \A a : is_resize(a) => (a \in Elements(s) <=> \E d \in Stack(L, R, b) : a = Act(op, d))
             /\ op = "grow" => \A d \in l \cup c : Follows(s, Act(op, b), Act(op, d))
             /\ op = "grow" => \A x \in l, d \in c : Follows(s, Act(op, x), Act(op, d))
<1> DEFINE s == ResizeChain(L, R, b).actions
           op == ResizeOp(L, R, b)
           l == LuksOn(R, b) \cap DOMAIN L
           c == ContentOn(R, b) \cap DOMAIN L
           X == ResizeActs(L, R)
           unmount == ~ devices_to_resize(R, b) \cap Filesystem
                          \subseteq (IF Size(R, b) < Size(L, b) THEN OnlineShrink ELSE OnlineGrow)
           first == IF unmount THEN InsertMountAction("unmount", L, R, devices_to_resize(L, b)) ELSE << >>
           last == IF unmount THEN InsertMountAction("mount", R, L, devices_to_resize(R, b)) ELSE << >>
           middle == IF Size(R, b) < Size(L, b) THEN Shrinks(L, R, b) \o <<Act("shrink", b)>>
                                                ELSE <<Act("grow", b)>> \o Grows(L, R, b)
<1>1. s = first \o middle \o last
  BY DEF ResizeChain, Chain
<1>2. b \in Device /\ b \in (Partition \cup Lv) \cap DOMAIN L \cap DOMAIN R /\ b \in (Partition \cup Lv) \cap DOMAIN R /\ Shape(R)
  BY DEF Resizing, Device, Blk, Fits
<1>3. LuksOn(L, b) \cap DOMAIN R = l /\ ContentOn(L, b) \cap DOMAIN R = c
  BY <1>2, SameStack
<1>4. /\ \A x, y \in l : x = y
      /\ \A x, y \in c : x = y
  BY <1>2, ContentIsOn
<1>5. l \subseteq Device /\ c \subseteq Device
  BY DEF LuksOn, ContentOn, Device, Blk
<1>6. /\ \A o \in {"shrink", "grow"}, d \in Device : Act(o, d) \in X
      /\ \A m \in MountPoint \cap DOMAIN R : Act("mount", m) \in X
      /\ \A m \in MountPoint \cap DOMAIN L : Act("unmount", m) \in X
  BY InActs DEF ResizeActs
<1>7. /\ first \in Seq(X) /\ last \in Seq(X)
      /\ \A a \in Elements(first) \cup Elements(last) : ~ is_resize(a)
  <2> DEFINE Y == Acts({"unmount", "mount"}, MountPoint)
  <2>1. \A o \in {"unmount", "mount"} : \A m \in MountPoint : Act(o, m) \in Y
    BY InActs
  <2>2. \A a \in Y : ~ is_resize(a)
    BY InActs DEF is_resize
  <2> HIDE DEF Y
  <2>3. \A g, h, S : /\ InsertMountAction("unmount", g, h, S) \in Seq(Y)
                     /\ InsertMountAction("mount", g, h, S) \in Seq(Y)
    BY <2>1, Pieces DEF InsertMountAction
  <2>4. \A S : InsertMountAction("mount", R, L, S) \in Seq(X) /\ InsertMountAction("unmount", L, R, S) \in Seq(X)
    <3> HIDE DEF X
    <3> QED BY <1>6, Pieces DEF InsertMountAction
  <2>5. first \in Seq(Y) /\ last \in Seq(Y)
    <3>1. << >> \in Seq(Y)
      OBVIOUS
    <3> HIDE DEF unmount
    <3> QED BY <2>3, <3>1
  <2>6. first \in Seq(X) /\ last \in Seq(X)
    <3>1. << >> \in Seq(X)
      OBVIOUS
    <3> HIDE DEF unmount, X
    <3> QED BY <2>4, <3>1
  <2> HIDE DEF first, last, X
  <2> QED BY <2>2, <2>5, <2>6, InChain
<1> HIDE DEF first, last, unmount
<1>8. \A o : /\ \A a : a \in Elements(One(o, l)) <=> \E x \in l : a = Act(o, x)
             /\ \A a : a \in Elements(One(o, c)) <=> \E x \in c : a = Act(o, x)
  BY <1>4, OneAction
<1>9. \A o, d : Elements(<<Act(o, d)>>) = {Act(o, d)}
  BY DEF Elements
<1> HIDE DEF l, c, X
<1>10. \A o \in {"shrink", "grow"} : One(o, l) \in Seq(X) /\ One(o, c) \in Seq(X) /\ <<Act(o, b)>> \in Seq(X)
  <2>1. \A o \in {"shrink", "grow"} : \A T \in SUBSET Device : One(o, T) \in Seq(X)
    BY <1>6, Pieces
  <2>2. \A o \in {"shrink", "grow"} : Act(o, b) \in X
    BY <1>2, <1>6
  <2> QED BY <1>5, <2>1, <2>2
<1>11. /\ middle \in Seq(X)
       /\ \A a : a \in Elements(middle) <=> \E d \in {b} \cup l \cup c : a = Act(op, d)
       /\ op = "grow" => /\ \A d \in l \cup c : Follows(middle, Act(op, b), Act(op, d))
                         /\ \A x \in l, d \in c : Follows(middle, Act(op, x), Act(op, d))
  <2>1. CASE Size(R, b) < Size(L, b)
    <3>1. op = "shrink" /\ middle = One(op, c) \o One(op, l) \o <<Act(op, b)>>
      BY <1>3, <2>1 DEF ResizeOp, Shrinks
    <3> HIDE DEF op, middle
    <3>2. One(op, c) \in Seq(X) /\ One(op, l) \in Seq(X) /\ <<Act(op, b)>> \in Seq(X)
      BY <1>10, <3>1
    <3> DEFINE t == One(op, c) \o One(op, l)
    <3>3. t \in Seq(X) /\ \A a : a \in Elements(t) <=> a \in Elements(One(op, c)) \/ a \in Elements(One(op, l))
      BY <3>2, JoinedElements
    <3> HIDE DEF t
    <3>6. middle = t \o <<Act(op, b)>>
      BY <3>1 DEF t
    <3>4. /\ middle \in Seq(X)
          /\ \A a : a \in Elements(middle) <=> a \in Elements(t) \/ a \in Elements(<<Act(op, b)>>)
      BY <3>2, <3>3, <3>6, JoinedElements
    <3>5. \A a : a \in Elements(middle) <=> \E d \in {b} \cup l \cup c : a = Act(op, d)
      BY <1>8, <1>9, <3>3, <3>4
    <3> QED BY <3>1, <3>4, <3>5
  <2>2. CASE ~ Size(R, b) < Size(L, b)
    <3>1. op = "grow" /\ middle = <<Act(op, b)>> \o (One(op, l) \o One(op, c))
      BY <2>2 DEF ResizeOp, Grows, l, c
    <3> HIDE DEF op, middle
    <3>2. One(op, c) \in Seq(X) /\ One(op, l) \in Seq(X) /\ <<Act(op, b)>> \in Seq(X)
      BY <1>10, <3>1
    <3> DEFINE t == One(op, l) \o One(op, c)
    <3>3. t \in Seq(X) /\ \A a : a \in Elements(t) <=> a \in Elements(One(op, l)) \/ a \in Elements(One(op, c))
      BY <3>2, JoinedElements
    <3>4. \A x \in l, d \in c : Follows(t, Act(op, x), Act(op, d))
      <4>1. \A x \in Elements(One(op, l)), y \in Elements(One(op, c)) : Follows(t, x, y)
        BY <3>2, JoinedOrder
      <4> HIDE DEF t
      <4> QED BY <1>8, <4>1
    <3> HIDE DEF t
    <3>5. middle = <<Act(op, b)>> \o t
      BY <3>1 DEF t
    <3>6. /\ middle \in Seq(X)
          /\ \A a : a \in Elements(middle) <=> a \in Elements(<<Act(op, b)>>) \/ a \in Elements(t)
      BY <3>2, <3>3, <3>5, JoinedElements
    <3>7. \A a : a \in Elements(middle) <=> \E d \in {b} \cup l \cup c : a = Act(op, d)
      BY <1>8, <1>9, <3>3, <3>6
    <3>8. \A d \in l \cup c : Follows(middle, Act(op, b), Act(op, d))
      <4>1. \A x \in Elements(<<Act(op, b)>>), y \in Elements(t) : Follows(middle, x, y)
        BY <3>2, <3>3, <3>5, JoinedOrder
      <4>2. Act(op, b) \in Elements(<<Act(op, b)>>)
        BY <1>9
      <4>3. \A d \in l \cup c : Act(op, d) \in Elements(t)
        BY <1>8, <3>3
      <4> QED BY <4>1, <4>2, <4>3
    <3>9. \A x \in l, d \in c : Follows(middle, Act(op, x), Act(op, d))
      BY <3>2, <3>3, <3>4, <3>5, JoinedAfter
    <3> QED BY <3>1, <3>6, <3>7, <3>8, <3>9
  <2> QED BY <2>1, <2>2
<1> HIDE DEF middle, s
<1>12. first \o middle \in Seq(X) /\ \A a : a \in Elements(first \o middle) <=> a \in Elements(first) \/ a \in Elements(middle)
  <2>1. first \in Seq(X) /\ middle \in Seq(X)
    BY <1>7, <1>11
  <2> QED BY <2>1, JoinedElements
<1>13. \A a : a \in Elements(s) <=> a \in Elements(first \o middle) \/ a \in Elements(last)
  <2>1. first \o middle \in Seq(X) /\ last \in Seq(X) /\ s = (first \o middle) \o last
    BY <1>1, <1>7, <1>12
  <2> QED BY <2>1, JoinedElements
<1>14. \A x, y : Follows(middle, x, y) => Follows(s, x, y)
  <2>1. \A x, y : Follows(middle, x, y) => Follows(first \o middle, x, y)
    BY <1>7, <1>11, JoinedAfter
  <2>2. \A x, y : Follows(first \o middle, x, y) => Follows(s, x, y)
    BY <1>1, <1>7, <1>12, JoinedOrder
  <2> QED BY <2>1, <2>2
<1>15. Stack(L, R, b) = {b} \cup l \cup c
  BY DEF Stack, l, c
<1>16. \A a : is_resize(a) => (a \in Elements(s) <=> \E d \in Stack(L, R, b) : a = Act(op, d))
  <2> HIDE DEF op
  <2>1. ASSUME NEW a, is_resize(a) PROVE a \in Elements(s) <=> a \in Elements(middle)
    BY <1>7, <1>12, <1>13, <2>1
  <2> QED BY <1>11, <1>15, <2>1
<1> QED BY <1>11, <1>14, <1>16 DEF s, l, c

\* The actions that resize: of all that is on the partitions and logical volumes
\* whose size changes.
LEMMA ResizeFrom ==
  ASSUME NEW L, NEW R, Shape(L), Fits(L, R), NEW a, is_resize(a)
  PROVE  a \in Actions(L, R) <=> \E b \in Resizing(L, R) : \E d \in Stack(L, R, b) : a = Act(ResizeOp(L, R, b), d)
<1>1. \A b \in Resizing(L, R) :
         a \in Elements(ResizeChain(L, R, b).actions) <=> \E d \in Stack(L, R, b) : a = Act(ResizeOp(L, R, b), d)
  BY ResizeSizes
<1>2. \A b \in Resizing(L, R) : a \in Elements(ResizeChain(L, R, b).actions) => a \in Actions(L, R)
  BY ChainOf
<1>3. a.op \in {"shrink", "grow"}
  BY DEF is_resize
<1>4. ASSUME NEW c \in Chains(L, R), a \in Elements(c.actions)
      PROVE  \E b \in Resizing(L, R) : a \in Elements(ResizeChain(L, R, b).actions)
  <2>1. ASSUME NEW d, c = CreateChain(R, d) PROVE FALSE
    <3>1. a \in Acts(CreateOps(d), {d})
      BY <1>4, <2>1, CreateChainActions, InChain
    <3>2. a.op \in CreateOps(d)
      BY <3>1, InActs
    <3> QED BY <1>3, <3>2 DEF CreateOps
  <2>2. ASSUME NEW d, c = DeleteChain(L, d) PROVE FALSE
    <3>1. a \in Acts(DeleteOps(d), {d})
      BY <1>4, <2>2, DeleteChainActions, InChain
    <3>2. a.op \in DeleteOps(d)
      BY <3>1, InActs
    <3> QED BY <1>3, <3>2 DEF DeleteOps
  <2>3. ASSUME NEW d, c = MountPointChain(L, R, d) PROVE FALSE
    <3>1. a \in Acts(MountOps, {d})
      BY <1>4, <2>3, MountPointChainActions, InChain
    <3>2. a.op \in MountOps
      BY <3>1, InActs
    <3> QED BY <1>3, <3>2 DEF MountOps
  <2> QED BY <1>4, <2>1, <2>2, <2>3, ChainOf
<1>5. a \notin Singles(L, R)
  BY <1>3 DEF Singles, Reallot, Act
<1>6. a \in Actions(L, R) => \E b \in Resizing(L, R) : a \in Elements(ResizeChain(L, R, b).actions)
  <2>1. a \in Actions(L, R) => \E c \in Chains(L, R) : a \in Elements(c.actions)
    BY <1>5 DEF Actions
  <2> QED BY <1>4, <2>1
<1> QED BY <1>1, <1>2, <1>6

\* An action that resizes is on a device that stays, in the direction of the
\* partition or logical volume it is on.
LEMMA ResizeFacts ==
  ASSUME NEW L, NEW R, Shape(L), Fits(L, R), NEW a \in Actions(L, R), is_resize(a)
  PROVE  /\ a = Act(a.op, a.sid)
         /\ a.sid \in DOMAIN L \cap DOMAIN R
         /\ a.sid \in Partition \cup Lv \cup Luks \cup Pv \cup Filesystem
         /\ \E b \in Resizing(L, R) : a.sid \in Stack(L, R, b) /\ a.op = ResizeOp(L, R, b)
<1>1. PICK b \in Resizing(L, R) : \E d \in Stack(L, R, b) : a = Act(ResizeOp(L, R, b), d)
  BY ResizeFrom
<1>2. PICK d \in Stack(L, R, b) : a = Act(ResizeOp(L, R, b), d)
  BY <1>1
<1>3. a.op = ResizeOp(L, R, b) /\ a.sid = d
  BY <1>2 DEF Act
<1>4. LuksOn(R, b) \subseteq Luks \cap DOMAIN R /\ ContentOn(R, b) \subseteq (Pv \cup Filesystem) \cap DOMAIN R
  BY DEF LuksOn, ContentOn, Children
<1>5. b \in (Partition \cup Lv) \cap DOMAIN L \cap DOMAIN R
  BY DEF Resizing
<1>6. d \in DOMAIN L \cap DOMAIN R /\ d \in Partition \cup Lv \cup Luks \cup Pv \cup Filesystem
  BY <1>4, <1>5 DEF Stack
<1> QED BY <1>2, <1>3, <1>6

\* The device a device of a stack is on is below it in the stack, or it is the lowest.
LEMMA BelowInStack ==
  ASSUME NEW L, NEW R, Shape(L), Fits(L, R), NEW b \in Resizing(L, R),
         NEW d \in Stack(L, R, b), d # b
  PROVE  \E p \in Stack(L, R, b) : /\ R[d].parents = {p}
                                   /\ p = b \/ (p \in Luks /\ R[p].parents = {b} /\ p \in LuksOn(R, b) /\ d \in ContentOn(R, b))
<1>1. b \in (Partition \cup Lv) \cap DOMAIN R /\ Shape(R) /\ b \in (Partition \cup Lv) \cap DOMAIN L \cap DOMAIN R
  BY DEF Resizing, Fits
<1>2. /\ \A y : y \in LuksOn(R, b) <=> y \in Luks \cap DOMAIN R /\ b \in R[y].parents
      /\ \A y : y \in ContentOn(R, b) <=> /\ y \in (Pv \cup Filesystem) \cap DOMAIN R
                                          /\ \E p \in {b} \cup LuksOn(R, b) : p \in R[y].parents
  BY <1>1, ContentIsOn
<1>3. \A y \in DOMAIN R : y \in Luks \cup Pv \cup Filesystem => \E q : R[y].parents = {q}
  <2>1. (Luks \cup Pv \cup Filesystem) \cap (Disk \cup Vg) = {}
    BY ClassAssumption
  <2> QED BY <1>1, <2>1 DEF Shape, Placed
<1>4. CASE d \in LuksOn(R, b)
  <2>1. R[d].parents = {b}
    BY <1>2, <1>3, <1>4
  <2> QED BY <2>1 DEF Stack
<1>5. CASE d \in ContentOn(R, b)
  <2>1. PICK p \in {b} \cup LuksOn(R, b) : p \in R[d].parents
    BY <1>2, <1>5
  <2>2. R[d].parents = {p}
    BY <1>2, <1>3, <1>5, <2>1
  <2>3. CASE p = b
    BY <2>2, <2>3 DEF Stack
  <2>4. CASE p \in LuksOn(R, b)
    <3>1. R[p].parents = {b} /\ p \in Luks
      BY <1>2, <1>3, <2>4
    <3>2. p \in DOMAIN L
      <4>1. d \in DOMAIN L /\ d \notin Vg
        <5>1. (Pv \cup Filesystem) \cap Vg = {}
          BY ClassAssumption
        <5>2. b \in DOMAIN L
          BY <1>1
        <5> QED BY <1>2, <1>5, <5>1, <5>2 DEF Stack
      <4>2. L[d].parents = {p}
        BY <1>2, <1>5, <2>2, <4>1 DEF Fits, Kept
      <4> QED BY <4>1, <4>2 DEF Shape, Placed
    <3>3. p \in Stack(L, R, b)
      BY <2>4, <3>2 DEF Stack
    <3> QED BY <1>5, <2>2, <2>4, <3>1, <3>3
  <2> QED BY <2>1, <2>3, <2>4
<1> QED BY <1>4, <1>5 DEF Stack

\* All that stays on a device whose size changes is resized.
LEMMA StackResized ==
  ASSUME NEW L, NEW R, Shape(L), Fits(L, R), NEW b \in Resizing(L, R), NEW d \in Stack(L, R, b)
  PROVE  Act(ResizeOp(L, R, b), d) \in Actions(L, R)
<1>1. is_resize(Act(ResizeOp(L, R, b), d))
  BY DEF is_resize, Act, ResizeOp
<1> QED BY <1>1, ResizeFrom

\* The device is still to be resized.
Unsized(T, d) == \E op \in {"shrink", "grow"} : Act(op, d) \in T

\* A partition or logical volume whose size changes is resized.
LEMMA DeviceResized ==
  ASSUME NEW L, NEW R, Shape(L), Fits(L, R),
         NEW b \in (Partition \cup Lv) \cap DOMAIN L \cap DOMAIN R, L[b].size # R[b].size
  PROVE  b \in Resizing(L, R) /\ Unsized(Actions(L, R), b)
<1>1. b \notin Luks
  BY ClassAssumption
<1>2. b \in Resizing(L, R)
  BY <1>1 DEF Resizing, Size
<1>3. b \in Stack(L, R, b) /\ ResizeOp(L, R, b) \in {"shrink", "grow"}
  BY DEF Stack, ResizeOp
<1> QED BY <1>2, <1>3, StackResized DEF Unsized

\* So is what is on it.
LEMMA ContentResized ==
  ASSUME NEW L, NEW R, Shape(L), Fits(L, R), Alike(L, R), NEW d \in Content \cap DOMAIN L \cap DOMAIN R,
         Size(L, Parent(L, d)) # Size(R, Parent(R, d))
  PROVE  Unsized(Actions(L, R), d)
<1>1. /\ Shape(R)
      /\ \A x \in (DOMAIN L \cap DOMAIN R) \ Vg : R[x].parents = L[x].parents
  BY DEF Fits, Kept
<1>2. /\ Content \cap (Disk \cup Vg) = {}
      /\ Luks \cap (Disk \cup Vg \cup Partition \cup Lv \cup Pv \cup Filesystem) = {}
      /\ Disk \cap (MountPoint \cup Partition \cup Lv) = {}
  BY ClassAssumption DEF Content
<1>3. PICK p \in DOMAIN L : L[d].parents = {p}
  BY <1>2 DEF Shape, Placed
<1>4. R[d].parents = {p} /\ p \in DOMAIN R
  <2>1. R[d].parents = {p}
    BY <1>1, <1>2, <1>3
  <2> QED BY <1>1, <2>1 DEF Shape, Placed
<1>5. Parent(L, d) = p /\ Parent(R, d) = p
  BY <1>3, <1>4 DEF Parent
<1>6. /\ d \in Luks => p \in Partition \cup Lv
      /\ d \in Pv \cup Filesystem => p \in Blk
  BY <1>3, OnWhat DEF Shape, Placed
<1>7. CASE p \in Partition \cup Lv
  <2>1. L[p].size # R[p].size
    BY <1>2, <1>5, <1>7 DEF Size
  <2>2. p \in Resizing(L, R)
    BY <1>4, <1>7, <2>1, DeviceResized
  <2>3. /\ p \in (Partition \cup Lv) \cap DOMAIN R
        /\ \A y : y \in LuksOn(R, p) <=> y \in Luks \cap DOMAIN R /\ p \in R[y].parents
        /\ \A y : y \in ContentOn(R, p) <=> /\ y \in (Pv \cup Filesystem) \cap DOMAIN R
                                            /\ \E q \in {p} \cup LuksOn(R, p) : q \in R[y].parents
    BY <1>1, <1>4, <1>7, ContentIsOn
  <2>4. d \in LuksOn(R, p) \/ d \in ContentOn(R, p)
    BY <1>4, <2>3 DEF Content
  <2>5. d \in Stack(L, R, p)
    BY <2>4 DEF Stack
  <2> QED BY <2>2, <2>5, StackResized DEF Unsized, ResizeOp
<1>8. CASE p \in Luks
  <2>1. PICK q \in DOMAIN L : L[p].parents = {q}
    BY <1>2, <1>8 DEF Shape, Placed
  <2>2. R[p].parents = {q} /\ q \in DOMAIN R
    <3>1. R[p].parents = {q}
      BY <1>1, <1>2, <1>4, <1>8, <2>1
    <3> QED BY <1>1, <1>4, <3>1 DEF Shape, Placed
  <2>3. q \in Partition \cup Lv
    BY <1>8, <2>1, OnWhat DEF Shape, Placed
  <2>4. Parent(L, p) = q /\ Parent(R, p) = q
    BY <2>1, <2>2 DEF Parent
  <2>5. L[q].size # R[q].size
    BY <1>5, <1>8, <2>4 DEF Size
  <2>6. q \in Resizing(L, R)
    BY <2>2, <2>3, <2>5, DeviceResized
  <2>7. /\ \A y : y \in LuksOn(R, q) <=> y \in Luks \cap DOMAIN R /\ q \in R[y].parents
        /\ \A y : y \in ContentOn(R, q) <=> /\ y \in (Pv \cup Filesystem) \cap DOMAIN R
                                            /\ \E x \in {q} \cup LuksOn(R, q) : x \in R[y].parents
    BY <1>1, <2>2, <2>3, ContentIsOn
  <2>8. p \in LuksOn(R, q)
    BY <1>4, <1>8, <2>2, <2>7
  <2>9. d \in Pv \cup Filesystem
    BY <1>2, <1>6, <1>8 DEF Content
  <2>10. d \in ContentOn(R, q)
    BY <1>4, <2>7, <2>8, <2>9
  <2>11. d \in Stack(L, R, q)
    BY <2>10 DEF Stack
  <2> QED BY <2>6, <2>11, StackResized DEF Unsized, ResizeOp
<1>9. CASE p \in Disk
  <2>1. R[p].size = L[p].size
    BY <1>2, <1>4, <1>9 DEF Alike
  <2> QED BY <1>2, <1>5, <1>9, <2>1 DEF Size
<1> QED BY <1>6, <1>7, <1>8, <1>9 DEF Content, Blk

\* When a content can grow the device it is on has its size.
LEMMA GrownFirst ==
  ASSUME NEW L, NEW R, Shape(L), Fits(L, R), NEW T \in SUBSET Actions(L, R), Onward(L, R, T),
         NEW d \in Content, Act("grow", d) \in Actions(L, R), ~ Awaits(L, R, T, Act("grow", d))
  PROVE  \E p : /\ L[d].parents = {p} /\ R[d].parents = {p}
                /\ p \in (Partition \cup Lv \cup Luks) \cap DOMAIN L \cap DOMAIN R
                /\ ~ Unsized(T, p)
                /\ p \in Luks => \E b \in Resizing(L, R) : L[p].parents = {b} /\ R[p].parents = {b}
<1>1. \A op, x : Act(op, x).op = op /\ Act(op, x).sid = x /\ (op \in {"shrink", "grow"} => is_resize(Act(op, x)))
  BY DEF Act, is_resize
<1>2. /\ Shape(R)
      /\ \A x \in (DOMAIN L \cap DOMAIN R) \ Vg : R[x].parents = L[x].parents
  BY DEF Fits, Kept
<1>3. /\ Content \cap (Partition \cup Lv \cup Vg) = {}
      /\ (Partition \cup Lv \cup Luks) \cap Vg = {}
  BY ClassAssumption DEF Content
<1>4. PICK b \in Resizing(L, R) : d \in Stack(L, R, b) /\ ResizeOp(L, R, b) = "grow"
  BY <1>1, ResizeFacts
<1>5. b \in (Partition \cup Lv) \cap DOMAIN L \cap DOMAIN R
  BY DEF Resizing
<1>6. d # b /\ d \in DOMAIN L \cap DOMAIN R
  <2>1. d \in DOMAIN L \cap DOMAIN R
    BY <1>1, ResizeFacts
  <2> QED BY <1>3, <1>5, <2>1
<1>7. PICK p \in Stack(L, R, b) :
         /\ R[d].parents = {p}
         /\ p = b \/ (p \in Luks /\ R[p].parents = {b} /\ p \in LuksOn(R, b) /\ d \in ContentOn(R, b))
  BY <1>4, <1>6, BelowInStack
<1>8. p \in DOMAIN L \cap DOMAIN R /\ p \in Partition \cup Lv \cup Luks
  <2>1. Act("grow", p) \in Actions(L, R)
    BY <1>4, StackResized
  <2>2. p \in DOMAIN L \cap DOMAIN R
    BY <1>1, <2>1, ResizeFacts
  <2> QED BY <1>5, <1>7, <2>2
<1>9. L[d].parents = {p}
  BY <1>2, <1>3, <1>6, <1>7
<1>10. Act("grow", p) \notin T
  <2> SUFFICES ASSUME Act("grow", p) \in T PROVE FALSE
    OBVIOUS
  <2> DEFINE s == ResizeChain(L, R, b).actions
  <2>1. Follows(s, Act("grow", p), Act("grow", d))
    <3>1. /\ \A x \in (LuksOn(R, b) \cap DOMAIN L) \cup (ContentOn(R, b) \cap DOMAIN L) :
                Follows(s, Act("grow", b), Act("grow", x))
          /\ \A x \in LuksOn(R, b) \cap DOMAIN L, y \in ContentOn(R, b) \cap DOMAIN L :
                Follows(s, Act("grow", x), Act("grow", y))
      BY <1>4, ResizeSizes
    <3>2. d \in (LuksOn(R, b) \cap DOMAIN L) \cup (ContentOn(R, b) \cap DOMAIN L)
      BY <1>4, <1>6 DEF Stack
    <3> HIDE DEF s
    <3> QED BY <1>6, <1>7, <1>8, <3>1, <3>2
  <2>2. ResizeChain(L, R, b) \in Chains(L, R) /\ s \in Seq(ResizeActs(L, R))
    <3>1. b \in Device
      BY <1>5 DEF Device, Blk
    <3> QED BY <3>1, ChainOf, ResizeChainActions
  <2>3. Awaits(L, R, T, Act("grow", d))
    BY <2>1, <2>2, Along
  <2> QED BY <2>3
<1>11. Act("shrink", p) \notin T
  <2> SUFFICES ASSUME Act("shrink", p) \in Actions(L, R) PROVE FALSE
    OBVIOUS
  <2>1. PICK c \in Resizing(L, R) : p \in Stack(L, R, c) /\ ResizeOp(L, R, c) = "shrink"
    BY <1>1, ResizeFacts
  <2>2. c = b
    <3>1. b \in (Partition \cup Lv) \cap DOMAIN R /\ c \in (Partition \cup Lv) \cap DOMAIN R
      BY DEF Resizing
    <3> QED BY <1>2, <1>7, <2>1, <3>1, OneStack
  <2> QED BY <1>4, <2>1, <2>2
<1>12. p \in Luks => L[p].parents = {b} /\ R[p].parents = {b}
  <2> SUFFICES ASSUME p \in Luks PROVE L[p].parents = {b} /\ R[p].parents = {b}
    OBVIOUS
  <2>1. p # b
    <3>1. Luks \cap (Partition \cup Lv) = {}
      BY ClassAssumption
    <3> QED BY <1>5, <3>1
  <2>2. R[p].parents = {b}
    BY <1>7, <2>1
  <2> QED BY <1>2, <1>3, <1>8, <2>2
<1> QED BY <1>7, <1>8, <1>9, <1>10, <1>11, <1>12 DEF Unsized

\* A LUKS is activated after it was created, and only what is new is activated.
LEMMA Activated ==
  ASSUME NEW L, NEW R
  PROVE  /\ \A a \in Actions(L, R) : a.op = "activate" => a = Act("activate", a.sid) /\ a.sid \in Luks \cap (DOMAIN R \ DOMAIN L)
         /\ \A l \in Luks \cap (DOMAIN R \ DOMAIN L) : Follows(CreateChain(R, l).actions, Act("create", l), Act("activate", l))
<1>1. ASSUME NEW a \in Actions(L, R), a.op = "activate"
      PROVE  a = Act("activate", a.sid) /\ a.sid \in Luks \cap (DOMAIN R \ DOMAIN L)
  <2>1. ASSUME NEW d \in DOMAIN R \ DOMAIN L, a \in Elements(CreateChain(R, d).actions)
        PROVE  a = Act("activate", a.sid) /\ a.sid \in Luks \cap (DOMAIN R \ DOMAIN L)
    <3>1. a \in Acts(CreateOps(d), {d})
      BY <2>1, CreateChainActions, InChain
    <3>2. a.sid = d /\ a.op \in CreateOps(d) /\ a = Act(a.op, d)
      BY <3>1, InActs
    <3>3. d \notin MountPoint
      BY <1>1, <3>2 DEF CreateOps
    <3>4. d \in Luks
      <4> SUFFICES ASSUME d \notin Luks PROVE FALSE
        OBVIOUS
      <4>1. CreateChain(R, d).actions = <<Act("create", d)>>
        BY <3>3 DEF CreateChain, Chain
      <4> QED BY <1>1, <2>1, <4>1 DEF Elements, Act
    <3> QED BY <1>1, <3>2, <3>4
  <2>2. ASSUME NEW d, a \in Elements(DeleteChain(L, d).actions) PROVE FALSE
    <3>1. a \in Acts(DeleteOps(d), {d})
      BY <2>2, DeleteChainActions, InChain
    <3>2. a.op \in DeleteOps(d)
      BY <3>1, InActs
    <3> QED BY <1>1, <3>2 DEF DeleteOps
  <2>3. ASSUME NEW d, a \in Elements(MountPointChain(L, R, d).actions) PROVE FALSE
    <3>1. a \in Acts(MountOps, {d})
      BY <2>3, MountPointChainActions, InChain
    <3>2. a.op \in MountOps
      BY <3>1, InActs
    <3> QED BY <1>1, <3>2 DEF MountOps
  <2>4. ASSUME NEW b \in Resizing(L, R), a \in Elements(ResizeChain(L, R, b).actions) PROVE FALSE
    <3>1. b \in Device
      BY DEF Resizing, Device, Blk
    <3>2. a \in ResizeActs(L, R)
      BY <2>4, <3>1, ResizeChainActions, InChain
    <3> QED BY <1>1, <3>2, InResizeActs
  <2>5. a \notin Singles(L, R)
    BY <1>1 DEF Singles, Reallot, Act
  <2>6. \E c \in Chains(L, R) : a \in Elements(c.actions)
    BY <2>5 DEF Actions
  <2> QED BY <2>1, <2>2, <2>3, <2>4, <2>6, ChainOf
<1>2. ASSUME NEW l \in Luks PROVE Follows(CreateChain(R, l).actions, Act("create", l), Act("activate", l))
  <2> DEFINE X == Acts({"create", "activate", "add_crypttab"}, {l})
             s == <<Act("create", l), Act("activate", l)>>
             t == When(R[l].listed, "add_crypttab", l)
  <2>1. CreateChain(R, l).actions = s \o t
    BY ClassAssumption DEF CreateChain
  <2>2. \A op \in {"create", "activate", "add_crypttab"} : Act(op, l) \in X
    BY InActs
  <2> HIDE DEF X
  <2>3. s \in Seq(X) /\ t \in Seq(X)
    BY <2>2, Pieces
  <2>4. Follows(s, Act("create", l), Act("activate", l))
    BY DEF Follows
  <2> HIDE DEF s, t
  <2> QED BY <2>1, <2>3, <2>4, JoinedOrder
<1> QED BY <1>1, <1>2

-----------------------------------------------------------------------------
(* The devices during a commit.                                            *)

\* Device r of the world is device d of R but for the actions T on it.
Settled(L, R, T, d, r) ==
  /\ r.start = R[d].start /\ r.name = R[d].name
  /\ r.active = (IF Act("activate", d) \in T THEN FALSE ELSE R[d].active)
  /\ d \notin Content /\ ~ Unsized(T, d) => r.size = R[d].size
  /\ d \in Content \cap DOMAIN L /\ ~ Unsized(T, d) =>
        LET now == Size(R, Parent(R, d)) IN Size(L, Parent(L, d)) # now => r.size = now
  /\ d \in Vg => /\ \A p \in R[d].parents \ r.parents : Reallot("extend", d, p) \in T
                 /\ \A p \in r.parents \ R[d].parents : Reallot("reduce", d, p) \in T

\* Actions of other devices, and those that change no device, leave it alone.
LEMMA SettledAlone ==
  ASSUME NEW L, NEW R, NEW T, NEW d, NEW r, Settled(L, R, T, d, r), NEW a,
         a.sid = d => a.op \notin {"activate", "shrink", "grow", "extend", "reduce"}
  PROVE  Settled(L, R, T \ {a}, d, r)
<1>1. /\ \A op, x : Act(op, x).op = op /\ Act(op, x).sid = x
      /\ \A op, x, p : Reallot(op, x, p).op = op /\ Reallot(op, x, p).sid = x
  BY DEF Act, Reallot
<1>2. /\ Act("activate", d) # a /\ Act("shrink", d) # a /\ Act("grow", d) # a
      /\ \A p : Reallot("extend", d, p) # a /\ Reallot("reduce", d, p) # a
  BY <1>1
<1>3. /\ Act("activate", d) \in T \ {a} <=> Act("activate", d) \in T
      /\ Unsized(T \ {a}, d) <=> Unsized(T, d)
      /\ \A p : Reallot("extend", d, p) \in T => Reallot("extend", d, p) \in T \ {a}
      /\ \A p : Reallot("reduce", d, p) \in T => Reallot("reduce", d, p) \in T \ {a}
  BY <1>2 DEF Unsized
<1> QED BY <1>3 DEF Settled

\* A LUKS is activated.
LEMMA SettledActive ==
  ASSUME NEW L, NEW R, NEW T, NEW d \in Luks, NEW r, Settled(L, R, T, d, r), DOMAIN r = Fields, R[d].active = TRUE
  PROVE  Settled(L, R, T \ {Act("activate", d)}, d, [r EXCEPT !.active = TRUE])
<1> DEFINE a == Act("activate", d)
           q == [r EXCEPT !.active = TRUE]
<1>1. /\ q.start = r.start /\ q.name = r.name /\ q.size = r.size /\ q.active = TRUE
  BY DEF Fields
<1>2. a.op = "activate" /\ \A op : Act(op, d).op = op
  BY DEF Act
<1>3. Unsized(T \ {a}, d) <=> Unsized(T, d)
  BY <1>2 DEF Unsized
<1>4. a \notin T \ {a}
  OBVIOUS
<1>5. d \notin Vg
  BY ClassAssumption
<1> HIDE DEF q
<1>6. Settled(L, R, T \ {a}, d, q)
  BY <1>1, <1>3, <1>4, <1>5 DEF Settled
<1> QED BY <1>6 DEF q

\* A device is resized.
LEMMA SettledSize ==
  ASSUME NEW L, NEW R, NEW T, NEW d, NEW r, Settled(L, R, T, d, r), DOMAIN r = Fields,
         NEW op \in {"shrink", "grow"}, NEW size,
         d \notin Content => size = R[d].size,
         d \in Content => size = Size(R, Parent(R, d))
  PROVE  Settled(L, R, T \ {Act(op, d)}, d, [r EXCEPT !.size = size])
<1> DEFINE a == Act(op, d)
           q == [r EXCEPT !.size = size]
<1>1. q.start = r.start /\ q.name = r.name /\ q.size = size /\ q.active = r.active /\ q.parents = r.parents
  BY DEF Fields
<1>2. /\ a.op \in {"shrink", "grow"} /\ Act("activate", d).op = "activate"
      /\ \A p : Reallot("extend", d, p).op = "extend" /\ Reallot("reduce", d, p).op = "reduce"
  BY DEF Act, Reallot
<1>3. /\ Act("activate", d) \in T \ {a} <=> Act("activate", d) \in T
      /\ \A p : Reallot("extend", d, p) \in T => Reallot("extend", d, p) \in T \ {a}
      /\ \A p : Reallot("reduce", d, p) \in T => Reallot("reduce", d, p) \in T \ {a}
  BY <1>2
<1> HIDE DEF q, a
<1>4. Settled(L, R, T \ {a}, d, q)
  BY <1>1, <1>3 DEF Settled
<1> QED BY <1>4 DEF q, a

\* A volume group gets or loses a physical volume.
LEMMA SettledParents ==
  ASSUME NEW L, NEW R, NEW T, NEW d \in Vg, NEW r, Settled(L, R, T, d, r), DOMAIN r = Fields,
         NEW p, NEW op \in {"extend", "reduce"}, op = "extend" <=> p \in R[d].parents
  PROVE  Settled(L, R, T \ {Reallot(op, d, p)}, d,
                 [r EXCEPT !.parents = IF op = "extend" THEN @ \cup {p} ELSE @ \ {p}])
<1> DEFINE a == Reallot(op, d, p)
           S == IF op = "extend" THEN r.parents \cup {p} ELSE r.parents \ {p}
           q == [r EXCEPT !.parents = S]
<1>1. q.start = r.start /\ q.name = r.name /\ q.size = r.size /\ q.active = r.active /\ q.parents = S
  BY DEF Fields
<1>2. /\ \A o : Act(o, d) = a => o = op
      /\ \A o, x : Reallot(o, d, x) = a => x = p
  BY DEF Act, Reallot
<1>3. /\ Act("activate", d) \in T \ {a} <=> Act("activate", d) \in T
      /\ Unsized(T \ {a}, d) <=> Unsized(T, d)
  BY <1>2 DEF Unsized
<1>4. /\ \A x \in R[d].parents \ r.parents : Reallot("extend", d, x) \in T
      /\ \A x \in r.parents \ R[d].parents : Reallot("reduce", d, x) \in T
  BY DEF Settled
<1>5. /\ \A x \in R[d].parents \ S : Reallot("extend", d, x) \in T \ {a}
      /\ \A x \in S \ R[d].parents : Reallot("reduce", d, x) \in T \ {a}
  <2>1. \A x : x \in S => x \in r.parents \/ (x = p /\ p \in R[d].parents)
    OBVIOUS
  <2>2. \A x \in R[d].parents \ S : x \notin r.parents /\ x # p
    OBVIOUS
  <2>3. \A x \in S \ R[d].parents : x \in r.parents /\ x # p
    OBVIOUS
  <2> HIDE DEF S, a
  <2> QED BY <1>2, <1>4, <2>2, <2>3
<1> HIDE DEF q, a, S
<1>6. Settled(L, R, T \ {a}, d, q)
  BY <1>1, <1>3, <1>5 DEF Settled
<1> QED BY <1>6 DEF q, a, S

\* A physical volume that is not to be there is taken away.
LEMMA SettledLess ==
  ASSUME NEW L, NEW R, NEW T, NEW d, NEW r, Settled(L, R, T, d, r), DOMAIN r = Fields,
         NEW x, x \notin R[d].parents
  PROVE  Settled(L, R, T, d, [r EXCEPT !.parents = @ \ {x}])
<1> DEFINE S == r.parents \ {x}
           q == [r EXCEPT !.parents = S]
<1>1. q.start = r.start /\ q.name = r.name /\ q.size = r.size /\ q.active = r.active /\ q.parents = S
  BY DEF Fields
<1>2. R[d].parents \ S = R[d].parents \ r.parents /\ S \ R[d].parents \subseteq r.parents \ R[d].parents
  OBVIOUS
<1> HIDE DEF q, S
<1>3. Settled(L, R, T, d, q)
  BY <1>1, <1>2 DEF Settled
<1> QED BY <1>3 DEF q, S

\* The actions on the physical volumes of a volume group.
LEMMA ReallotFacts ==
  ASSUME NEW L, NEW R, Fits(L, R), NEW a \in Actions(L, R), a.op \in {"extend", "reduce"}
  PROVE  /\ a = Reallot(a.op, a.sid, a.dev)
         /\ a.sid \in Vg
         /\ a.op = "extend" <=> a.dev \in R[a.sid].parents
<1>1. a.sid \in DOMAIN L \cap DOMAIN R
  BY ActionFacts
<1>2. /\ a.op = "extend" => a.dev \in R[a.sid].parents \ L[a.sid].parents
      /\ a.op = "reduce" => a.dev \in L[a.sid].parents \ R[a.sid].parents
  BY ActionFacts
<1>3. a.sid \in Vg
  <2>1. R[a.sid].parents # L[a.sid].parents
    BY <1>2
  <2> QED BY <1>1, <2>1 DEF Fits, Kept
<1>4. a \in Singles(L, R)
  <2> SUFFICES ASSUME NEW c \in Chains(L, R), a \in Elements(c.actions) PROVE FALSE
    BY DEF Actions
  <2>1. ASSUME NEW d, c = CreateChain(R, d) PROVE FALSE
    <3>1. a \in Acts(CreateOps(d), {d})
      BY <2>1, CreateChainActions, InChain
    <3>2. a.op \in CreateOps(d)
      BY <3>1, InActs
    <3> QED BY <3>2 DEF CreateOps
  <2>2. ASSUME NEW d, c = DeleteChain(L, d) PROVE FALSE
    <3>1. a \in Acts(DeleteOps(d), {d})
      BY <2>2, DeleteChainActions, InChain
    <3>2. a.op \in DeleteOps(d)
      BY <3>1, InActs
    <3> QED BY <3>2 DEF DeleteOps
  <2>3. ASSUME NEW d, c = MountPointChain(L, R, d) PROVE FALSE
    <3>1. a \in Acts(MountOps, {d})
      BY <2>3, MountPointChainActions, InChain
    <3>2. a.op \in MountOps
      BY <3>1, InActs
    <3> QED BY <3>2 DEF MountOps
  <2>4. ASSUME NEW b \in Resizing(L, R), c = ResizeChain(L, R, b) PROVE FALSE
    <3>1. b \in Device
      BY DEF Resizing, Device, Blk
    <3>2. a \in ResizeActs(L, R)
      BY <2>4, <3>1, ResizeChainActions, InChain
    <3> QED BY <3>2, InResizeActs
  <2> QED BY <2>1, <2>2, <2>3, <2>4, ChainOf
<1>5. \A op, l : Act(op, l).op = op
  BY DEF Act
<1>6. \E d, p : a = Reallot("extend", d, p) \/ a = Reallot("reduce", d, p)
  BY <1>4, <1>5 DEF Singles
<1>7. a = Reallot(a.op, a.sid, a.dev)
  BY <1>6 DEF Reallot
<1> QED BY <1>2, <1>3, <1>7

\* What is there and is to be there is as staging has it, but for what is still to
\* be committed.
Arriving == phase = "commit" =>
  \A d \in DOMAIN world \cap DOMAIN staging : Settled(probed, staging, todo, d, world[d])

\* What the next action can rely on.
LEMMA NextAction ==
  ASSUME Sound, NEW a \in todo, Done(a)
  PROVE  /\ phase = "commit" /\ phase' = "commit" /\ UNCHANGED <<probed, staging>> /\ todo' = todo \ {a}
         /\ Shape(probed) /\ Shape(staging) /\ Fits(probed, staging)
         /\ todo \in SUBSET Actions(probed, staging)
         /\ Onward(probed, staging, todo)
         /\ ~ Awaits(probed, staging, todo, a)
<1>1. a \in Ready /\ todo' = todo \ {a} /\ UNCHANGED <<probed, staging, phase>>
  BY DEF Done
<1>2. phase = "commit" /\ \A p \in deps : p[2] = a => p[1] \notin todo
  BY <1>1 DEF Ready
<1>3. /\ deps = Order(probed, staging)
      /\ todo \subseteq Actions(probed, staging)
      /\ \A p \in deps : p[1] \in todo /\ p[2] \in Actions(probed, staging) => p[2] \in todo
  BY <1>2 DEF Sound, Frame, Committing
<1>4. Shape(probed) /\ Fits(probed, staging)
  BY DEF Sound, Frame, Graphs
<1> QED BY <1>1, <1>2, <1>3, <1>4 DEF Onward, Awaits, Fits

\* A device is created.
LEMMA CreateArriving ==
  ASSUME Sound, Alike(probed, staging), Arriving, NEW a \in todo, CommitCreate(a)
  PROVE  Arriving'
<1> DEFINE d == a.sid
           size == IF d \in Content THEN world[Parent(staging, d)].size ELSE staging[d].size
           r == [staging[d] EXCEPT !.active = FALSE, !.listed = FALSE, !.size = size]
<1>1. Done(a) /\ a.op = "create" /\ world' = Add(world, d, r)
  BY DEF CommitCreate
<1>2. /\ phase = "commit" /\ phase' = "commit" /\ UNCHANGED <<probed, staging>> /\ todo' = todo \ {a}
      /\ Shape(staging)
      /\ todo \in SUBSET Actions(probed, staging)
      /\ Onward(probed, staging, todo)
  BY <1>1, NextAction
<1>3. a = Act("create", d) /\ d \in DOMAIN staging \ (DOMAIN probed \cup MountPoint) /\ d \notin DOMAIN world
  BY <1>1, <1>2, ActionFacts DEF Sound, Frame, Committing
<1>4. DOMAIN staging[d] = Fields
  BY <1>2, <1>3, BlankFields DEF Shape
<1>5. /\ r.start = staging[d].start /\ r.name = staging[d].name /\ r.active = FALSE
      /\ r.parents = staging[d].parents
      /\ d \notin Content => r.size = staging[d].size
  <2>1. /\ r.start = staging[d].start /\ r.name = staging[d].name /\ r.active = FALSE
        /\ r.parents = staging[d].parents /\ r.size = size
    <3> HIDE DEF size
    <3> QED BY <1>4 DEF Fields
  <2> QED BY <2>1
<1>6. d \in Luks => Act("activate", d) \in todo'
  <2> SUFFICES ASSUME d \in Luks PROVE Act("activate", d) \in todo'
    OBVIOUS
  <2> DEFINE c == CreateChain(staging, d)
  <2>2. /\ Follows(c.actions, Act("create", d), Act("activate", d))
        /\ c \in Chains(probed, staging)
    BY <1>3, Activated, ChainOf
  <2>3. c.actions \in Seq(Acts(CreateOps(d), {d}))
    BY CreateChainActions
  <2> HIDE DEF c
  <2>4. Awaits(probed, staging, todo, Act("activate", d))
    BY <1>2, <1>3, <2>2, <2>3, Along
  <2>5. Act("activate", d) \in Actions(probed, staging)
    <3>1. Act("activate", d) \in Elements(c.actions)
      BY <2>2 DEF Follows, Elements
    <3> QED BY <2>2, <3>1, ChainOf
  <2>6. Act("activate", d) \in todo
    BY <1>2, <2>4, <2>5 DEF Awaits, Onward
  <2>7. Act("activate", d) # a
    BY <1>3 DEF Act
  <2> QED BY <1>2, <2>6, <2>7
<1> HIDE DEF r, size
<1>7. Settled(probed, staging, todo', d, r)
  <2>1. staging[d].active = (IF d \in Luks THEN TRUE ELSE FALSE)
    BY <1>3 DEF Alike
  <2> QED BY <1>3, <1>5, <1>6, <2>1 DEF Settled
<1>8. /\ DOMAIN world' = DOMAIN world \cup {d} /\ world'[d] = r
      /\ \A x \in DOMAIN world : world'[x] = world[x]
  BY <1>1, <1>3 DEF Add
<1>9. ASSUME NEW x \in DOMAIN world \cap DOMAIN staging PROVE Settled(probed, staging, todo', x, world[x])
  <2>1. Settled(probed, staging, todo, x, world[x])
    BY <1>2 DEF Arriving
  <2> QED BY <1>1, <1>2, <2>1, SettledAlone
<1>10. \A x \in DOMAIN world' \cap DOMAIN staging : Settled(probed, staging, todo', x, world'[x])
  BY <1>7, <1>8, <1>9
<1> QED BY <1>2, <1>10 DEF Arriving

\* A device is deleted.
LEMMA DeleteArriving ==
  ASSUME Sound, Arriving, NEW a \in todo, CommitDelete(a)
  PROVE  Arriving'
<1>1. /\ Done(a) /\ a.op = "delete"
      /\ world' = [d \in DOMAIN world \ {a.sid} |->
                     IF a.sid \in Pv THEN [world[d] EXCEPT !.parents = @ \ {a.sid}] ELSE world[d]]
  BY DEF CommitDelete
<1>2. /\ phase = "commit" /\ phase' = "commit" /\ UNCHANGED <<probed, staging>> /\ todo' = todo \ {a}
      /\ Shape(staging) /\ todo \in SUBSET Actions(probed, staging)
  BY <1>1, NextAction
<1>3. a.sid \notin DOMAIN staging
  BY <1>1, <1>2, ActionFacts
<1>4. ASSUME NEW d \in DOMAIN world' \cap DOMAIN staging
      PROVE  Settled(probed, staging, todo', d, world'[d])
  <2>1. d \in DOMAIN world /\ world'[d] = IF a.sid \in Pv THEN [world[d] EXCEPT !.parents = @ \ {a.sid}] ELSE world[d]
    BY <1>1
  <2>2. Settled(probed, staging, todo, d, world[d])
    BY <1>2, <2>1 DEF Arriving
  <2>3. DOMAIN world[d] = Fields
    BY <2>1 DEF Sound, Frame, World
  <2>4. a.sid \notin staging[d].parents
    BY <1>2, <1>3 DEF Shape, Placed
  <2>5. Settled(probed, staging, todo, d, [world[d] EXCEPT !.parents = @ \ {a.sid}])
    BY <2>2, <2>3, <2>4, SettledLess
  <2>6. Settled(probed, staging, todo, d, world'[d])
    BY <2>1, <2>2, <2>5
  <2> QED BY <1>1, <1>2, <2>6, SettledAlone
<1> QED BY <1>2, <1>4 DEF Arriving

\* A LUKS is activated.
LEMMA ActivateArriving ==
  ASSUME Sound, Alike(probed, staging), Arriving, NEW a \in todo, CommitActivate(a)
  PROVE  Arriving'
<1> DEFINE l == a.sid
<1>1. Done(a) /\ a.op = "activate" /\ world' = [world EXCEPT ![l].active = TRUE] /\ l \in DOMAIN world
  BY DEF CommitActivate, CanActivate
<1>2. /\ phase = "commit" /\ phase' = "commit" /\ UNCHANGED <<probed, staging>> /\ todo' = todo \ {a}
      /\ todo \in SUBSET Actions(probed, staging)
  BY <1>1, NextAction
<1>3. a = Act("activate", l) /\ l \in Luks \cap (DOMAIN staging \ DOMAIN probed)
  BY <1>1, <1>2, Activated
<1>4. staging[l].active = TRUE
  <2>1. l \notin MountPoint
    BY <1>3, ClassAssumption
  <2> QED BY <1>3, <2>1 DEF Alike
<1>5. DOMAIN world[l] = Fields /\ Settled(probed, staging, todo, l, world[l])
  BY <1>1, <1>2, <1>3 DEF Sound, Frame, World, Arriving
<1>6. Settled(probed, staging, todo \ {Act("activate", l)}, l, [world[l] EXCEPT !.active = TRUE])
  BY <1>3, <1>4, <1>5, SettledActive
<1>7. /\ DOMAIN world' = DOMAIN world
      /\ world'[l] = [world[l] EXCEPT !.active = TRUE]
      /\ \A d \in DOMAIN world \ {l} : world'[d] = world[d]
  BY <1>1
<1> HIDE DEF l
<1>8. ASSUME NEW d \in DOMAIN world \cap DOMAIN staging, d # l PROVE Settled(probed, staging, todo', d, world[d])
  <2>1. Settled(probed, staging, todo, d, world[d])
    BY <1>2 DEF Arriving
  <2> QED BY <1>2, <1>8, <2>1, SettledAlone DEF l
<1>9. \A d \in DOMAIN world' \cap DOMAIN staging : Settled(probed, staging, todo', d, world'[d])
  BY <1>2, <1>3, <1>6, <1>7, <1>8
<1> QED BY <1>2, <1>9 DEF Arriving

\* The physical volumes of a volume group change.
LEMMA ReallotArriving ==
  ASSUME Sound, Arriving, NEW a \in todo, CommitReallot(a)
  PROVE  Arriving'
<1> DEFINE v == a.sid
           S == IF a.op = "extend" THEN world[v].parents \cup {a.dev} ELSE world[v].parents \ {a.dev}
<1>1. /\ Done(a) /\ a.op \in {"extend", "reduce"} /\ v \in DOMAIN world
      /\ world' = [world EXCEPT ![v].parents = S]
  BY DEF CommitReallot, CanReallot
<1>2. /\ phase = "commit" /\ phase' = "commit" /\ UNCHANGED <<probed, staging>> /\ todo' = todo \ {a}
      /\ todo \in SUBSET Actions(probed, staging) /\ Fits(probed, staging)
  BY <1>1, NextAction
<1>3. /\ a = Reallot(a.op, v, a.dev) /\ v \in Vg
      /\ a.op = "extend" <=> a.dev \in staging[v].parents
      /\ v \in DOMAIN staging
  BY <1>1, <1>2, ReallotFacts, ActionFacts
<1>4. DOMAIN world[v] = Fields /\ Settled(probed, staging, todo, v, world[v])
  BY <1>1, <1>2, <1>3 DEF Sound, Frame, World, Arriving
<1>5. Settled(probed, staging, todo \ {Reallot(a.op, v, a.dev)}, v, [world[v] EXCEPT !.parents = S])
  BY <1>1, <1>3, <1>4, SettledParents
<1>6. /\ DOMAIN world' = DOMAIN world
      /\ world'[v] = [world[v] EXCEPT !.parents = S]
      /\ \A d \in DOMAIN world \ {v} : world'[d] = world[d]
  <2> HIDE DEF S
  <2> QED BY <1>1
<1> HIDE DEF S, v
<1>7. ASSUME NEW d \in DOMAIN world \cap DOMAIN staging, d # v PROVE Settled(probed, staging, todo', d, world[d])
  <2>1. Settled(probed, staging, todo, d, world[d])
    BY <1>2 DEF Arriving
  <2> QED BY <1>2, <1>7, <2>1, SettledAlone DEF v
<1>8. \A d \in DOMAIN world' \cap DOMAIN staging : Settled(probed, staging, todo', d, world'[d])
  BY <1>2, <1>3, <1>5, <1>6, <1>7
<1> QED BY <1>2, <1>8 DEF Arriving

\* What is on a device grows to the size that staging has for it.
LEMMA GrownSize ==
  ASSUME Sound, Arriving, NEW a \in todo, Done(a), a.op = "grow", a.sid \in Content \cap DOMAIN world
  PROVE  world[Parent(world, a.sid)].size = Size(staging, Parent(staging, a.sid))
<1> DEFINE d == a.sid
<1>1. /\ phase = "commit"
      /\ Shape(probed) /\ Shape(staging) /\ Fits(probed, staging)
      /\ todo \in SUBSET Actions(probed, staging)
      /\ Onward(probed, staging, todo)
      /\ ~ Awaits(probed, staging, todo, a)
  BY NextAction
<1>2. is_resize(a)
  BY DEF is_resize
<1>3. a = Act("grow", d) /\ d \in DOMAIN probed \cap DOMAIN staging
  BY <1>1, <1>2, ResizeFacts
<1>4. PICK p : /\ probed[d].parents = {p} /\ staging[d].parents = {p}
               /\ p \in (Partition \cup Lv \cup Luks) \cap DOMAIN probed \cap DOMAIN staging
               /\ ~ Unsized(todo, p)
               /\ p \in Luks => \E b \in Resizing(probed, staging) : probed[p].parents = {b} /\ staging[p].parents = {b}
  BY <1>1, <1>3, GrownFirst
<1>5. world[d].parents = {p}
  <2>1. Content \cap Vg = {}
    BY ClassAssumption DEF Content
  <2>2. world[d].parents = Over(probed, staging, d)
    BY <2>1 DEF Sound, Frame, World
  <2> QED BY <1>3, <1>4, <2>2 DEF Over
<1>6. Parent(world, d) = p /\ Parent(staging, d) = p
  BY <1>4, <1>5 DEF Parent
<1>7. p \in DOMAIN world
  BY <1>5 DEF Sound, Cardinal
<1>8. Settled(probed, staging, todo, p, world[p])
  BY <1>1, <1>4, <1>7 DEF Arriving
<1>9. CASE p \in Partition \cup Lv
  <2>1. p \notin Content /\ p \notin Luks
    BY <1>9, ClassAssumption DEF Content
  <2>2. world[p].size = staging[p].size
    BY <1>4, <1>8, <2>1 DEF Settled
  <2> QED BY <1>6, <2>1, <2>2 DEF Size
<1>10. CASE p \in Luks
  <2>1. PICK b \in Resizing(probed, staging) : probed[p].parents = {b} /\ staging[p].parents = {b}
    BY <1>4, <1>10
  <2>2. Parent(probed, p) = b /\ Parent(staging, p) = b
    BY <2>1 DEF Parent
  <2>3. Size(probed, b) # Size(staging, b) /\ b \in Partition \cup Lv
    BY DEF Resizing
  <2>4. p \in Content \cap DOMAIN probed
    BY <1>4, <1>10 DEF Content
  <2>5. world[p].size = Size(staging, b)
    BY <1>4, <1>8, <2>2, <2>3, <2>4 DEF Settled
  <2>6. b \notin Luks
    BY <2>3, ClassAssumption
  <2> QED BY <1>6, <1>10, <2>2, <2>5, <2>6 DEF Size
<1> QED BY <1>4, <1>9, <1>10

\* A device is resized.
LEMMA ResizeArriving ==
  ASSUME Sound, Arriving, NEW a \in todo, CommitResize(a)
  PROVE  Arriving'
<1> DEFINE d == a.sid
           size == Resized(a)
<1>1. Done(a) /\ is_resize(a) /\ d \in DOMAIN world /\ world' = [world EXCEPT ![d].size = size]
  BY DEF CommitResize, CanResize
<1>2. /\ phase = "commit" /\ phase' = "commit" /\ UNCHANGED <<probed, staging>> /\ todo' = todo \ {a}
      /\ Shape(probed) /\ Fits(probed, staging)
      /\ todo \in SUBSET Actions(probed, staging)
  BY <1>1, NextAction
<1>3. a = Act(a.op, d) /\ d \in DOMAIN staging /\ a.op \in {"shrink", "grow"}
  BY <1>1, <1>2, ResizeFacts DEF is_resize
<1>4. DOMAIN world[d] = Fields /\ Settled(probed, staging, todo, d, world[d])
  BY <1>1, <1>2, <1>3 DEF Sound, Frame, World, Arriving
<1>5. d \notin Content => size = staging[d].size
  BY DEF Resized
<1>6. d \in Content => size = Size(staging, Parent(staging, d))
  <2>1. CASE a.op = "shrink"
    BY <2>1 DEF Resized
  <2>2. CASE a.op = "grow"
    BY <1>1, <2>2, GrownSize DEF Resized
  <2> QED BY <1>3, <2>1, <2>2
<1> HIDE DEF size
<1>7. Settled(probed, staging, todo \ {Act(a.op, d)}, d, [world[d] EXCEPT !.size = size])
  BY <1>3, <1>4, <1>5, <1>6, SettledSize
<1>8. /\ DOMAIN world' = DOMAIN world
      /\ world'[d] = [world[d] EXCEPT !.size = size]
      /\ \A x \in DOMAIN world \ {d} : world'[x] = world[x]
  BY <1>1
<1> HIDE DEF d
<1>9. ASSUME NEW x \in DOMAIN world \cap DOMAIN staging, x # d PROVE Settled(probed, staging, todo', x, world[x])
  <2>1. Settled(probed, staging, todo, x, world[x])
    BY <1>2 DEF Arriving
  <2> QED BY <1>2, <1>9, <2>1, SettledAlone DEF d
<1>10. \A x \in DOMAIN world' \cap DOMAIN staging : Settled(probed, staging, todo', x, world'[x])
  BY <1>2, <1>3, <1>7, <1>8, <1>9
<1> QED BY <1>2, <1>10 DEF Arriving

\* Every step of a commit brings the devices closer to staging.
LEMMA CommitArriving ==
  ASSUME Sound, Alike(probed, staging), Arriving, ignored \in Nat, CommitAction, Undisturbed'
  PROVE  Arriving'
<1>1. PICK a \in todo : \/ CommitCreate(a) \/ CommitDelete(a)
                        \/ CommitActivate(a) \/ CommitDeactivate(a)
                        \/ CommitResize(a) \/ CommitReallot(a)
                        \/ CommitMount(a) \/ CommitUnmount(a)
                        \/ CommitFstab(a) \/ CommitCrypttab(a)
                        \/ Fail(a)
  BY DEF CommitAction
<1>2. CASE Fail(a)
  <2>1. phase' = "aborted"
    BY <1>2 DEF Fail, Undisturbed
  <2> QED BY <2>1 DEF Arriving
<1>3. CASE /\ Done(a)
           /\ a.op \notin {"activate", "shrink", "grow", "extend", "reduce"}
           /\ DOMAIN world' \cap DOMAIN staging = DOMAIN world \cap DOMAIN staging
           /\ \A d \in DOMAIN world \cap DOMAIN staging : world'[d] = world[d]
  <2>1. phase = "commit" /\ UNCHANGED <<probed, staging>> /\ todo' = todo \ {a}
    BY <1>3, NextAction
  <2>2. ASSUME NEW d \in DOMAIN world \cap DOMAIN staging PROVE Settled(probed, staging, todo', d, world[d])
    <3>1. Settled(probed, staging, todo, d, world[d])
      BY <2>1 DEF Arriving
    <3> QED BY <1>3, <2>1, <3>1, SettledAlone
  <2>3. \A d \in DOMAIN world' \cap DOMAIN staging : Settled(probed, staging, todo', d, world'[d])
    BY <1>3, <2>2
  <2> QED BY <2>1, <2>3 DEF Arriving
<1>4. CASE CommitDeactivate(a)
  <2>1. /\ Done(a) /\ a.op = "deactivate" /\ world' = [world EXCEPT ![a.sid].active = FALSE]
    BY <1>4 DEF CommitDeactivate
  <2>2. todo \in SUBSET Actions(probed, staging)
    BY <2>1, NextAction
  <2>3. a.sid \notin DOMAIN staging
    BY <2>1, <2>2, ActionFacts
  <2>4. DOMAIN world' = DOMAIN world /\ \A d \in DOMAIN world : d # a.sid => world'[d] = world[d]
    BY <2>1
  <2> QED BY <1>3, <2>1, <2>3, <2>4
<1>5. CASE CommitMount(a) \/ CommitUnmount(a) \/ CommitFstab(a) \/ CommitCrypttab(a)
  <2>1. Done(a) /\ world' = world /\ a.op \notin {"activate", "shrink", "grow", "extend", "reduce"}
    BY <1>5 DEF CommitMount, CommitUnmount, CommitFstab, CommitCrypttab
  <2> QED BY <1>3, <2>1
<1> QED BY <1>1, <1>2, <1>4, <1>5, CreateArriving, DeleteArriving, ActivateArriving, ResizeArriving, ReallotArriving

\* The devices that were probed have the attributes they were probed with.
AttributesProbed == phase = "edit" =>
  \A d \in DOMAIN world : /\ world[d].start = probed[d].start /\ world[d].name = probed[d].name
                          /\ world[d].active = probed[d].active
                          /\ d \notin Content => world[d].size = probed[d].size

\* When the commit starts all that differs from staging is still to be committed.
LEMMA CalculateArriving ==
  ASSUME Frame, Alike(probed, staging), AttributesProbed, CalculateActiongraph
  PROVE  Arriving'
<1> DEFINE A == Actions(probed, staging)
<1>1. /\ phase = "edit" /\ UNCHANGED <<probed, staging, world>> /\ todo' = Actions(system, staging)
  BY DEF CalculateActiongraph
<1>2. /\ todo' = A /\ Shape(probed) /\ Fits(probed, staging)
      /\ \A d \in DOMAIN world : d \in DOMAIN probed /\ world[d].parents = probed[d].parents
  BY <1>1 DEF Frame, Editing, Graphs
<1>3. ASSUME NEW d \in DOMAIN world \cap DOMAIN staging PROVE Settled(probed, staging, A, d, world[d])
  <2>1. d \in (DOMAIN probed \cap DOMAIN staging) \ MountPoint
    BY <1>2 DEF Frame, World
  <2>2. /\ world[d].start = probed[d].start /\ world[d].name = probed[d].name
        /\ world[d].active = probed[d].active
        /\ d \notin Content => world[d].size = probed[d].size
    BY <1>1 DEF AttributesProbed
  <2>3. /\ staging[d].start = probed[d].start /\ staging[d].name = probed[d].name
        /\ staging[d].active = probed[d].active
        /\ d \notin Partition \cup Lv => staging[d].size = probed[d].size
    BY <2>1 DEF Alike
  <2>4. Act("activate", d) \notin A
    <3>1. Act("activate", d).op = "activate" /\ Act("activate", d).sid = d
      BY DEF Act
    <3> QED BY <2>1, <3>1, Activated
  <2>5. d \notin Content /\ ~ Unsized(A, d) => world[d].size = staging[d].size
    BY <1>2, <2>1, <2>2, <2>3, DeviceResized
  <2>6. d \in Content /\ ~ Unsized(A, d) => Size(probed, Parent(probed, d)) = Size(staging, Parent(staging, d))
    BY <1>2, <2>1, ContentResized
  <2>7. /\ \A p \in staging[d].parents \ world[d].parents : Reallot("extend", d, p) \in A
        /\ \A p \in world[d].parents \ staging[d].parents : Reallot("reduce", d, p) \in A
    <3>1. /\ \A p \in staging[d].parents \ probed[d].parents : Reallot("extend", d, p) \in Singles(probed, staging)
          /\ \A p \in probed[d].parents \ staging[d].parents : Reallot("reduce", d, p) \in Singles(probed, staging)
      BY <2>1 DEF Singles
    <3> QED BY <1>2, <3>1 DEF Actions
  <2> HIDE DEF A
  <2> QED BY <2>2, <2>3, <2>4, <2>5, <2>6, <2>7 DEF Settled
<1>4. \A d \in DOMAIN world' \cap DOMAIN staging' : Settled(probed', staging', todo', d, world'[d])
  BY <1>1, <1>2, <1>3
<1> QED BY <1>4 DEF Arriving

\* Probing reads the attributes of what is found.
LEMMA ProbeAttributes ==
  ASSUME Frame, Probe
  PROVE  AttributesProbed' /\ Alike(probed, staging)'
<1>1. probed' = Probed /\ staging' = Probed /\ world' = [d \in Found |-> world[d]]
  BY DEF Probe
<1>2. ASSUME NEW d \in Found
      PROVE  /\ world[d].start = Probed[d].start /\ world[d].name = Probed[d].name
             /\ world[d].active = Probed[d].active
             /\ d \notin Content => world[d].size = Probed[d].size
  BY ProbedDevice
<1>3. DOMAIN world' = Found /\ \A d \in Found : world'[d] = world[d]
  BY <1>1
<1>4. Alike(Probed, Probed)
  BY DEF Alike
<1> QED BY <1>1, <1>2, <1>3, <1>4 DEF AttributesProbed

\* At first the world is what was probed.
LEMMA InitAttributes ==
  ASSUME Init
  PROVE  AttributesProbed /\ Alike(probed, staging)
<1>1. /\ staging = probed /\ Shape(probed)
      /\ world = [d \in DOMAIN probed \ MountPoint |->
                    IF d \in Content THEN [probed[d] EXCEPT !.size = Size(probed, Parent(probed, d))]
                                     ELSE probed[d]]
  BY ProbesAssumption DEF Init
<1>2. ASSUME NEW d \in DOMAIN world
      PROVE  /\ world[d].start = probed[d].start /\ world[d].name = probed[d].name
             /\ world[d].active = probed[d].active
             /\ d \notin Content => world[d].size = probed[d].size
  <2>1. DOMAIN probed[d] = Fields
    BY <1>1, BlankFields DEF Shape
  <2>2. world[d] = IF d \in Content THEN [probed[d] EXCEPT !.size = Size(probed, Parent(probed, d))] ELSE probed[d]
    BY <1>1
  <2> QED BY <2>1, <2>2 DEF Fields
<1>3. Alike(probed, staging)
  BY <1>1 DEF Alike
<1> QED BY <1>2, <1>3 DEF AttributesProbed

\* Nothing is left to be committed: what is there is as staging has it.
Arrived == phase = "done" =>
  \A d \in DOMAIN world \cap DOMAIN staging : Settled(probed, staging, {}, d, world[d])

EndInv == /\ AccessInv /\ FullInv
          /\ Alike(probed, staging) /\ AttributesProbed
          /\ Undisturbed => Arriving /\ Arrived

\* Every step keeps EndInv.
LEMMA EndStep ==
  ASSUME EndInv, [Next]_vars
  PROVE  EndInv'
<1>1. /\ AccessInv' /\ FullInv' /\ Frame /\ ignored \in Nat
      /\ Alike(probed, staging) /\ AttributesProbed
  BY AccessStep, FullStep DEF EndInv, AccessInv, MountInv, Inv
<1>2. CommitAction => UNCHANGED <<probed, staging>> /\ phase' # "edit" /\ phase' # "done"
  BY DEF CommitAction, CommitCreate, CommitDelete, CommitActivate, CommitDeactivate, CommitResize, CommitReallot,
         CommitMount, CommitUnmount, CommitFstab, CommitCrypttab, Fail, Done, Ready
<1>3. EditStaging => Edited /\ phase = "edit"
  BY EditEdited DEF Edited
<1>4. Alike(probed, staging)'
  <2>1. CASE EditStaging
    <3>1. Shape(probed) /\ Fits(probed, staging) /\ system = probed /\ probed' = probed
      BY <1>1, <1>3, <2>1 DEF Frame, Graphs, Editing, Edited
    <3>2. Retains(probed, staging, staging')
      BY <2>1, <3>1, EditsRetain
    <3> QED BY <1>1, <3>1, <3>2, RetainsAlike
  <2>2. CASE UNCHANGED <<probed, staging>>
    BY <1>1, <2>2
  <2>3. CASE Probe
    BY <1>1, <2>3, ProbeAttributes
  <2> QED BY <1>2, <2>1, <2>2, <2>3 DEF Next, CalculateActiongraph, EndCommit, vars
<1>5. AttributesProbed'
  <2>1. CASE UNCHANGED <<probed, world, phase>>
    BY <1>1, <2>1 DEF AttributesProbed
  <2>2. CASE phase' # "edit"
    BY <2>2 DEF AttributesProbed
  <2>3. CASE Probe
    BY <1>1, <2>3, ProbeAttributes
  <2>4. CalculateActiongraph \/ EndCommit => phase' # "edit"
    BY DEF CalculateActiongraph, EndCommit
  <2> QED BY <1>2, <1>3, <2>1, <2>2, <2>3, <2>4 DEF Next, Edited, vars
<1> SUFFICES ASSUME Undisturbed' PROVE Arriving' /\ Arrived'
  BY <1>1, <1>4, <1>5 DEF EndInv
<1>6. Undisturbed
  BY <1>1, CountersStep
<1>7. Sound /\ Arriving /\ Arrived
  BY <1>6 DEF EndInv, FullInv
<1>8. CASE EditStaging \/ Probe
  <2>1. phase' = "edit"
    BY <1>8, EditEdited DEF Edited, Probe
  <2> QED BY <2>1 DEF Arriving, Arrived
<1>9. CASE CalculateActiongraph
  <2>1. phase' # "done"
    BY <1>9 DEF CalculateActiongraph
  <2> QED BY <1>1, <1>9, <2>1, CalculateArriving DEF Arrived
<1>10. CASE CommitAction
  BY <1>1, <1>2, <1>7, <1>10, CommitArriving DEF Arrived
<1>11. CASE EndCommit
  <2>1. phase = "commit" /\ phase' = "done" /\ todo = {} /\ UNCHANGED <<probed, staging, world>>
    BY <1>11 DEF EndCommit
  <2>2. \A d \in DOMAIN world \cap DOMAIN staging : Settled(probed, staging, {}, d, world[d])
    BY <1>7, <2>1 DEF Arriving
  <2> QED BY <2>1, <2>2 DEF Arriving, Arrived
<1>12. CASE UNCHANGED vars
  <2>1. UNCHANGED <<probed, staging, world, phase, todo>>
    BY <1>12 DEF vars
  <2> QED BY <1>7, <2>1 DEF Arriving, Arrived
<1> QED BY <1>8, <1>9, <1>10, <1>11, <1>12 DEF Next

\* EndInv holds always.
LEMMA EndInvariance == Spec => []EndInv
<1>1. Init => EndInv
  <2> SUFFICES ASSUME Init PROVE EndInv
    OBVIOUS
  <2>1. phase = "edit" /\ ignored = 0
    BY DEF Init
  <2>2. AccessInv /\ FullInv
    BY <2>1, InitAccess, InitSound, InitTabled DEF FullInv, Inv
  <2> QED BY <2>1, <2>2, InitAttributes DEF EndInv, Arriving, Arrived
<1>2. EndInv /\ [Next]_vars => EndInv'
  BY EndStep
<1> QED BY <1>1, <1>2, PTL DEF Spec

\* A device that has arrived has the fields of staging.
LEMMA ArrivedBare ==
  ASSUME Sound, Arrived, phase = "done", NEW d \in DOMAIN world \cap DOMAIN staging
  PROVE  /\ Bare(world[d]) = Bare(staging[d])
         /\ d \notin Content => world[d].size = staging[d].size
         /\ d \in Content \cap DOMAIN probed =>
              LET now == Size(staging, Parent(staging, d))
              IN  Size(probed, Parent(probed, d)) # now => world[d].size = now
<1>1. Settled(probed, staging, {}, d, world[d])
  BY DEF Arrived
<1>2. ~ Unsized({}, d)
  BY DEF Unsized
<1>3. /\ world[d].start = staging[d].start /\ world[d].name = staging[d].name
      /\ world[d].active = staging[d].active
      /\ d \notin Content => world[d].size = staging[d].size
      /\ d \in Content \cap DOMAIN probed =>
           LET now == Size(staging, Parent(staging, d))
           IN  Size(probed, Parent(probed, d)) # now => world[d].size = now
  BY <1>1, <1>2 DEF Settled
<1>4. world[d].parents = staging[d].parents
  <2>1. CASE d \in Vg
    BY <1>1, <2>1 DEF Settled
  <2>2. CASE d \notin Vg
    <3>1. world[d].parents = Over(probed, staging, d)
      BY <2>2 DEF Sound, Frame, World
    <3>2. d \in DOMAIN probed => staging[d].parents = probed[d].parents
      BY <2>2 DEF Sound, Frame, Graphs, Fits, Kept
    <3> QED BY <3>1, <3>2 DEF Over
  <2> QED BY <2>1, <2>2
<1> QED BY <1>3, <1>4 DEF Bare

\* EndsAsStaging for any constants: a commit without a failure ends with the
\* devices, mounts and tables of staging, and what is on a resized device has its
\* size.
THEOREM CommitEndsAsStaging == Spec => []EndsAsStaging
<1>1. EndInv => EndsAsStaging
  <2> SUFFICES ASSUME EndInv, phase = "done", Undisturbed PROVE MatchesStaging
    BY DEF EndsAsStaging
  <2>1. Sound /\ Tabled /\ Arrived /\ AccessAsStaging
    BY DEF EndInv, FullInv, AccessInv
  <2>2. DOMAIN world = DOMAIN staging \ MountPoint
    BY <2>1 DEF Tabled, Present
  <2>3. \A d \in DOMAIN staging \ MountPoint :
           /\ Bare(world[d]) = Bare(staging[d])
           /\ d \notin Content => world[d].size = staging[d].size
           /\ d \in Content \cap DOMAIN probed =>
                LET now == Size(staging, Parent(staging, d))
                IN  Size(probed, Parent(probed, d)) # now => world[d].size = now
    BY <2>1, <2>2, ArrivedBare
  <2>4. /\ {mounts[i] : i \in DOMAIN mounts} = {Entry(staging, m) : m \in {x \in In(MountPoint, staging) : staging[x].active}}
        /\ fstab = {Entry(staging, m) : m \in {x \in In(MountPoint, staging) : staging[x].listed}}
        /\ crypttab = {l \in In(Luks, staging) : staging[l].listed}
    BY <2>1 DEF AccessAsStaging, Mounts
  <2> QED BY <2>2, <2>3, <2>4 DEF MatchesStaging
<1> QED BY <1>1, EndInvariance, PTL
=============================================================================
