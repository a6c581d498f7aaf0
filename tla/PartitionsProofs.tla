--------------------------- MODULE PartitionsProofs ---------------------------
(***************************************************************************)
(* The numbers of the partitions in staging, and on the disk during a      *)
(* commit, for any disk, any number of edits and any commit, also one that *)
(* stops in the middle; that a commit ends with the partitions, the        *)
(* numbers, the swaps and the entries of fstab that staging has; and that  *)
(* no regions overlap, so that parted can do every command.                *)
(***************************************************************************)
EXTENDS Pool, FiniteSetTheorems, WellFoundedInduction, TLAPS

(* Numbers                                                                 *)

\* A set of natural numbers has a least element.
LEMMA LeastNat ==
  ASSUME NEW T \in SUBSET Nat, T # {}
  PROVE  \E m \in T : \A k \in T : m <= k
<1> DEFINE U == {1 .. k : k \in T}
<1>1. IsWellFoundedOn(StrictSubsetOrdering(Nat), FiniteSubsetsOf(Nat))
  BY FS_StrictSubsetOrderingWellFounded
<1>2. U \subseteq FiniteSubsetsOf(Nat) /\ U # {}
  <2>1. \A k \in T : 1 .. k \in SUBSET Nat /\ IsFiniteSet(1 .. k)
    BY FS_Interval
  <2> QED BY <2>1 DEF FiniteSubsetsOf
<1>3. PICK x \in U : \A y \in U : ~ (<<y, x>> \in StrictSubsetOrdering(Nat))
  <2> HIDE DEF U
  <2> QED BY <1>1, <1>2, WFMin
<1>4. PICK m \in T : x = 1 .. m
  OBVIOUS
<1>5. ASSUME NEW k \in T, ~ m <= k PROVE FALSE
  <2>1. 1 .. k \subseteq 1 .. m /\ m \in 1 .. m /\ m \notin 1 .. k /\ 1 .. m \subseteq Nat
    BY <1>5
  <2>2. <<1 .. k, 1 .. m>> \in StrictSubsetOrdering(Nat)
    BY <2>1 DEF StrictSubsetOrdering
  <2> QED BY <1>3, <1>4, <2>2
<1> QED BY <1>5

\* A set of natural numbers with a bound has a greatest element.
LEMMA GreatestNat ==
  ASSUME NEW T \in SUBSET Nat, T # {}, NEW b \in Nat, \A k \in T : k <= b
  PROVE  Max(T) \in T /\ \A k \in T : k <= Max(T)
<1> DEFINE U == {b - k : k \in T}
<1>1. PICK m \in U : \A k \in U : m <= k
  <2>1. U \in SUBSET Nat /\ U # {}
    <3>1. \A k \in T : b - k \in Nat
      OBVIOUS
    <3> QED BY <3>1
  <2> HIDE DEF U
  <2> QED BY <2>1, LeastNat
<1>2. PICK n \in T : m = b - n
  OBVIOUS
<1>3. ASSUME NEW k \in T PROVE k <= n
  <2>1. m <= b - k
    BY <1>1
  <2> QED BY <1>2, <2>1
<1>4. \E x \in T : \A y \in T : x >= y
  BY <1>3
<1>5. Max(T) \in T /\ \A y \in T : Max(T) >= y
  BY <1>4 DEF Max
<1> QED BY <1>5

\* The least of two numbers.
LEMMA MinOfTwo ==
  ASSUME NEW a \in Int, NEW b \in Int
  PROVE  Min({a, b}) \in {a, b} /\ Min({a, b}) <= a /\ Min({a, b}) <= b
<1>1. \E x \in {a, b} : \A y \in {a, b} : x =< y
  <2>1. CASE a <= b
    BY <2>1
  <2>2. CASE ~ a <= b
    BY <2>2
  <2> QED BY <2>1, <2>2
<1>2. Min({a, b}) \in {a, b} /\ \A y \in {a, b} : Min({a, b}) =< y
  BY <1>1 DEF Min
<1> QED BY <1>2

\* The number of primary and extended partitions is at least one.
LEMMA MaxPrimaryType == 
  ASSUME NEW type
  PROVE  /\ MaxPrimary(type) \in Nat \ {0}
         /\ type = "MSDOS" /\ DeviceRange > 4 => MaxPrimary(type) = 4
<1> DEFINE n == IF type = "MSDOS" THEN 4 ELSE PartitionSlots
           m == DeviceRange - 1
<1>1. n \in Nat \ {0} /\ m \in Nat \ {0}
  BY GeometryAssumption
<1>2. MaxPrimary(type) = Min({n, m})
  BY DEF MaxPrimary
<1> HIDE DEF n, m
<1>3. Min({n, m}) \in {n, m} /\ Min({n, m}) <= n /\ Min({n, m}) <= m
  BY <1>1, MinOfTwo
<1>4. MaxPrimary(type) \in {n, m} /\ MaxPrimary(type) <= n /\ MaxPrimary(type) <= m
  BY <1>2, <1>3
<1>5. type = "MSDOS" /\ DeviceRange > 4 => n = 4 /\ m >= 4
  BY GeometryAssumption DEF n, m
<1> QED BY <1>1, <1>4, <1>5

\* first_missing_number returns the least number that is missing.
LEMMA FirstMissingSound ==
  ASSUME NEW S, IsFiniteSet(S), NEW k \in Nat \ {0}, k \notin S
  PROVE  FirstMissing(S) \in 1 .. k /\ FirstMissing(S) \notin S
<1> DEFINE T == (Nat \ {0}) \ S
           N == 1 .. Cardinality(S) + 1
           OK(n) == n \notin S /\ \A j \in 1 .. n - 1 : j \in S
<1>1. PICK m \in T : \A j \in T : m <= j
  <2>1. T \in SUBSET Nat /\ T # {}
    OBVIOUS
  <2> HIDE DEF T
  <2> QED BY <2>1, LeastNat
<1>2. OK(m)
  BY <1>1
<1>3. m \in N
  <2>1. 1 .. m - 1 \in SUBSET S
    BY <1>2
  <2>2. Cardinality(1 .. m - 1) <= Cardinality(S)
    BY <2>1, FS_Subset
  <2>3. Cardinality(1 .. m - 1) = m - 1
    BY FS_Interval
  <2>4. Cardinality(S) \in Nat
    BY FS_CardinalityType
  <2> QED BY <2>2, <2>3, <2>4
<1>4. FirstMissing(S) = CHOOSE n \in N : OK(n)
  BY DEF FirstMissing
<1> DEFINE f == FirstMissing(S)
<1>5. f \in N /\ OK(f)
  <2>1. \E n \in N : OK(n)
    BY <1>2, <1>3
  <2> HIDE DEF OK, N
  <2> QED BY <1>4, <2>1
<1>6. f \in Nat \ {0}
  BY <1>5
<1> HIDE DEF f, N
<1>7. f <= k
  BY <1>5, <1>6
<1> QED BY <1>5, <1>6, <1>7 DEF f

-----------------------------------------------------------------------------
(* Partition tables                                                        *)

\* The numbers depend on nothing but the types.
LEMMA SameNumbers ==
  ASSUME NEW type, NEW t, Sound(type, t), NEW u, DOMAIN u = DOMAIN t,
         \A p \in DOMAIN t : /\ {"type", "number"} \subseteq DOMAIN u[p]
                             /\ u[p].number = t[p].number /\ u[p].type = t[p].type
  PROVE  Sound(type, u)
<1>1. NumLogical(u) = NumLogical(t)
  BY DEF NumLogical, OfType
<1> QED BY <1>1 DEF Sound

\* There are finitely many logical partitions.
LEMMA LogicalsFinite ==
  ASSUME NEW t, IsFiniteSet(DOMAIN t)
  PROVE  IsFiniteSet(OfType(t, "LOGICAL")) /\ NumLogical(t) \in Nat
<1>1. OfType(t, "LOGICAL") \in SUBSET DOMAIN t
  BY DEF OfType
<1>2. IsFiniteSet(OfType(t, "LOGICAL"))
  BY <1>1, FS_Subset
<1> QED BY <1>2, FS_CardinalityType DEF NumLogical

\* Primary and extended partitions may go, and all logical ones.
LEMMA WithoutSound ==
  ASSUME NEW type, NEW t, Sound(type, t), NEW S,
         S \cap OfType(t, "LOGICAL") = {} \/ OfType(t, "LOGICAL") \subseteq S
  PROVE  Sound(type, Without(t, S))
<1> DEFINE u == Without(t, S)
<1>1. DOMAIN u = DOMAIN t \ S /\ \A p \in DOMAIN u : u[p] = t[p]
  BY DEF Without
<1> HIDE DEF u
<1>2. IsFiniteSet(DOMAIN u)
  BY <1>1, FS_Subset DEF Sound
<1>3. CASE S \cap OfType(t, "LOGICAL") = {}
  <2>1. OfType(u, "LOGICAL") = OfType(t, "LOGICAL")
    BY <1>1, <1>3 DEF OfType
  <2> QED BY <1>1, <1>2, <2>1 DEF Sound, NumLogical, u
<1>4. CASE OfType(t, "LOGICAL") \subseteq S
  <2>1. \A p \in DOMAIN u : u[p].type # "LOGICAL"
    BY <1>1, <1>4 DEF OfType
  <2> QED BY <1>1, <1>2, <2>1 DEF Sound, u
<1> QED BY <1>3, <1>4

\* A logical partition goes, those with higher numbers close the gap.
LEMMA ShiftSound ==
  ASSUME NEW type, NEW t, Sound(type, t), NEW q \in OfType(t, "LOGICAL")
  PROVE  Sound(type, ShiftLogicals(Without(t, {q}), t[q].number))
<1> DEFINE r == Without(t, {q})
           u == ShiftLogicals(r, t[q].number)
           n == t[q].number
           k == MaxPrimary(type)
           L == NumLogical(t)
<1>1. DOMAIN u = DOMAIN t \ {q} /\ q \in DOMAIN t
      /\ \A p \in DOMAIN u : u[p] = IF t[p].number > n THEN [t[p] EXCEPT !.number = @ - 1] ELSE t[p]
  BY DEF Without, ShiftLogicals, OfType
<1>2. IsFiniteSet(DOMAIN u) /\ k \in Nat /\ L \in Nat
  BY <1>1, FS_Subset, LogicalsFinite, MaxPrimaryType DEF Sound
<1> HIDE DEF u, r
<1>3. ASSUME NEW p \in DOMAIN u
      PROVE  /\ {"type", "number"} \subseteq DOMAIN u[p] /\ u[p].type = t[p].type
             /\ u[p].number = IF t[p].number > n THEN t[p].number - 1 ELSE t[p].number
  <2>1. {"type", "number"} \subseteq DOMAIN t[p]
    BY <1>1 DEF Sound
  <2> QED BY <1>1, <2>1
<1>4. NumLogical(u) = L - 1
  <2>1. OfType(u, "LOGICAL") = OfType(t, "LOGICAL") \ {q}
    BY <1>1, <1>3 DEF OfType
  <2> QED BY <2>1, LogicalsFinite, FS_RemoveElement DEF Sound, NumLogical
<1>5. /\ n \in k + 1 .. k + L /\ type = "MSDOS"
      /\ \A p \in DOMAIN u : t[p].number # n /\ t[p].number \in Nat \ {0}
      /\ \A p \in DOMAIN u : t[p].type = "LOGICAL" => t[p].number \in k + 1 .. k + L
      /\ \A p \in DOMAIN u : t[p].type # "LOGICAL" => t[p].number <= k
  BY <1>1 DEF Sound, OfType
<1>6. \A p, s \in DOMAIN u : u[p].number = u[s].number => p = s
  <2>1. ASSUME NEW p \in DOMAIN u, NEW s \in DOMAIN u, u[p].number = u[s].number
        PROVE  t[p].number = t[s].number
    <3> DEFINE x == t[p].number
               y == t[s].number
    <3>1. x \in Nat \ {n} /\ y \in Nat \ {n} /\ n \in Nat
      BY <1>2, <1>5
    <3>2. (IF x > n THEN x - 1 ELSE x) = IF y > n THEN y - 1 ELSE y
      BY <1>3, <2>1
    <3> HIDE DEF x, y, n
    <3> QED BY <3>1, <3>2 DEF x, y
  <2> QED BY <1>1, <2>1 DEF Sound
<1>7. ASSUME NEW p \in DOMAIN u
      PROVE  /\ u[p].number \in Nat \ {0}
             /\ u[p].type # "LOGICAL" => u[p].number <= k
             /\ u[p].type = "LOGICAL" => u[p].number \in k + 1 .. k + (L - 1)
  <2>1. CASE t[p].type = "LOGICAL"
    <3> DEFINE x == t[p].number
    <3>1. x \in k + 1 .. k + L /\ x # n /\ n \in k + 1 .. k + L
      BY <1>5, <2>1
    <3>2. u[p].number = (IF x > n THEN x - 1 ELSE x) /\ u[p].type = "LOGICAL"
      BY <1>3, <2>1
    <3> HIDE DEF x, n, k, L
    <3>3. (IF x > n THEN x - 1 ELSE x) \in k + 1 .. k + (L - 1)
      BY <1>2, <3>1
    <3> QED BY <1>2, <3>2, <3>3
  <2>2. CASE t[p].type # "LOGICAL"
    BY <1>2, <1>3, <1>5, <2>2
  <2> QED BY <2>1, <2>2
<1>8. Sound(type, u)
  <2> HIDE DEF n
  <2> QED BY <1>2, <1>3, <1>4, <1>5, <1>6, <1>7 DEF Sound
<1> QED BY <1>8 DEF u, r
\* A partition that is not logical goes, those behind it that are not in the system
\* take one after the other the number of the one before.
LEMMA CloseGapSound ==
  ASSUME NEW type, NEW t, Sound(type, t), NEW old \in Nat \ {0}, NEW system0,
         \A p \in DOMAIN t : t[p].number # old
  PROVE  /\ Sound(type, CloseGap(t, old, system0))
         /\ \A q \in DOMAIN t : CloseGap(t, old, system0)[q].number <= t[q].number
<1> DEFINE u == CloseGap(t, old, system0)
           shifted == {q \in DOMAIN t : /\ t[q].type # "LOGICAL"
                                        /\ t[q].number > old
                                        /\ q \notin DOMAIN system0}
           taken == {old} \cup {t[q].number : q \in shifted}
           below(x) == {n \in taken : n < x}
           k == MaxPrimary(type)
<1>1. /\ DOMAIN u = DOMAIN t
      /\ \A q \in DOMAIN t : u[q] = IF q \in shifted THEN [t[q] EXCEPT !.number = Max(below(t[q].number))] ELSE t[q]
  BY DEF CloseGap
<1>2. k \in Nat /\ taken \subseteq Nat \ {0} /\ \A q \in DOMAIN t : t[q].number \in Nat \ {0}
  BY MaxPrimaryType DEF Sound
<1>3. ASSUME NEW x \in Nat, x > old
      PROVE  /\ Max(below(x)) \in taken /\ Max(below(x)) < x /\ Max(below(x)) \in Nat \ {0}
             /\ \A n \in taken : n < x => n <= Max(below(x))
  <2>1. below(x) \in SUBSET Nat /\ old \in below(x) /\ \A n \in below(x) : n <= x
    BY <1>2, <1>3
  <2>2. Max(below(x)) \in below(x) /\ \A n \in below(x) : n <= Max(below(x))
    <3> HIDE DEF below
    <3> QED BY <2>1, GreatestNat
  <2> QED BY <1>2, <2>2
<1>4. ASSUME NEW q \in DOMAIN t
      PROVE  /\ {"type", "number"} \subseteq DOMAIN u[q] /\ u[q].type = t[q].type
             /\ u[q].number = IF q \in shifted THEN Max(below(t[q].number)) ELSE t[q].number
  <2>1. {"type", "number"} \subseteq DOMAIN t[q]
    BY DEF Sound
  <2> HIDE DEF u, shifted, below
  <2> QED BY <1>1, <2>1
<1>5. \A q \in shifted : q \in DOMAIN t /\ t[q].number > old /\ t[q].number \in taken /\ t[q].type # "LOGICAL"
  OBVIOUS
<1>6. ASSUME NEW q \in DOMAIN t \ shifted PROVE t[q].number \notin taken
  <2>1. \A p \in shifted : t[p].number # t[q].number
    BY <1>6 DEF Sound
  <2> QED BY <2>1
<1> HIDE DEF u, shifted, taken, below
<1>7. ASSUME NEW q \in shifted
      PROVE  u[q].number \in taken /\ u[q].number < t[q].number /\ u[q].number \in Nat \ {0}
  BY <1>2, <1>3, <1>4, <1>5
<1>8. ASSUME NEW p \in shifted, NEW q \in shifted, t[p].number < t[q].number
      PROVE  u[p].number < u[q].number
  <2>1. t[p].number \in taken /\ t[q].number \in Nat /\ t[q].number > old
    BY <1>2, <1>5
  <2>2. t[p].number <= u[q].number
    BY <1>3, <1>4, <1>5, <1>8, <2>1
  <2>3. u[p].number < t[p].number /\ u[p].number \in Nat /\ u[q].number \in Nat /\ t[p].number \in Nat
    BY <1>2, <1>5, <1>7
  <2> QED BY <2>2, <2>3
<1>9. \A p, q \in DOMAIN u : u[p].number = u[q].number => p = q
  <2>1. ASSUME NEW p \in DOMAIN t, NEW q \in DOMAIN t, u[p].number = u[q].number, p # q PROVE FALSE
    <3>1. t[p].number # t[q].number /\ t[p].number \in Nat /\ t[q].number \in Nat
      BY <1>2, <2>1 DEF Sound
    <3>2. CASE p \in shifted /\ q \in shifted
      <4>1. t[p].number < t[q].number \/ t[q].number < t[p].number
        BY <3>1
      <4>2. u[p].number \in Nat /\ u[q].number \in Nat
        BY <1>7, <3>2
      <4> QED BY <1>8, <2>1, <3>2, <4>1, <4>2
    <3>3. CASE p \notin shifted /\ q \notin shifted
      BY <1>4, <2>1, <3>1, <3>3
    <3>4. CASE p \in shifted /\ q \notin shifted
      BY <1>4, <1>6, <1>7, <2>1, <3>4
    <3>5. CASE p \notin shifted /\ q \in shifted
      BY <1>4, <1>6, <1>7, <2>1, <3>5
    <3> QED BY <3>2, <3>3, <3>4, <3>5
  <2> QED BY <1>1, <2>1
<1>10. NumLogical(u) = NumLogical(t)
  BY <1>1, <1>4 DEF NumLogical, OfType
<1>11. ASSUME NEW q \in DOMAIN t
       PROVE  /\ u[q].number \in Nat \ {0}
              /\ u[q].type # "LOGICAL" => u[q].number <= k
              /\ u[q].type = "LOGICAL" => u[q].number \in k + 1 .. k + NumLogical(t)
  <2>1. CASE q \in shifted
    <3>1. t[q].number <= k /\ t[q].number \in Nat /\ u[q].type # "LOGICAL"
      BY <1>2, <1>4, <1>5, <2>1 DEF Sound
    <3>2. u[q].number < t[q].number /\ u[q].number \in Nat \ {0}
      BY <1>7, <2>1
    <3> QED BY <1>2, <3>1, <3>2
  <2>2. CASE q \notin shifted
    BY <1>4, <2>2 DEF Sound
  <2> QED BY <2>1, <2>2
<1>12. Sound(type, u)
  <2> HIDE DEF k
  <2> QED BY <1>1, <1>4, <1>9, <1>10, <1>11 DEF Sound, k
<1>13. \A q \in DOMAIN t : u[q].number <= t[q].number
  <2>1. ASSUME NEW q \in DOMAIN t PROVE u[q].number <= t[q].number
    BY <1>2, <1>4, <1>5, <1>7
  <2> QED BY <2>1
<1> QED BY <1>12, <1>13 DEF u
\* PartitionTable::Impl::delete_partition and Msdos::Impl::delete_partition
LEMMA DeleteSound ==
  ASSUME NEW type, NEW t, Sound(type, t), NEW p \in DOMAIN t, NEW system0
  PROVE  Sound(type, DeletePartition(t, p, system0))
<1> DEFINE R == Without(t, Removed(t, p))
<1>1. t[p].number \in Nat \ {0}
  BY DEF Sound
<1>2. CASE t[p].type = "LOGICAL"
  <2>1. Removed(t, p) = {p} /\ p \in OfType(t, "LOGICAL")
    BY <1>2 DEF Removed, OfType
  <2>2. DeletePartition(t, p, system0) = ShiftLogicals(Without(t, {p}), t[p].number)
    BY <1>2, <2>1 DEF DeletePartition
  <2> QED BY <2>1, <2>2, ShiftSound
<1>3. CASE t[p].type # "LOGICAL"
  <2>1. Removed(t, p) \cap OfType(t, "LOGICAL") = {} \/ OfType(t, "LOGICAL") \subseteq Removed(t, p)
    BY <1>3 DEF Removed, OfType
  <2>2. Sound(type, R)
    BY <2>1, WithoutSound
  <2>3. \A q \in DOMAIN R : R[q].number # t[p].number
    BY DEF Without, Removed, Sound
  <2>4. DeletePartition(t, p, system0) = CloseGap(R, t[p].number, system0)
    BY <1>3 DEF DeletePartition
  <2> HIDE DEF R
  <2> QED BY <1>1, <2>2, <2>3, <2>4, CloseGapSound
<1> QED BY <1>2, <1>3

\* The numbers in a table are as many as its partitions.
LEMMA NumbersFinite ==
  ASSUME NEW type, NEW t, Sound(type, t)
  PROVE  /\ IsFiniteSet(Numbers(t)) /\ NumLogical(t) \in Nat
         /\ MaxPrimary(type) + NumLogical(t) + 1 \in Nat \ {0}
         /\ \A n \in Numbers(t) : n \in Nat \ {0} /\ n <= MaxPrimary(type) + NumLogical(t)
<1>1. MaxPrimary(type) \in Nat /\ NumLogical(t) \in Nat
  BY MaxPrimaryType, LogicalsFinite DEF Sound
<1>2. \A n \in Numbers(t) : n \in Nat \ {0} /\ n <= MaxPrimary(type) + NumLogical(t)
  <2>1. ASSUME NEW p \in DOMAIN t
        PROVE  t[p].number \in Nat \ {0} /\ t[p].number <= MaxPrimary(type) + NumLogical(t)
    BY <1>1 DEF Sound
  <2> QED BY <2>1 DEF Numbers
<1>3. Numbers(t) \in SUBSET Nat /\ MaxPrimary(type) + NumLogical(t) \in Nat
  BY <1>1, <1>2
<1> QED BY <1>1, <1>2, <1>3, FS_BoundedSetOfNaturals

\* If a primary partition is possible, the number of the slot is one the table has.
LEMMA PrimaryNumber ==
  ASSUME NEW type, NEW t, Sound(type, t), PrimaryPossible(type, t)
  PROVE  FirstMissing(Numbers(t)) \in 1 .. MaxPrimary(type) \ Numbers(t)
<1> DEFINE P == DOMAIN t \ OfType(t, "LOGICAL")
           k == MaxPrimary(type)
<1>1. k \in Nat \ {0}
  BY MaxPrimaryType
<1>2. IsFiniteSet(P) /\ Cardinality(P) \in Nat /\ Cardinality(P) < k
  <2>1. OfType(t, "LOGICAL") \in SUBSET DOMAIN t /\ IsFiniteSet(DOMAIN t)
    BY DEF OfType, Sound
  <2>2. DOMAIN t \cap OfType(t, "LOGICAL") = OfType(t, "LOGICAL")
    BY <2>1
  <2>3. IsFiniteSet(P) /\ Cardinality(P) = Cardinality(DOMAIN t) - NumLogical(t)
    BY <2>1, <2>2, FS_Difference DEF NumLogical
  <2> QED BY <2>3, FS_CardinalityType DEF PrimaryPossible
<1>3. PICK n \in 1 .. k : \A p \in P : t[p].number # n
  <2> SUFFICES ASSUME \A n \in 1 .. k : \E p \in P : t[p].number = n PROVE FALSE
    OBVIOUS
  <2> DEFINE f == [n \in 1 .. k |-> CHOOSE p \in P : t[p].number = n]
  <2>1. \A n \in 1 .. k : f[n] \in P /\ t[f[n]].number = n
    OBVIOUS
  <2>2. f \in Injection(1 .. k, P)
    <3>1. f \in [1 .. k -> P]
      BY <2>1
    <3> HIDE DEF f
    <3>2. \A m, n \in 1 .. k : f[m] = f[n] => m = n
      BY <2>1
    <3> QED BY <3>1, <3>2 DEF Injection, IsInjective
  <2>3. Cardinality(1 .. k) <= Cardinality(P)
    BY <1>2, <2>2, FS_Injection
  <2>4. Cardinality(1 .. k) = k
    BY <1>1, FS_Interval
  <2> QED BY <1>1, <1>2, <2>3, <2>4
<1>4. n \in Nat \ {0} /\ n \notin Numbers(t)
  <2>1. NumLogical(t) \in Nat
    BY NumbersFinite
  <2>2. \A p \in DOMAIN t \ P : t[p].number \in k + 1 .. k + NumLogical(t)
    BY DEF Sound, OfType
  <2>3. \A p \in DOMAIN t \ P : t[p].number # n
    BY <1>1, <2>1, <2>2
  <2> QED BY <1>1, <1>3, <2>3 DEF Numbers
<1>5. FirstMissing(Numbers(t)) \in 1 .. n /\ FirstMissing(Numbers(t)) \notin Numbers(t)
  BY <1>4, NumbersFinite, FirstMissingSound
<1> QED BY <1>1, <1>4, <1>5

\* A partition with a number that is free, the next one if it is logical.
LEMMA AddSound ==
  ASSUME NEW type, NEW t, Sound(type, t), NEW p, p \notin DOMAIN t, NEW u,
         DOMAIN u = DOMAIN t \cup {p}, \A q \in DOMAIN t : u[q] = t[q],
         {"type", "number"} \subseteq DOMAIN u[p], type # "MSDOS" => u[p].type = "PRIMARY",
         IF u[p].type = "LOGICAL" THEN u[p].number = MaxPrimary(type) + NumLogical(t) + 1
                                  ELSE u[p].number \in 1 .. MaxPrimary(type) \ Numbers(t)
  PROVE  Sound(type, u)
<1> DEFINE k == MaxPrimary(type)
           L == NumLogical(t)
<1>1. k \in Nat /\ L \in Nat /\ \A n \in Numbers(t) : n \in Nat \ {0} /\ n <= k + L
  BY MaxPrimaryType, NumbersFinite
<1>2. IsFiniteSet(DOMAIN u)
  BY FS_AddElement DEF Sound
<1>3. \A q \in DOMAIN t : t[q].number \in Numbers(t)
  BY DEF Numbers
<1>4. u[p].number \notin Numbers(t) /\ u[p].number \in Nat \ {0}
  <2>1. k + L + 1 \notin Numbers(t)
    BY <1>1
  <2> QED BY <1>1, <2>1
<1>5. \A q, r \in DOMAIN u : u[q].number = u[r].number => q = r
  BY <1>3, <1>4 DEF Sound
<1>6. NumLogical(u) = IF u[p].type = "LOGICAL" THEN L + 1 ELSE L
  <2>1. CASE u[p].type = "LOGICAL"
    <3>1. OfType(u, "LOGICAL") = OfType(t, "LOGICAL") \cup {p} /\ p \notin OfType(t, "LOGICAL")
      BY <2>1 DEF OfType
    <3> QED BY <2>1, <3>1, LogicalsFinite, FS_AddElement DEF NumLogical, Sound
  <2>2. CASE u[p].type # "LOGICAL"
    <3>1. OfType(u, "LOGICAL") = OfType(t, "LOGICAL")
      BY <2>2 DEF OfType
    <3> QED BY <2>2, <3>1 DEF NumLogical
  <2> QED BY <2>1, <2>2
<1>7. ASSUME NEW q \in DOMAIN u
      PROVE  /\ u[q].type # "LOGICAL" => u[q].number <= k
             /\ u[q].type = "LOGICAL" => u[q].number \in k + 1 .. k + NumLogical(u)
  <2> HIDE DEF k, L
  <2>1. CASE q = p
    BY <1>1, <1>6, <2>1 DEF k, L
  <2>2. CASE q # p
    <3>1. u[q] = t[q] /\ q \in DOMAIN t
      BY <2>2
    <3>2. /\ t[q].type # "LOGICAL" => t[q].number <= k
          /\ t[q].type = "LOGICAL" => t[q].number \in k + 1 .. k + L
      BY <3>1 DEF Sound, k, L
    <3> QED BY <1>1, <1>6, <3>1, <3>2
  <2> QED BY <2>1, <2>2
<1> HIDE DEF k, L
<1>8. \A q \in DOMAIN u : /\ {"type", "number"} \subseteq DOMAIN u[q] /\ u[q].number \in Nat \ {0}
                          /\ type # "MSDOS" => u[q].type = "PRIMARY"
  BY <1>4 DEF Sound
<1> QED BY <1>2, <1>5, <1>7, <1>8 DEF Sound, k, L
-----------------------------------------------------------------------------
(* The steps                                                               *)

\* The numbers of the disk stay sound whatever part of a commit is done; between
\* commits the disk has the partitions of the system, so that an action creates a
\* partition that is not on the disk yet.
IInv ==
  /\ pt \in {"MSDOS", "GPT"} /\ (pt = "MSDOS" => DeviceRange > 4)
  /\ Sound(pt, staging)
  /\ Sound(pt, disk)
  /\ phase = "edit" => todo = {} /\ DOMAIN disk = DOMAIN system
  /\ \A a \in todo : a.op = "create" => a = Act("create", a.sid) /\ a.sid \in DOMAIN staging \ DOMAIN disk

\* What partitions have on disk includes their numbers.
LEMMA OnDiskSound ==
  ASSUME NEW type, NEW t, Sound(type, t)
  PROVE  Sound(type, OnDisk(t)) /\ DOMAIN OnDisk(t) = DOMAIN t
<1>1. /\ DOMAIN OnDisk(t) = DOMAIN t
      /\ \A p \in DOMAIN t : /\ {"type", "number"} \subseteq DOMAIN OnDisk(t)[p]
                             /\ OnDisk(t)[p].number = t[p].number /\ OnDisk(t)[p].type = t[p].type
  BY DEF OnDisk
<1> QED BY <1>1, SameNumbers

\* At first the disk, the system and staging have the same partitions.
LEMMA InitIInv == Init => IInv
<1> SUFFICES ASSUME Init PROVE IInv
  OBVIOUS
<1>1. PICK d \in Disks : /\ pt = d.pt /\ disk = OnDisk(d.partitions) /\ system = d.partitions
                         /\ staging = d.partitions /\ todo = {}
  BY DEF Init
<1> QED BY <1>1, DisksAssumption, OnDiskSound DEF IInv, Proper

\* Edits that leave numbers and types alone.
LEMMA EditSound ==
  ASSUME IInv, NEW t, Edit(t), Sound(pt, t)
  PROVE  IInv'
BY DEF IInv, Edit

\* A new partition gets a number that is free.
LEMMA CreateSound ==
  ASSUME IInv, Create
  PROVE  IInv'
<1>1. PICK p \in Sid \ (DOMAIN staging \cup DOMAIN system), slot \in UnusedSlots(pt, staging) :
        \E type \in slot.types, region \in Chosen(slot) : \E number \in NumbersFor(slot, type) :
          Edit(CreatePartition(staging, p, type, number, region, p \in Swaps /\ type # "EXTENDED"))
  BY DEF Create
<1>2. PICK type \in slot.types, region \in Chosen(slot) : \E number \in NumbersFor(slot, type) :
          Edit(CreatePartition(staging, p, type, number, region, p \in Swaps /\ type # "EXTENDED"))
  BY <1>1
<1>3. PICK number \in NumbersFor(slot, type) :
          Edit(CreatePartition(staging, p, type, number, region, p \in Swaps /\ type # "EXTENDED"))
  BY <1>2
<1> DEFINE u == CreatePartition(staging, p, type, number, region, p \in Swaps /\ type # "EXTENDED")
<1>4. /\ DOMAIN u = DOMAIN staging \cup {p} /\ \A q \in DOMAIN staging : u[q] = staging[q]
      /\ {"type", "number"} \subseteq DOMAIN u[p] /\ u[p].type = type /\ u[p].number = number
  BY <1>1 DEF CreatePartition
<1> HIDE DEF u
<1>5. Sound(pt, staging) /\ pt \in {"MSDOS", "GPT"}
  BY DEF IInv
<1>6. /\ pt # "MSDOS" => type = "PRIMARY"
      /\ IF type = "LOGICAL" THEN number = MaxPrimary(pt) + NumLogical(staging) + 1
                             ELSE number \in 1 .. MaxPrimary(pt) \ Numbers(staging)
  <2>1. CASE slot \in PrimarySlots(pt, staging)
    <3>1. /\ slot.number = FirstMissing(Numbers(staging)) /\ type \in {"PRIMARY", "EXTENDED"}
          /\ PrimaryPossible(pt, staging) /\ (pt # "MSDOS" => type = "PRIMARY")
      BY <2>1 DEF PrimarySlots
    <3>2. slot.number \in 1 .. MaxPrimary(pt) \ Numbers(staging)
      BY <1>5, <3>1, PrimaryNumber
    <3> QED BY <3>1, <3>2 DEF NumbersFor
  <2>2. CASE slot \in LogicalSlots(pt, staging)
    <3>1. /\ slot.number = MaxPrimary(pt) + NumLogical(staging) + 1 /\ type = "LOGICAL" /\ HasExtended(staging)
      BY <2>2 DEF LogicalSlots, LogicalPossible
    <3>2. pt = "MSDOS"
      BY <1>5, <3>1 DEF HasExtended, OfType, Sound
    <3> QED BY <3>1, <3>2 DEF NumbersFor
  <2> QED BY <2>1, <2>2 DEF UnusedSlots
<1>7. Sound(pt, u)
  BY <1>1, <1>4, <1>5, <1>6, AddSound
<1> QED BY <1>3, <1>7, EditSound DEF u

\* The other calls of a client delete a partition and close the gap, or keep all numbers.
LEMMA OtherEditsSound ==
  ASSUME IInv, Delete \/ Resize \/ Deactivate
  PROVE  IInv'
<1>1. Sound(pt, staging)
  BY DEF IInv
<1>2. ASSUME Delete PROVE IInv'
  <2>1. PICK p \in DOMAIN staging : Edit(DeletePartition(staging, p, system))
    BY <1>2 DEF Delete
  <2> QED BY <1>1, <2>1, DeleteSound, EditSound
<1>3. ASSUME Resize PROVE IInv'
  <2>1. PICK p \in DOMAIN staging : \E region : Edit([staging EXCEPT ![p].region = region])
    BY <1>3 DEF Resize
  <2>2. PICK region : Edit([staging EXCEPT ![p].region = region])
    BY <2>1
  <2> DEFINE u == [staging EXCEPT ![p].region = region]
  <2>3. DOMAIN u = DOMAIN staging
        /\ \A q \in DOMAIN staging : u[q] = IF q = p THEN [staging[q] EXCEPT !.region = region] ELSE staging[q]
    OBVIOUS
  <2>4. \A q \in DOMAIN staging : {"type", "number"} \subseteq DOMAIN staging[q]
    BY <1>1 DEF Sound
  <2>5. \A q \in DOMAIN staging : /\ {"type", "number"} \subseteq DOMAIN u[q]
                                 /\ u[q].number = staging[q].number /\ u[q].type = staging[q].type
    BY <2>3, <2>4
  <2> HIDE DEF u
  <2> QED BY <1>1, <2>2, <2>3, <2>5, SameNumbers, EditSound DEF u
<1>4. ASSUME Deactivate PROVE IInv'
  <2>1. PICK p \in DOMAIN staging : Edit([staging EXCEPT ![p].active = FALSE])
    BY <1>4 DEF Deactivate, Active
  <2> DEFINE u == [staging EXCEPT ![p].active = FALSE]
  <2>2. DOMAIN u = DOMAIN staging
        /\ \A q \in DOMAIN staging : u[q] = IF q = p THEN [staging[q] EXCEPT !.active = FALSE] ELSE staging[q]
    OBVIOUS
  <2>3. \A q \in DOMAIN staging : {"type", "number"} \subseteq DOMAIN staging[q]
    BY <1>1 DEF Sound
  <2>4. \A q \in DOMAIN staging : /\ {"type", "number"} \subseteq DOMAIN u[q]
                                 /\ u[q].number = staging[q].number /\ u[q].type = staging[q].type
    BY <2>2, <2>3
  <2> HIDE DEF u
  <2> QED BY <1>1, <2>1, <2>2, <2>4, SameNumbers, EditSound DEF u
<1> QED BY <1>2, <1>3, <1>4

\* What is to be created is not in the system, which is what the disk has.
LEMMA ActiongraphSound ==
  ASSUME IInv, CalculateActiongraph
  PROVE  IInv'
<1>1. \A a \in todo' : a.op = "create" => a = Act("create", a.sid) /\ a.sid \in DOMAIN staging \ DOMAIN system
  BY DEF CalculateActiongraph, Actions, Act
<1> QED BY <1>1 DEF IInv, CalculateActiongraph

\* A step of a commit that creates nothing.
LEMMA CommitSound ==
  ASSUME IInv, NEW a, NEW t, NEW w, NEW f, Commit(a, t, w, f), Sound(pt, t), DOMAIN t \subseteq DOMAIN disk
  PROVE  IInv'
BY DEF IInv, Commit
\* rm closes the gap among the logical partitions of the disk.
LEMMA RemovalSound ==
  ASSUME IInv, NEW a, CommitDelete(a)
  PROVE  IInv'
<1>1. PICK q \in Named(a) :
        Commit(a, IF disk[q].type = "LOGICAL" THEN ShiftLogicals(Without(disk, Removed(disk, q)), disk[q].number)
                                              ELSE Without(disk, Removed(disk, q)), swapped, fstab)
  BY DEF CommitDelete
<1>2. q \in DOMAIN disk /\ Sound(pt, disk)
  BY DEF Named, Numbered, IInv
<1>3. CASE disk[q].type = "LOGICAL"
  <2> DEFINE u == ShiftLogicals(Without(disk, {q}), disk[q].number)
  <2>1. Removed(disk, q) = {q} /\ q \in OfType(disk, "LOGICAL")
    BY <1>2, <1>3 DEF Removed, OfType
  <2>2. Commit(a, u, swapped, fstab)
    BY <1>1, <1>3, <2>1
  <2>3. Sound(pt, u)
    BY <1>2, <2>1, ShiftSound
  <2>4. DOMAIN u \subseteq DOMAIN disk
    BY DEF ShiftLogicals, Without
  <2> QED BY <2>2, <2>3, <2>4, CommitSound
<1>4. CASE disk[q].type # "LOGICAL"
  <2> DEFINE u == Without(disk, Removed(disk, q))
  <2>1. Commit(a, u, swapped, fstab)
    BY <1>1, <1>4
  <2>2. Removed(disk, q) \cap OfType(disk, "LOGICAL") = {} \/ OfType(disk, "LOGICAL") \subseteq Removed(disk, q)
    BY <1>4 DEF Removed, OfType
  <2>3. Sound(pt, u)
    BY <1>2, <2>2, WithoutSound
  <2>4. DOMAIN u \subseteq DOMAIN disk
    BY DEF Without
  <2> QED BY <2>1, <2>3, <2>4, CommitSound
<1> QED BY <1>3, <1>4

\* resizepart keeps all numbers.
LEMMA ResizingSound ==
  ASSUME IInv, NEW a, CommitResize(a)
  PROVE  IInv'
<1>1. PICK q \in Named(a) : Commit(a, Resized(q, a.sid), swapped, fstab)
  BY DEF CommitResize
<1>2. q \in DOMAIN disk /\ Sound(pt, disk)
  BY DEF Named, Numbered, IInv
<1> DEFINE u == Resized(q, a.sid)
<1>3. PICK r : DOMAIN u = DOMAIN disk
               /\ \A p \in DOMAIN disk : u[p] = IF p = q THEN [disk[p] EXCEPT !.region = r] ELSE disk[p]
  <2>1. u = [disk EXCEPT ![q] = [disk[q] EXCEPT !.region = Region(disk[q].region.start, End(staging[a.sid].region))]]
    BY DEF Resized
  <2> QED BY <1>2, <2>1
<1>4. \A p \in DOMAIN disk : {"type", "number"} \subseteq DOMAIN disk[p]
  BY <1>2 DEF Sound
<1> HIDE DEF u
<1>5. \A p \in DOMAIN disk : /\ {"type", "number"} \subseteq DOMAIN u[p]
                            /\ u[p].number = disk[p].number /\ u[p].type = disk[p].type
  BY <1>3, <1>4
<1> QED BY <1>1, <1>2, <1>3, <1>5, SameNumbers, CommitSound DEF u

\* mkpart takes a number that is free, also when temporary partitions take others first.
LEMMA CreationSound ==
  ASSUME IInv, NEW a \in todo, CommitCreate(a)
  PROVE  IInv'
<1>1. PICK u \in Created(a.sid) : Commit(a, u, swapped, fstab)
  BY DEF CommitCreate
<1> DEFINE p == a.sid
           tmps == TemporaryNumbers(p)
           kept == {q \in DOMAIN disk : disk[q].number \notin tmps}
           D == Without(disk, DOMAIN disk \ kept)
<1>2. a.op = "create" /\ p \in DOMAIN staging \ DOMAIN disk /\ Sound(pt, disk) /\ Sound(pt, staging)
      /\ pt \in {"MSDOS", "GPT"} /\ (pt = "MSDOS" => DeviceRange > 4)
  BY DEF CommitCreate, IInv
<1>3. PICK number \in NextNumbers(staging[p].type, Cardinality(tmps)) :
        u = [q \in kept \cup {p} |->
               IF q = p THEN [type |-> staging[p].type, number |-> number, region |-> staging[p].region]
                        ELSE disk[q]]
  BY DEF Created
<1>4. DOMAIN D = kept /\ kept \subseteq DOMAIN disk /\ \A q \in kept : D[q] = disk[q]
  BY DEF Without
<1>5. \A n \in tmps : n <= MaxPrimary(pt)
  <2>1. CASE staging[p].type = "LOGICAL"
    BY <2>1 DEF TemporaryNumbers
  <2>2. CASE staging[p].type # "LOGICAL"
    <3>1. staging[p].number \in Nat /\ staging[p].number <= MaxPrimary(pt)
      BY <1>2, <2>2 DEF Sound
    <3> QED BY <2>2, <3>1, MaxPrimaryType DEF TemporaryNumbers
  <2> QED BY <2>1, <2>2
<1> HIDE DEF D, tmps
<1>6. Sound(pt, D)
  <2>1. (DOMAIN disk \ kept) \cap OfType(disk, "LOGICAL") = {}
    <3>1. ASSUME NEW q \in OfType(disk, "LOGICAL") PROVE disk[q].number \notin tmps
      <4>1. disk[q].number \in MaxPrimary(pt) + 1 .. MaxPrimary(pt) + NumLogical(disk)
        BY <1>2 DEF Sound, OfType
      <4>2. NumLogical(disk) \in Nat /\ MaxPrimary(pt) \in Nat
        BY <1>2, NumbersFinite, MaxPrimaryType
      <4> QED BY <1>5, <4>1, <4>2
    <3> QED BY <3>1
  <2> QED BY <1>2, <2>1, WithoutSound DEF D
<1>7. staging[p].type = "LOGICAL" => NumLogical(D) = NumLogical(disk)
  <2>1. ASSUME staging[p].type = "LOGICAL" PROVE kept = DOMAIN disk
    BY <2>1 DEF tmps, TemporaryNumbers
  <2>2. ASSUME kept = DOMAIN disk PROVE OfType(D, "LOGICAL") = OfType(disk, "LOGICAL")
    <3> HIDE DEF kept
    <3> QED BY <1>4, <2>2 DEF OfType
  <2> QED BY <2>1, <2>2 DEF NumLogical
<1> HIDE DEF kept
<1>8. /\ DOMAIN u = DOMAIN D \cup {p} /\ p \notin DOMAIN D /\ \A q \in DOMAIN D : u[q] = D[q]
      /\ {"type", "number"} \subseteq DOMAIN u[p] /\ u[p].type = staging[p].type /\ u[p].number = number
  BY <1>2, <1>3, <1>4
<1>9. pt # "MSDOS" => u[p].type = "PRIMARY"
  BY <1>2, <1>8 DEF Sound
<1>10. Sound(pt, u)
  <2>1. CASE staging[p].type = "LOGICAL"
    <3>1. pt = "MSDOS"
      BY <1>2, <2>1 DEF Sound
    <3>2. MaxPrimary(pt) = 4 /\ NumLogical(disk) \in Nat
      BY <1>2, <3>1, MaxPrimaryType, NumbersFinite
    <3>3. number = 5 + NumLogical(disk)
      BY <1>3, <2>1 DEF NextNumbers
    <3>4. u[p].number = MaxPrimary(pt) + NumLogical(D) + 1
      BY <1>7, <1>8, <2>1, <3>2, <3>3
    <3> QED BY <1>6, <1>8, <1>9, <2>1, <3>4, AddSound
  <2>2. CASE staging[p].type # "LOGICAL"
    <3>1. number \in 1 .. MaxPrimary(pt) /\ Numbered(number) = {}
      BY <1>3, <2>2 DEF NextNumbers
    <3>2. number \notin Numbers(D)
      BY <1>4, <3>1 DEF Numbers, Numbered
    <3> QED BY <1>6, <1>8, <1>9, <2>2, <3>1, <3>2, AddSound
  <2> QED BY <2>1, <2>2
<1>11. ASSUME NEW b \in todo', b.op = "create"
       PROVE  b = Act("create", b.sid) /\ b.sid \in DOMAIN staging' \ DOMAIN u
  <2>1. b \in todo /\ b # a /\ staging' = staging
    BY <1>1, <1>11 DEF Commit
  <2>2. b = Act("create", b.sid) /\ b.sid \in DOMAIN staging \ DOMAIN disk /\ a = Act("create", a.sid)
    BY <1>2, <1>11, <2>1 DEF IInv
  <2>3. b.sid # p
    BY <2>1, <2>2
  <2> QED BY <1>4, <1>8, <2>1, <2>2, <2>3
<1>12. disk' = u /\ UNCHANGED <<pt, staging, phase>> /\ phase # "edit"
  BY <1>1 DEF Commit
<1> QED BY <1>10, <1>11, <1>12 DEF IInv

\* Probing copies the numbers of the disk.
LEMMA ProbeSound ==
  ASSUME IInv, Probe
  PROVE  IInv'
<1>1. /\ DOMAIN staging' = DOMAIN disk /\ system' = staging' /\ UNCHANGED <<pt, disk>> /\ todo' = {}
      /\ \A p \in DOMAIN disk : /\ {"type", "number"} \subseteq DOMAIN staging'[p]
                             /\ staging'[p].number = disk[p].number /\ staging'[p].type = disk[p].type
  BY DEF Probe
<1>2. Sound(pt, staging')
  <2>1. PICK t : t = staging'
    OBVIOUS
  <2> QED BY <1>1, <2>1, SameNumbers DEF IInv
<1> QED BY <1>1, <1>2 DEF IInv

\* Every step keeps the numbers sound.
LEMMA StepIInv == IInv /\ [Next]_vars => IInv'
<1>1. ASSUME IInv, NEW a \in Ready,
             CommitRename(a) \/ CommitAddFstab(a) \/ CommitRemoveFstab(a) \/ CommitUnmount(a)
      PROVE  IInv'
  <2>1. UNCHANGED <<pt, disk, staging, system, phase>> /\ todo' \subseteq todo
    BY <1>1 DEF CommitRename, CommitAddFstab, CommitRemoveFstab, CommitUnmount, Commit
  <2> QED BY <1>1, <2>1 DEF IInv
<1>2. ASSUME IInv, UNCHANGED vars PROVE IInv'
  BY <1>2 DEF vars, IInv
<1>3. \A a \in Ready : a \in todo
  BY DEF Ready
<1> QED BY <1>1, <1>2, <1>3, CreateSound, OtherEditsSound, ActiongraphSound, RemovalSound, ResizingSound,
           CreationSound, ProbeSound DEF Next

\* The inductive invariant of the numbers.
LEMMA Invariance == Spec => []IInv
BY InitIInv, StepIInv, PTL DEF Spec

\* However a client creates and deletes partitions, chooses numbers of its own, and
\* whatever part of a commit was done before probing again: no two partitions in
\* staging have one number, and the numbers of primary and extended ones exist in
\* the partition table.
THEOREM NumbersUnique == Spec => []NumbersSound
<1>1. IInv => NumbersSound
  BY DEF IInv, Sound, NumbersSound, OfType
<1> QED BY <1>1, Invariance, PTL

\* The same on the disk, in every state of a commit: no tool ever gives a number
\* that is in use, and the logical partitions have the numbers from 5 up.
THEOREM DiskSound == Spec => []Sound(pt, disk)
<1>1. IInv => Sound(pt, disk)
  BY DEF IInv
<1> QED BY <1>1, Invariance, PTL
-----------------------------------------------------------------------------
(* Regions                                                                 *)

\* A finite set of numbers has a greatest element: one with fewest above it.
LEMMA GreatestInt ==
  ASSUME NEW S \in SUBSET Int, S # {}, IsFiniteSet(S)
  PROVE  Max(S) \in S /\ \A y \in S : y <= Max(S)
<1> DEFINE above(x) == {y \in S : y > x}
           U == {above(x) : x \in S}
<1>1. IsWellFoundedOn(StrictSubsetOrdering(S), FiniteSubsetsOf(S))
  BY FS_StrictSubsetOrderingWellFounded
<1>2. U \subseteq FiniteSubsetsOf(S) /\ U # {}
  <2>1. \A x \in S : above(x) \in SUBSET S
    OBVIOUS
  <2> HIDE DEF above
  <2>2. \A x \in S : IsFiniteSet(above(x))
    BY <2>1, FS_Subset
  <2> QED BY <2>1, <2>2 DEF FiniteSubsetsOf
<1>3. PICK A \in U : \A B \in U : ~ (<<B, A>> \in StrictSubsetOrdering(S))
  <2> HIDE DEF U
  <2> QED BY <1>1, <1>2, WFMin
<1>4. PICK m \in S : A = above(m)
  OBVIOUS
<1>5. ASSUME NEW y \in S, ~ y <= m PROVE FALSE
  <2>1. above(y) \subseteq above(m) /\ y \in above(m) /\ y \notin above(y)
    <3>1. y > m /\ y \in Int /\ m \in Int /\ \A x \in S : x \in Int
      BY <1>5
    <3>2. \A x \in S : x > y => x > m
      BY <3>1
    <3>3. (above(y) \subseteq above(m))
      BY <3>2
    <3>4. y \in above(m)
      BY <3>1
    <3>5. y \notin above(y)
      BY <3>1
    <3> QED BY <3>3, <3>4, <3>5
  <2>2. <<above(y), above(m)>> \in StrictSubsetOrdering(S)
    BY <2>1 DEF StrictSubsetOrdering
  <2> QED BY <1>3, <1>4, <2>2
<1>6. \E x \in S : \A y \in S : x >= y
  BY <1>5
<1>7. Max(S) \in S /\ \A y \in S : Max(S) >= y
  BY <1>6 DEF Max
<1> QED BY <1>7

\* Regions, as PartitionTable has them.
RegionType == [start : Int, length : Int]

\* Finitely many partitions have finitely many regions.
LEMMA RegionsFinite ==
  ASSUME NEW t, NEW S, IsFiniteSet(S)
  PROVE  IsFiniteSet(Regions(t, S))
<1> DEFINE f == [p \in S |-> t[p].region]
<1>1. f \in Surjection(S, Regions(t, S))
  BY DEF Surjection, Regions
<1> QED BY <1>1, FS_Surjection

\* The first sector behind some regions.
LEMMA BehindType ==
  ASSUME NEW a \in Int, NEW S \in SUBSET RegionType, IsFiniteSet(S)
  PROVE  LET b == Max({a} \cup {End(u) + 1 : u \in S})
         IN  b \in Int /\ a <= b /\ \A u \in S : End(u) < b
<1> DEFINE E == {End(u) + 1 : u \in S}
           f == [u \in S |-> End(u) + 1]
<1>1. \A u \in S : End(u) \in Int
  BY DEF End, RegionType
<1>2. IsFiniteSet(E)
  <2>1. f \in Surjection(S, E)
    BY DEF Surjection
  <2> QED BY <2>1, FS_Surjection
<1>3. E \subseteq Int
  BY <1>1
<1>4. IsFiniteSet({a} \cup E) /\ {a} \cup E \in SUBSET Int /\ {a} \cup E # {}
  <2>1. {a} \cup E = E \cup {a}
    OBVIOUS
  <2> HIDE DEF E
  <2>2. IsFiniteSet(E \cup {a})
    BY <1>2, FS_AddElement
  <2> QED BY <1>3, <2>1, <2>2
<1>5. Max({a} \cup E) \in {a} \cup E /\ \A y \in {a} \cup E : y <= Max({a} \cup E)
  <2> HIDE DEF E
  <2> QED BY <1>4, GreatestInt
<1>6. \A u \in S : End(u) + 1 <= Max({a} \cup E)
  BY <1>5
<1>7. Max({a} \cup E) \in Int /\ a <= Max({a} \cup E)
  BY <1>4, <1>5
<1> HIDE DEF E
<1>8. \A u \in S : End(u) < Max({a} \cup E)
  BY <1>1, <1>6, <1>7
<1> QED BY <1>7, <1>8 DEF E

\* Region makes a region of two numbers.
LEMMA RegionTyped == ASSUME NEW a \in Int, NEW b \in Int
                     PROVE  Region(a, b) \in RegionType /\ Region(a, b).start = a /\ End(Region(a, b)) = b
BY DEF Region, RegionType, End

\* What is unused of a region is regions.
LEMMA UnusedTyped ==
  ASSUME NEW region \in RegionType, NEW used \in SUBSET RegionType, IsFiniteSet(used)
  PROVE  UnusedRegions(region, used) \subseteq RegionType
<1> DEFINE inside == {u \in used : End(u) >= region.start /\ u.start <= End(region)}
           behind(S) == Max({region.start} \cup {End(u) + 1 : u \in S})
           front(u) == {v \in inside : v.start < u.start}
           gaps == {Region(behind(front(u)), u.start - 1) : u \in inside}
           last == Region(behind(inside), End(region))
<1>1. region.start \in Int /\ End(region) \in Int /\ \A u \in used : u.start \in Int
  BY DEF RegionType, End
<1>2. ASSUME NEW S \in SUBSET used PROVE behind(S) \in Int
  <2>1. IsFiniteSet(S) /\ S \in SUBSET RegionType
    BY <1>2, FS_Subset
  <2> QED BY <1>1, <2>1, BehindType
<1>3. UnusedRegions(region, used) \subseteq gaps \cup {last}
  BY DEF UnusedRegions
<1> HIDE DEF behind
<1>4. last \in RegionType
  BY <1>1, <1>2, RegionTyped
<1>5. \A u \in inside : Region(behind(front(u)), u.start - 1) \in RegionType
  BY <1>1, <1>2, RegionTyped
<1> QED BY <1>3, <1>4, <1>5

\* Alignment makes regions of regions.
LEMMA AlignTyped ==
  ASSUME NEW r \in RegionType
  PROVE  AlignKeepEnd(r) \cup AlignKeepStart(r) \cup Align(r) \subseteq RegionType
<1>1. r.start \in Int /\ End(r) \in Int
  BY DEF RegionType, End
<1>2. Offset \in Nat /\ Grain \in Nat \ {0} /\ Word \in Nat \ {0}
  BY GeometryAssumption
<1>3. \A b \in Int : AlignStart(b) \in Int
  <2> SUFFICES ASSUME NEW b \in Int PROVE AlignStart(b) \in Int
    OBVIOUS
  <2>1. \A x \in Int : x % Word \in Int /\ x % Grain \in Int
    BY <1>2
  <2> QED BY <1>2, <2>1 DEF AlignStart
<1>4. \A b \in Int : AlignEnd(b) \subseteq Int
  <2> SUFFICES ASSUME NEW b \in Int PROVE AlignEnd(b) \subseteq Int
    OBVIOUS
  <2>1. \A x \in Int : x % Word \in Int /\ x % Grain \in Int
    BY <1>2
  <2> QED BY <1>2, <2>1 DEF AlignEnd
<1> QED BY <1>1, <1>3, <1>4, RegionTyped DEF AlignKeepEnd, AlignKeepStart, Align
-----------------------------------------------------------------------------
(* What editing changes                                                    *)

\* Of a table t that began as L, with partitions removed and new ones: numbers only
\* get smaller, those of primary and extended partitions stay. Logical partitions
\* stay in order and new ones come last.
Follows(L, t) ==
  /\ \A p \in DOMAIN L \cap DOMAIN t :
       /\ t[p].type = L[p].type /\ t[p].number <= L[p].number
       /\ t[p].type # "LOGICAL" => t[p].number = L[p].number
  /\ \A p, q \in OfType(t, "LOGICAL") :
       p \in DOMAIN L /\ (q \in DOMAIN L => L[p].number < L[q].number) => t[p].number < t[q].number

\* Every partition has a natural number.
Naturals0(t) == \A p \in DOMAIN t : t[p].number \in Nat

\* A table with the same types and numbers follows.
LEMMA FollowsItself ==
  ASSUME NEW L, Naturals0(L), NEW t, DOMAIN t = DOMAIN L,
         \A p \in DOMAIN L : t[p].number = L[p].number /\ t[p].type = L[p].type
  PROVE  Follows(L, t)
BY DEF Follows, OfType, Naturals0

\* It follows still if partitions go and the numbers left get smaller in order.
LEMMA FollowsFewer ==
  ASSUME NEW L, NEW t, NEW u, Naturals0(L), Naturals0(t), Naturals0(u), Follows(L, t), DOMAIN u \subseteq DOMAIN t,
         \A p \in DOMAIN u : /\ u[p].type = t[p].type /\ u[p].number <= t[p].number
                             /\ p \in DOMAIN L /\ u[p].type # "LOGICAL" => u[p].number = t[p].number,
         \A p, q \in OfType(t, "LOGICAL") \cap DOMAIN u : t[p].number < t[q].number => u[p].number < u[q].number
  PROVE  Follows(L, u)
<1>1. ASSUME NEW p \in DOMAIN L \cap DOMAIN u
      PROVE  /\ u[p].type = L[p].type /\ u[p].number <= L[p].number
             /\ u[p].type # "LOGICAL" => u[p].number = L[p].number
  BY DEF Follows, Naturals0
<1>2. ASSUME NEW p \in OfType(u, "LOGICAL"), NEW q \in OfType(u, "LOGICAL"),
             p \in DOMAIN L, q \in DOMAIN L => L[p].number < L[q].number
      PROVE  u[p].number < u[q].number
  <2>1. p \in OfType(t, "LOGICAL") \cap DOMAIN u /\ q \in OfType(t, "LOGICAL") \cap DOMAIN u
    BY DEF OfType
  <2> QED BY <1>2, <2>1 DEF Follows
<1> QED BY <1>1, <1>2 DEF Follows

\* It follows still if a new partition comes and a logical one comes last.
LEMMA FollowsMore ==
  ASSUME NEW L, NEW t, NEW u, Follows(L, t), NEW p, p \notin DOMAIN L, p \notin DOMAIN t,
         DOMAIN u = DOMAIN t \cup {p},
         \A q \in DOMAIN t : u[q].type = t[q].type /\ u[q].number = t[q].number,
         u[p].type = "LOGICAL" => \A q \in OfType(t, "LOGICAL") : t[q].number < u[p].number
  PROVE  Follows(L, u)
<1>1. ASSUME NEW q \in DOMAIN L \cap DOMAIN u
      PROVE  /\ u[q].type = L[q].type /\ u[q].number <= L[q].number
             /\ u[q].type # "LOGICAL" => u[q].number = L[q].number
  BY DEF Follows
<1>2. ASSUME NEW q \in OfType(u, "LOGICAL"), NEW r \in OfType(u, "LOGICAL"),
             q \in DOMAIN L, r \in DOMAIN L => L[q].number < L[r].number
      PROVE  u[q].number < u[r].number
  <2>1. q \in OfType(t, "LOGICAL")
    BY <1>2 DEF OfType
  <2>2. CASE r = p
    BY <2>1, <2>2 DEF OfType
  <2>3. CASE r # p
    <3>1. r \in OfType(t, "LOGICAL")
      BY <2>3 DEF OfType
    <3> QED BY <1>2, <2>1, <3>1 DEF Follows, OfType
  <2> QED BY <2>2, <2>3
<1> QED BY <1>1, <1>2 DEF Follows

\* A deletion changes nothing but numbers.
LEMMA DeleteRenumbers ==
  ASSUME NEW type, NEW t, Sound(type, t), \A q \in DOMAIN t : t[q] \in Partition,
         NEW p \in DOMAIN t, NEW system0
  PROVE  LET u == DeletePartition(t, p, system0)
         IN  /\ DOMAIN u = DOMAIN t \ Removed(t, p)
             /\ \A q \in DOMAIN u :
                  /\ u[q] \in Partition
                  /\ u[q].type = t[q].type /\ u[q].region = t[q].region
                  /\ u[q].listed = t[q].listed /\ u[q].active = t[q].active
                  /\ u[q].number <= t[q].number
                  /\ q \in DOMAIN system0 /\ u[q].type # "LOGICAL" => u[q].number = t[q].number
             /\ \A q, x \in OfType(t, "LOGICAL") \cap DOMAIN u :
                  t[q].number < t[x].number => u[q].number < u[x].number
<1> DEFINE R == Without(t, Removed(t, p))
           u == DeletePartition(t, p, system0)
           n == t[p].number
<1>1. DOMAIN R = DOMAIN t \ Removed(t, p) /\ \A q \in DOMAIN R : R[q] = t[q]
  BY DEF Without
<1>2. n \in Nat \ {0} /\ \A q \in DOMAIN t : t[q].number \in Nat \ {0}
  BY DEF Sound
<1>3. CASE t[p].type = "LOGICAL"
  <2>1. /\ DOMAIN u = DOMAIN t \ Removed(t, p)
        /\ \A q \in DOMAIN u : u[q] = IF t[q].number > n THEN [t[q] EXCEPT !.number = @ - 1] ELSE t[q]
    BY <1>1, <1>3 DEF DeletePartition, ShiftLogicals
  <2> HIDE DEF u, n
  <2>2. ASSUME NEW q \in DOMAIN u
        PROVE  /\ u[q] \in Partition
               /\ u[q].type = t[q].type /\ u[q].region = t[q].region
               /\ u[q].listed = t[q].listed /\ u[q].active = t[q].active
               /\ u[q].number = IF t[q].number > n THEN t[q].number - 1 ELSE t[q].number
    <3>1. t[q] \in Partition /\ t[q].number \in Nat \ {0}
      BY <1>2, <2>1
    <3> QED BY <2>1, <3>1 DEF Partition
  <2>3. \A q \in DOMAIN u : q \in DOMAIN t /\ t[q].number # n /\ t[q].number \in Nat \ {0}
    <3>1. p \in Removed(t, p)
      BY DEF Removed
    <3> QED BY <1>2, <2>1, <3>1 DEF Sound, n
  <2>4. \A q \in DOMAIN u : t[q].type # "LOGICAL" => t[q].number < n
    <3>1. ASSUME NEW q \in DOMAIN u, t[q].type # "LOGICAL" PROVE t[q].number < n
      <4>1. t[q].number <= MaxPrimary(type) /\ n \in MaxPrimary(type) + 1 .. MaxPrimary(type) + NumLogical(t)
        BY <1>3, <2>3, <3>1 DEF Sound, n
      <4>2. MaxPrimary(type) \in Nat /\ NumLogical(t) \in Nat
        BY MaxPrimaryType, NumbersFinite
      <4> QED BY <2>3, <4>1, <4>2
    <3> QED BY <3>1
  <2>5. ASSUME NEW q \in DOMAIN u
        PROVE  /\ u[q].number <= t[q].number
               /\ q \in DOMAIN system0 /\ u[q].type # "LOGICAL" => u[q].number = t[q].number
    BY <1>2, <2>2, <2>3, <2>4
  <2>6. ASSUME NEW q \in DOMAIN u, NEW x \in DOMAIN u, t[q].number < t[x].number
        PROVE  u[q].number < u[x].number
    <3> DEFINE a == t[q].number
               b == t[x].number
    <3>1. a \in Nat /\ b \in Nat /\ a # n /\ b # n /\ a < b /\ n \in Nat
      BY <1>2, <2>3, <2>6
    <3>2. u[q].number = (IF a > n THEN a - 1 ELSE a) /\ u[x].number = (IF b > n THEN b - 1 ELSE b)
      BY <2>2
    <3> HIDE DEF a, b
    <3> QED BY <3>1, <3>2
  <2> QED BY <2>1, <2>2, <2>5, <2>6 DEF u
<1>4. CASE t[p].type # "LOGICAL"
  <2>1. Removed(t, p) \cap OfType(t, "LOGICAL") = {} \/ OfType(t, "LOGICAL") \subseteq Removed(t, p)
    BY <1>4 DEF Removed, OfType
  <2>2. Sound(type, R)
    BY <2>1, WithoutSound
  <2>3. \A q \in DOMAIN R : R[q].number # n
    BY DEF Without, Removed, Sound
  <2>4. u = CloseGap(R, n, system0)
    BY <1>4 DEF DeletePartition
  <2> HIDE DEF R, u, n
  <2>5. Sound(type, u) /\ \A q \in DOMAIN R : u[q].number <= R[q].number
    BY <1>2, <2>2, <2>3, <2>4, CloseGapSound
  <2>6. /\ DOMAIN u = DOMAIN R
        /\ \A q \in DOMAIN R : \/ u[q] = R[q]
                               \/ /\ R[q].type # "LOGICAL" /\ q \notin DOMAIN system0
                                  /\ \E m : u[q] = [R[q] EXCEPT !.number = m]
    BY <2>4 DEF CloseGap
  <2>7. ASSUME NEW q \in DOMAIN u
        PROVE  /\ u[q] \in Partition
               /\ u[q].type = t[q].type /\ u[q].region = t[q].region
               /\ u[q].listed = t[q].listed /\ u[q].active = t[q].active
               /\ u[q].number <= t[q].number
               /\ q \in DOMAIN system0 \/ u[q].type = "LOGICAL" => u[q].number = t[q].number
    <3>1. R[q] = t[q] /\ t[q] \in Partition /\ u[q].number \in Nat
      BY <1>1, <2>5, <2>6 DEF Sound
    <3>2. u[q].number <= t[q].number
      BY <2>5, <2>6, <3>1
    <3>3. CASE u[q] = t[q]
      BY <3>1, <3>2, <3>3 DEF Partition
    <3>4. CASE u[q] # t[q]
      <4>1. t[q].type # "LOGICAL" /\ q \notin DOMAIN system0
        BY <2>6, <3>1, <3>4
      <4>2. PICK m : u[q] = [t[q] EXCEPT !.number = m]
        BY <2>6, <3>1, <3>4
      <4>3. m \in Nat
        BY <3>1, <4>2 DEF Partition
      <4> QED BY <3>1, <3>2, <4>1, <4>2, <4>3 DEF Partition
    <3> QED BY <3>3, <3>4
  <2>8. \A q, x \in OfType(t, "LOGICAL") \cap DOMAIN u :
                  t[q].number < t[x].number => u[q].number < u[x].number
    <3>1. \A q \in OfType(t, "LOGICAL") \cap DOMAIN u : u[q].number = t[q].number
      BY <2>7 DEF OfType
    <3> QED BY <3>1
  <2> QED BY <1>1, <2>6, <2>7, <2>8 DEF u
<1> QED BY <1>3, <1>4
\* What staging keeps of the system until it is committed. A logical partition is
\* removed alone only if what is active has lower numbers, or with the extended one.
Edited ==
  /\ DOMAIN system \subseteq Sid /\ \A p \in DOMAIN system : system[p] \in Partition
  /\ DOMAIN staging \subseteq Sid /\ \A p \in DOMAIN staging : staging[p] \in Partition
  /\ Sound(pt, system)
  /\ Follows(system, staging)
  /\ \A p \in DOMAIN system \cap DOMAIN staging :
       staging[p].listed = system[p].listed /\ staging[p].region.start = system[p].region.start
  /\ Active(staging) \subseteq Active(system)
  /\ OfType(system, "EXTENDED") \subseteq DOMAIN staging \/ OfType(system, "LOGICAL") \cap DOMAIN staging = {}
  /\ \A d \in OfType(system, "LOGICAL") \ DOMAIN staging, q \in Active(staging) :
       system[q].number < system[d].number

\* Sound numbers are natural numbers.
LEMMA SoundNaturals ==
  ASSUME NEW type, NEW t, Sound(type, t)
  PROVE  Naturals0(t)
BY DEF Sound, Naturals0

\* Logical partitions have higher numbers than all others.
LEMMA PrimariesFirst ==
  ASSUME NEW type, NEW t, Sound(type, t), NEW p \in DOMAIN t, t[p].type # "LOGICAL", NEW q \in OfType(t, "LOGICAL")
  PROVE  t[p].number < t[q].number
<1>1. /\ q \in DOMAIN t /\ t[p].number <= MaxPrimary(type)
      /\ t[q].number \in MaxPrimary(type) + 1 .. MaxPrimary(type) + NumLogical(t)
      /\ t[p].number \in Nat
  BY DEF Sound, OfType
<1>2. MaxPrimary(type) \in Nat /\ NumLogical(t) \in Nat
  BY MaxPrimaryType, NumbersFinite
<1> QED BY <1>1, <1>2

\* A slot has a region and types, whatever is in staging.
LEMMA SlotTyped ==
  ASSUME NEW t, IsFiniteSet(DOMAIN t), \A p \in DOMAIN t : t[p] \in Partition, NEW type,
         NEW slot \in UnusedSlots(type, t)
  PROVE  slot.region \in RegionType /\ slot.types \subseteq {"PRIMARY", "EXTENDED", "LOGICAL"}
<1>1. ASSUME NEW S \in SUBSET DOMAIN t
      PROVE  Regions(t, S) \in SUBSET RegionType /\ IsFiniteSet(Regions(t, S))
  <2>1. IsFiniteSet(S)
    BY FS_Subset
  <2> QED BY <1>1, <2>1, RegionsFinite DEF Regions, Partition, RegionType
<1>2. CASE slot \in PrimarySlots(type, t)
  <2> DEFINE others == Regions(t, DOMAIN t \ OfType(t, "LOGICAL"))
  <2>1. /\ slot.region \in UNION {AlignKeepEnd(r) : r \in UnusedRegions(UsableRegion(type), others)}
        /\ slot.types \subseteq {"PRIMARY", "EXTENDED"}
    BY <1>2 DEF PrimarySlots
  <2>2. UsableRegion(type) \in RegionType
    <3>1. DiskLength \in Int /\ MaxSectors \in Int /\ MbrGap \in Int /\ GptEntries \in Int
      BY GeometryAssumption
    <3>2. \A a \in Int, b \in Int : Max({a, b}) \in Int
      <4>1. ASSUME NEW a \in Int, NEW b \in Int PROVE Max({a, b}) \in Int
        <5>1. {a, b} \in SUBSET Int /\ {a, b} # {} /\ IsFiniteSet({a, b})
          <6>1. IsFiniteSet({a}) /\ {a, b} = {a} \cup {b}
            BY FS_Singleton
          <6> QED BY <6>1, FS_AddElement
        <5> QED BY <5>1, GreatestInt
      <4> QED BY <4>1
    <3>3. UnusableFront(type) \in Int /\ UnusableBack(type) \in Int
      BY <3>1, <3>2 DEF UnusableFront, UnusableBack
    <3> QED BY <3>1, <3>3, RegionTyped DEF UsableRegion
  <2>3. others \in SUBSET RegionType /\ IsFiniteSet(others)
    BY <1>1
  <2> HIDE DEF others
  <2>4. UnusedRegions(UsableRegion(type), others) \subseteq RegionType
    BY <2>2, <2>3, UnusedTyped
  <2> QED BY <2>1, <2>4, AlignTyped
<1>3. CASE slot \in LogicalSlots(type, t)
  <2> DEFINE extended == t[Extended(t)].region
             used == Regions(t, OfType(t, "LOGICAL"))
  <2>1. PICK r \in UnusedRegions(extended, used), n \in {NumEbrs * 1, NumEbrs * 2} :
          /\ slot.region \in AlignKeepEnd([start |-> r.start + NumEbrs, length |-> r.length - n])
          /\ slot.types \subseteq {"LOGICAL"} /\ HasExtended(t)
    BY <1>3 DEF LogicalSlots
  <2>2. extended \in RegionType
    <3>1. Extended(t) \in DOMAIN t
      BY <2>1 DEF Extended, HasExtended, OfType
    <3> QED BY <3>1 DEF Partition, RegionType
  <2>3. used \in SUBSET RegionType /\ IsFiniteSet(used)
    BY <1>1 DEF OfType
  <2> HIDE DEF extended, used
  <2>4. r \in RegionType
    BY <2>2, <2>3, UnusedTyped
  <2>5. NumEbrs \in Int /\ n \in Int
    BY GeometryAssumption
  <2>6. [start |-> r.start + NumEbrs, length |-> r.length - n] \in RegionType
    BY <2>4, <2>5 DEF RegionType
  <2> QED BY <2>1, <2>6, AlignTyped
<1> QED BY <1>2, <1>3 DEF UnusedSlots

\* Creating a partition leaves those of the system alone.
LEMMA CreateEdited ==
  ASSUME IInv, Edited, Create
  PROVE  Edited'
<1>1. PICK p \in Sid \ (DOMAIN staging \cup DOMAIN system), slot \in UnusedSlots(pt, staging) :
        \E type \in slot.types, region \in Chosen(slot) : \E number \in NumbersFor(slot, type) :
          Edit(CreatePartition(staging, p, type, number, region, p \in Swaps /\ type # "EXTENDED"))
  BY DEF Create
<1>2. PICK type \in slot.types, region \in Chosen(slot) : \E number \in NumbersFor(slot, type) :
          Edit(CreatePartition(staging, p, type, number, region, p \in Swaps /\ type # "EXTENDED"))
  BY <1>1
<1>3. PICK number \in NumbersFor(slot, type) :
          Edit(CreatePartition(staging, p, type, number, region, p \in Swaps /\ type # "EXTENDED"))
  BY <1>2
<1> DEFINE u == CreatePartition(staging, p, type, number, region, p \in Swaps /\ type # "EXTENDED")
<1>4. /\ DOMAIN u = DOMAIN staging \cup {p} /\ \A q \in DOMAIN staging : u[q] = staging[q]
      /\ u[p] = [type |-> type, number |-> number, region |-> region,
                 listed |-> p \in Swaps /\ type # "EXTENDED", active |-> FALSE]
  BY <1>1 DEF CreatePartition
<1> HIDE DEF u
<1>5. staging' = u /\ UNCHANGED <<pt, system>>
  BY <1>3 DEF Edit, u
<1>6. Sound(pt, staging) /\ Sound(pt, u)
  <2>1. IInv'
    BY CreateSound
  <2> QED BY <1>5, <2>1 DEF IInv
<1>7. slot.region \in RegionType /\ type \in {"PRIMARY", "EXTENDED", "LOGICAL"}
  BY <1>6, SlotTyped DEF Edited, Sound
<1>8. region \in RegionType
  <2>1. \A n \in Lengths : [slot.region EXCEPT !.length = n] \in RegionType
    BY <1>7, ClientAssumption DEF RegionType
  <2>2. region \in {slot.region} \cup UNION {Align([slot.region EXCEPT !.length = n]) : n \in Lengths}
    BY DEF Chosen
  <2> QED BY <1>7, <2>1, <2>2, AlignTyped
<1>9. number \in Nat
  BY <1>4, <1>6 DEF Sound
<1>10. u[p] \in Partition
  BY <1>4, <1>7, <1>8, <1>9 DEF Partition, RegionType
<1>11. type = "LOGICAL" => \A q \in OfType(staging, "LOGICAL") : staging[q].number < number
  <2> SUFFICES ASSUME type = "LOGICAL", NEW q \in OfType(staging, "LOGICAL") PROVE staging[q].number < number
    OBVIOUS
  <2>1. slot \in LogicalSlots(pt, staging)
    BY DEF UnusedSlots, PrimarySlots
  <2>2. slot.number = MaxPrimary(pt) + NumLogical(staging) + 1
    BY <2>1 DEF LogicalSlots
  <2>3. number = slot.number
    BY DEF NumbersFor
  <2>4. staging[q].number \in MaxPrimary(pt) + 1 .. MaxPrimary(pt) + NumLogical(staging)
    BY <1>6 DEF Sound, OfType
  <2>5. MaxPrimary(pt) \in Nat /\ NumLogical(staging) \in Nat
    BY <1>6, NumbersFinite, MaxPrimaryType
  <2> QED BY <2>2, <2>3, <2>4, <2>5
<1>12. Follows(system, u)
  BY <1>1, <1>4, <1>11, FollowsMore DEF Edited
<1>13. Active(u) = Active(staging)
  BY <1>1, <1>4 DEF Active
<1>14. DOMAIN u \subseteq Sid /\ \A q \in DOMAIN u : u[q] \in Partition
  BY <1>1, <1>4, <1>10 DEF Edited
<1>15. \A q \in DOMAIN system \cap DOMAIN u : q \in DOMAIN staging /\ u[q] = staging[q]
  BY <1>1, <1>4
<1>16. \A S : S \cap DOMAIN system \cap DOMAIN u = S \cap DOMAIN system \cap DOMAIN staging
  BY <1>1, <1>4
<1>17. \/ OfType(system, "EXTENDED") \subseteq DOMAIN u
       \/ OfType(system, "LOGICAL") \cap DOMAIN u = {}
  BY <1>1, <1>4 DEF Edited, OfType
<1>18. \A d \in OfType(system, "LOGICAL") \ DOMAIN u, q \in Active(u) : system[q].number < system[d].number
  BY <1>4, <1>13 DEF Edited
<1> QED BY <1>5, <1>12, <1>13, <1>14, <1>15, <1>17, <1>18 DEF Edited

\* Deleting a partition renumbers others only if what is active keeps its number.
LEMMA DeleteEdited ==
  ASSUME IInv, Edited, Delete
  PROVE  Edited'
<1>1. PICK p \in DOMAIN staging : RemoveOK(staging, p) /\ Edit(DeletePartition(staging, p, system))
  BY DEF Delete
<1> DEFINE u == DeletePartition(staging, p, system)
<1>2. staging' = u /\ UNCHANGED <<pt, system>>
  BY <1>1 DEF Edit
<1>3. Sound(pt, staging) /\ Sound(pt, u) /\ Sound(pt, system)
  BY DeleteSound DEF IInv, Edited
<1>4. /\ DOMAIN u = DOMAIN staging \ Removed(staging, p)
      /\ \A q \in DOMAIN u :
           /\ u[q] \in Partition
           /\ u[q].type = staging[q].type /\ u[q].region = staging[q].region
           /\ u[q].listed = staging[q].listed /\ u[q].active = staging[q].active
           /\ u[q].number <= staging[q].number
           /\ q \in DOMAIN system /\ u[q].type # "LOGICAL" => u[q].number = staging[q].number
      /\ \A q, x \in OfType(staging, "LOGICAL") \cap DOMAIN u :
           staging[q].number < staging[x].number => u[q].number < u[x].number
  BY <1>3, DeleteRenumbers DEF Edited
<1> HIDE DEF u
<1>5. Follows(system, u)
  BY <1>3, <1>4, SoundNaturals, FollowsFewer DEF Edited
<1>6. Active(u) \subseteq Active(staging) \cap DOMAIN u
  BY <1>4 DEF Active
<1>7. \A q \in DOMAIN staging : q \in DOMAIN system => staging[q].type = system[q].type
  BY DEF Edited, Follows
<1>8. \/ OfType(system, "EXTENDED") \subseteq DOMAIN u
      \/ OfType(system, "LOGICAL") \cap DOMAIN u = {}
  <2>1. CASE staging[p].type = "EXTENDED"
    BY <1>4, <1>7, <2>1 DEF Removed, OfType
  <2>2. CASE staging[p].type # "EXTENDED"
    <3>1. Removed(staging, p) = {p}
      BY <2>2 DEF Removed
    <3> QED BY <1>4, <1>7, <2>2, <3>1 DEF Edited, OfType
  <2> QED BY <2>1, <2>2
<1>9. ASSUME NEW d \in OfType(system, "LOGICAL") \ DOMAIN u, NEW q \in Active(u)
      PROVE  system[q].number < system[d].number
  <2>1. q \in Active(staging) /\ q \in DOMAIN u /\ q \in DOMAIN system /\ q \in DOMAIN staging
    BY <1>4, <1>6 DEF Edited, Active
  <2>2. CASE system[q].type # "LOGICAL"
    BY <1>3, <2>1, <2>2, PrimariesFirst
  <2>3. CASE system[q].type = "LOGICAL"
    <3>1. CASE d \notin DOMAIN staging
      BY <2>1, <3>1 DEF Edited
    <3>2. CASE d \in DOMAIN staging
      <4>1. d \in Removed(staging, p) /\ q \notin Removed(staging, p)
        BY <1>4, <2>1, <3>2
      <4>2. staging[q].type = "LOGICAL" /\ staging[d].type = "LOGICAL"
        BY <1>7, <2>1, <2>3, <3>2 DEF OfType
      <4>3. d = p
        BY <2>1, <4>1, <4>2 DEF Removed, OfType
      <4>4. ~ staging[q].number > staging[d].number
        BY <1>1, <2>1, <4>2, <4>3 DEF RemoveOK, Active
      <4>5. d # q /\ d \in DOMAIN system /\ q \in OfType(staging, "LOGICAL") /\ d \in OfType(staging, "LOGICAL")
        BY <2>1, <3>2, <4>1, <4>2 DEF OfType
      <4>6. /\ system[q].number # system[d].number /\ system[q].number \in Nat /\ system[d].number \in Nat
            /\ staging[q].number \in Nat /\ staging[d].number \in Nat
        BY <1>3, <2>1, <3>2, <4>5 DEF Sound
      <4>7. system[d].number < system[q].number => staging[d].number < staging[q].number
        BY <2>1, <4>5 DEF Edited, Follows
      <4> QED BY <4>4, <4>6, <4>7
    <3> QED BY <3>1, <3>2
  <2> QED BY <2>2, <2>3
<1>10. /\ DOMAIN u \subseteq Sid /\ Active(u) \subseteq Active(system)
       /\ \A q \in DOMAIN system \cap DOMAIN u : /\ u[q].listed = system[q].listed
                                                /\ u[q].region.start = system[q].region.start
  BY <1>4, <1>6 DEF Edited
<1> QED BY <1>2, <1>4, <1>5, <1>8, <1>9, <1>10 DEF Edited

\* Edits that change the region or the activity of one partition.
LEMMA ChangeEdited ==
  ASSUME IInv, Edited, NEW p \in DOMAIN staging, NEW x \in Partition,
         x.type = staging[p].type, x.number = staging[p].number, x.listed = staging[p].listed,
         x.region.start = staging[p].region.start, x.active => staging[p].active,
         staging' = [staging EXCEPT ![p] = x], UNCHANGED <<pt, system>>
  PROVE  Edited'
<1> DEFINE u == [staging EXCEPT ![p] = x]
<1>1. DOMAIN u = DOMAIN staging /\ \A q \in DOMAIN staging : u[q] = IF q = p THEN x ELSE staging[q]
  OBVIOUS
<1>2. staging' = u
  OBVIOUS
<1> HIDE DEF u
<1>3. Sound(pt, staging) /\ Sound(pt, system)
  BY DEF IInv, Edited
<1>4. \A q \in DOMAIN staging :
        /\ u[q].type = staging[q].type /\ u[q].number = staging[q].number /\ u[q].listed = staging[q].listed
        /\ u[q].region.start = staging[q].region.start /\ u[q] \in Partition
        /\ u[q].active => staging[q].active
  BY <1>1 DEF Edited
<1>5. Active(u) \subseteq Active(staging)
  BY <1>1, <1>4 DEF Active
<1>6. Follows(system, u)
  <2>1. Naturals0(system) /\ Naturals0(staging) /\ Naturals0(u)
    BY <1>1, <1>3, <1>4, SoundNaturals DEF Naturals0
  <2> QED BY <1>1, <1>4, <2>1, FollowsFewer DEF Edited, Naturals0
<1>7. /\ DOMAIN u \subseteq Sid /\ \A q \in DOMAIN u : u[q] \in Partition
      /\ \A q \in DOMAIN system \cap DOMAIN u : /\ u[q].listed = system[q].listed
                                               /\ u[q].region.start = system[q].region.start
  BY <1>1, <1>4 DEF Edited
<1>8. /\ Active(u) \subseteq Active(system)
      /\ OfType(system, "EXTENDED") \subseteq DOMAIN u \/ OfType(system, "LOGICAL") \cap DOMAIN u = {}
  BY <1>1, <1>5 DEF Edited
<1>9. \A d \in OfType(system, "LOGICAL") \ DOMAIN u, q \in Active(u) : system[q].number < system[d].number
  BY <1>1, <1>5 DEF Edited
<1>10. pt' = pt /\ system' = system
  OBVIOUS
<1>11. /\ OfType(system, "EXTENDED")' = OfType(system, "EXTENDED")
       /\ OfType(system, "LOGICAL")' = OfType(system, "LOGICAL")
       /\ Active(system)' = Active(system) /\ Active(staging)' = Active(u)
       /\ Follows(system, staging)' = Follows(system, u) /\ Sound(pt, system)' = Sound(pt, system)
  BY <1>2, <1>10 DEF OfType, Active, Follows, Sound, NumLogical, MaxPrimary
<1>12. \A q \in DOMAIN system : system[q] \in Partition
  BY DEF Edited
<1>13. DOMAIN system \subseteq Sid
  BY DEF Edited
<1>14. (\A r \in DOMAIN system : system[r] \in Partition)' /\ (DOMAIN system \subseteq Sid)'
  BY <1>10, <1>12, <1>13
<1>15. (DOMAIN staging \subseteq Sid)' /\ (\A r \in DOMAIN staging : staging[r] \in Partition)'
  BY <1>2, <1>7
<1>16. (\A r \in DOMAIN system \cap DOMAIN staging :
          staging[r].listed = system[r].listed /\ staging[r].region.start = system[r].region.start)'
  BY <1>2, <1>7, <1>10
<1>17. (\A d \in OfType(system, "LOGICAL") \ DOMAIN staging, q \in Active(staging) :
          system[q].number < system[d].number)'
  BY <1>2, <1>9, <1>10, <1>11
<1>18. (OfType(system, "EXTENDED") \subseteq DOMAIN staging \/ OfType(system, "LOGICAL") \cap DOMAIN staging = {})'
  BY <1>2, <1>8, <1>11
<1>19. Sound(pt, system)' /\ Follows(system, staging)' /\ (Active(staging) \subseteq Active(system))'
  BY <1>3, <1>6, <1>8, <1>11
<1> QED BY <1>14, <1>15, <1>16, <1>17, <1>18, <1>19 DEF Edited

\* Resizing changes a region, but not where it starts.
LEMMA ResizeEdited ==
  ASSUME IInv, Edited, Resize
  PROVE  Edited'
<1>1. PICK p \in DOMAIN staging, n \in Lengths :
        \E region \in AlignKeepStart([staging[p].region EXCEPT !.length = n]) : Edit([staging EXCEPT ![p].region = region])
  BY DEF Resize
<1>2. PICK region \in AlignKeepStart([staging[p].region EXCEPT !.length = n]) : Edit([staging EXCEPT ![p].region = region])
  BY <1>1
<1>3. staging[p] \in Partition /\ n \in Int
  BY ClientAssumption DEF Edited
<1> DEFINE r == [staging[p].region EXCEPT !.length = n]
<1>4. r \in RegionType /\ r.start = staging[p].region.start
  BY <1>3 DEF Partition, RegionType
<1>5. region \in RegionType /\ region.start = staging[p].region.start
  <2> HIDE DEF r
  <2>1. region \in AlignKeepStart(r)
    BY DEF r
  <2>2. region.start = r.start
    BY <2>1 DEF AlignKeepStart, Region
  <2> QED BY <1>4, <2>1, <2>2, AlignTyped
<1> DEFINE x == [staging[p] EXCEPT !.region = region]
<1>6. /\ x \in Partition /\ x.type = staging[p].type /\ x.number = staging[p].number /\ x.listed = staging[p].listed
      /\ x.region.start = staging[p].region.start /\ x.active = staging[p].active
  BY <1>3, <1>5 DEF Partition, RegionType
<1>7. staging' = [staging EXCEPT ![p] = x] /\ UNCHANGED <<pt, system>>
  BY <1>2 DEF Edit
<1> HIDE DEF x
<1> QED BY <1>6, <1>7, ChangeEdited

\* Deactivating a swap makes what is active less.
LEMMA DeactivateEdited ==
  ASSUME IInv, Edited, Deactivate
  PROVE  Edited'
<1>1. PICK p \in DOMAIN staging : Edit([staging EXCEPT ![p].active = FALSE])
  BY DEF Deactivate, Active
<1>2. staging[p] \in Partition
  BY DEF Edited
<1> DEFINE x == [staging[p] EXCEPT !.active = FALSE]
<1>3. /\ x \in Partition /\ x.type = staging[p].type /\ x.number = staging[p].number /\ x.listed = staging[p].listed
      /\ x.region.start = staging[p].region.start /\ ~ x.active
  BY <1>2 DEF Partition
<1>4. staging' = [staging EXCEPT ![p] = x] /\ UNCHANGED <<pt, system>>
  BY <1>1 DEF Edit
<1> HIDE DEF x
<1> QED BY <1>3, <1>4, ChangeEdited
-----------------------------------------------------------------------------
(* Numbers of logical partitions follow from their order                   *)

\* The logical partitions up to p.
UpTo(t, p) == {q \in OfType(t, "LOGICAL") : t[q].number <= t[p].number}

\* The n-th logical partition has the n-th number.
LEMMA RankNumber ==
  ASSUME NEW type, NEW t, Sound(type, t), NEW p \in OfType(t, "LOGICAL")
  PROVE  IsFiniteSet(UpTo(t, p)) /\ t[p].number = MaxPrimary(type) + Cardinality(UpTo(t, p))
<1> DEFINE S == OfType(t, "LOGICAL")
           k == MaxPrimary(type)
           L == NumLogical(t)
           n == t[p].number
           U == UpTo(t, p)
<1>1. k \in Nat /\ L \in Nat /\ IsFiniteSet(S) /\ L = Cardinality(S)
  <2>1. S \in SUBSET DOMAIN t /\ IsFiniteSet(DOMAIN t)
    BY DEF OfType, Sound
  <2> QED BY <2>1, MaxPrimaryType, NumbersFinite, FS_Subset DEF NumLogical
<1>2. \A q \in S : t[q].number \in k + 1 .. k + L
  BY DEF OfType, Sound
<1>3. \A q, r \in S : t[q].number = t[r].number => q = r
  BY DEF OfType, Sound
<1>4. U \in SUBSET S /\ \A q \in S : q \in U <=> t[q].number <= n
  BY DEF UpTo
<1> HIDE DEF S, k, L, U
<1>5. p \in S /\ n \in k + 1 .. k + L
  BY <1>2 DEF S
<1> HIDE DEF n
<1>6. Cardinality(k + 1 .. k + L) = L /\ Cardinality(k + 1 .. n) = n - k
      /\ IsFiniteSet(k + 1 .. k + L) /\ IsFiniteSet(k + 1 .. n)
  <2>1. n \in Int /\ k + 1 \in Int /\ k + L \in Int /\ k + 1 <= n /\ k + 1 <= k + L
    BY <1>1, <1>5
  <2>2. ASSUME NEW b \in Int, k + 1 <= b
        PROVE  Cardinality(k + 1 .. b) = b - (k + 1) + 1 /\ IsFiniteSet(k + 1 .. b)
    BY <2>1, <2>2, FS_Interval
  <2>3. Cardinality(k + 1 .. n) = n - (k + 1) + 1 /\ IsFiniteSet(k + 1 .. n)
    BY <2>1, <2>2
  <2>4. PICK m \in Int : m = k + L
    BY <2>1
  <2>5. Cardinality(k + 1 .. m) = m - (k + 1) + 1 /\ IsFiniteSet(k + 1 .. m)
    BY <2>1, <2>2, <2>4
  <2> QED BY <1>1, <2>1, <2>3, <2>4, <2>5
<1> DEFINE f == [q \in S |-> t[q].number]
           g == [q \in U |-> t[q].number]
<1>7. \A x \in k + 1 .. k + L : \E q \in S : t[q].number = x
  <2>1. f \in [S -> k + 1 .. k + L] /\ \A q, r \in S : f[q] = f[r] => q = r
    BY <1>2, <1>3
  <2>2. \A q \in S : f[q] = t[q].number
    OBVIOUS
  <2> HIDE DEF f
  <2>3. f \in Injection(S, k + 1 .. k + L)
    BY <2>1 DEF Injection, IsInjective
  <2>4. f \in Surjection(S, k + 1 .. k + L)
    BY <1>1, <1>6, <2>3, FS_Injection
  <2> QED BY <2>2, <2>4 DEF Surjection
<1>8. g \in Injection(U, k + 1 .. n) /\ g \in Surjection(U, k + 1 .. n)
  <2>1. g \in [U -> k + 1 .. n]
    BY <1>1, <1>2, <1>4, <1>5
  <2>2. \A q, r \in U : g[q] = g[r] => q = r
    BY <1>3, <1>4
  <2>3. \A x \in k + 1 .. n : \E q \in U : g[q] = x
    <3> SUFFICES ASSUME NEW x \in k + 1 .. n PROVE \E q \in U : t[q].number = x
      OBVIOUS
    <3>1. x \in k + 1 .. k + L /\ x <= n
      BY <1>1, <1>5
    <3> QED BY <1>4, <1>7, <3>1
  <2> HIDE DEF g
  <2> QED BY <2>1, <2>2, <2>3 DEF Injection, IsInjective, Surjection
<1>9. IsFiniteSet(U) /\ Cardinality(U) = n - k
  <2> HIDE DEF g
  <2> QED BY <1>6, <1>8, FS_Injection
<1> QED BY <1>1, <1>5, <1>9 DEF k, n, U

\* In a table that follows, the old partitions up to p are those left of before.
LEMMA UpToFollows ==
  ASSUME NEW type, NEW L, NEW t, Sound(type, L), Sound(type, t), Follows(L, t),
         NEW p \in OfType(L, "LOGICAL"), p \in DOMAIN t
  PROVE  UpTo(t, p) = {q \in OfType(L, "LOGICAL") \cap DOMAIN t : L[q].number <= L[p].number}
<1>1. p \in OfType(t, "LOGICAL") /\ p \in DOMAIN L
  BY DEF Follows, OfType
<1>2. \A q \in DOMAIN L : L[q].number \in Nat
  BY DEF Sound
<1>3. \A q \in DOMAIN t : t[q].number \in Nat
  BY DEF Sound
<1>4. ASSUME NEW q \in OfType(t, "LOGICAL"), t[q].number <= t[p].number
      PROVE  q \in OfType(L, "LOGICAL") \cap DOMAIN t /\ L[q].number <= L[p].number
  <2>1. q \in DOMAIN t /\ ~ (t[p].number < t[q].number)
    BY <1>1, <1>3, <1>4 DEF OfType
  <2>2. q \in DOMAIN L /\ ~ (L[p].number < L[q].number)
    BY <1>1, <2>1 DEF Follows
  <2>3. q \in OfType(L, "LOGICAL")
    BY <2>1, <2>2 DEF Follows, OfType
  <2> QED BY <1>1, <1>2, <2>1, <2>2, <2>3
<1>5. ASSUME NEW q \in OfType(L, "LOGICAL"), q \in DOMAIN t, L[q].number <= L[p].number
      PROVE  q \in OfType(t, "LOGICAL") /\ t[q].number <= t[p].number
  <2>1. q \in OfType(t, "LOGICAL") /\ q \in DOMAIN L
    BY <1>5 DEF Follows, OfType
  <2>2. CASE q = p
    BY <1>1, <1>3, <2>1, <2>2 DEF OfType
  <2>3. CASE q # p
    <3>1. L[q].number < L[p].number
      BY <1>1, <1>2, <1>5, <2>1, <2>3 DEF Sound
    <3>2. t[q].number < t[p].number
      BY <1>1, <2>1, <3>1 DEF Follows
    <3> QED BY <1>1, <1>3, <2>1, <3>2 DEF OfType
  <2> QED BY <2>2, <2>3
<1> QED BY <1>4, <1>5 DEF UpTo

\* Two tables that began as L agree on the number of a partition of it, if they agree
\* on which logical partitions in front of it are left.
LEMMA AgreeNumber ==
  ASSUME NEW type, NEW L, NEW t, NEW u, Sound(type, L), Sound(type, t), Sound(type, u),
         Follows(L, t), Follows(L, u), NEW p \in DOMAIN L, p \in DOMAIN t, p \in DOMAIN u,
         \A q \in OfType(L, "LOGICAL") : L[q].number <= L[p].number => (q \in DOMAIN t <=> q \in DOMAIN u)
  PROVE  t[p].number = u[p].number
<1>1. t[p].type = L[p].type /\ u[p].type = L[p].type
  BY DEF Follows
<1>2. CASE L[p].type = "LOGICAL"
  <2>1. p \in OfType(L, "LOGICAL") /\ p \in OfType(t, "LOGICAL") /\ p \in OfType(u, "LOGICAL")
    BY <1>1, <1>2 DEF OfType
  <2>2. UpTo(t, p) = {q \in OfType(L, "LOGICAL") \cap DOMAIN t : L[q].number <= L[p].number}
    BY <2>1, UpToFollows
  <2>3. UpTo(u, p) = {q \in OfType(L, "LOGICAL") \cap DOMAIN u : L[q].number <= L[p].number}
    BY <2>1, UpToFollows
  <2>4. UpTo(t, p) = UpTo(u, p)
    BY <2>2, <2>3
  <2> QED BY <2>1, <2>4, RankNumber
<1>3. CASE L[p].type # "LOGICAL"
  BY <1>1, <1>3 DEF Follows
<1> QED BY <1>2, <1>3

\* A partition keeps its number if none with a lower number goes.
LEMMA KeptNumber ==
  ASSUME NEW type, NEW L, NEW t, Sound(type, L), Sound(type, t), Follows(L, t), NEW p \in DOMAIN L, p \in DOMAIN t,
         \A q \in OfType(L, "LOGICAL") : L[q].number <= L[p].number => q \in DOMAIN t
  PROVE  t[p].number = L[p].number
<1>1. Follows(L, L)
  BY SoundNaturals, FollowsItself
<1>2. \A q \in OfType(L, "LOGICAL") : q \in DOMAIN L
  BY DEF OfType
<1> QED BY <1>1, <1>2, AgreeNumber
-----------------------------------------------------------------------------
(* What is done and what is left during a commit                           *)

\* The partitions that an action is left to do for.
Pending(op) == {p \in Sid : Act(op, p) \in todo}

\* The partitions a commit leaves, deletes and creates ...
Stay == DOMAIN system \cap DOMAIN staging
Go == DOMAIN system \ DOMAIN staging
Come == DOMAIN staging \ DOMAIN system

\* ... and what of it is done.
Gone == Go \ Pending("delete")
Made == Come \ Pending("create")
Renamed == {p \in Stay \cap Listed(system) : staging[p].number # system[p].number} \ Pending("rename_in")
Added == (Come \cap Listed(staging)) \ Pending("add_fstab")

\* Deletions come backwards and creations forwards, between them what is renamed.
DiskAhead ==
  /\ disk = OnDisk(disk)
  /\ DOMAIN disk = Stay \cup Pending("delete") \cup Made
  /\ Follows(system, disk)
  /\ Made # {} => Pending("delete") = {} /\ Pending("rename_in") = {} /\ Pending("shrink") = {}
  /\ Pending("shrink") # {} => Gone = {}
  /\ \A d \in Gone, e \in Pending("delete") : system[e].number < system[d].number
  /\ \A c \in Made : /\ disk[c].type = staging[c].type /\ disk[c].number = staging[c].number
                     /\ disk[c].region = staging[c].region
                     /\ \A e \in Pending("create") : staging[c].number < staging[e].number
  /\ \A p \in Stay : disk[p].region = IF p \in Pending("shrink") \cup Pending("grow")
                                      THEN system[p].region ELSE staging[p].region
  /\ \A p \in Pending("delete") : disk[p].region = system[p].region

\* What the kernel swaps to keeps its number, and is only deleted after its swapoff.
SwapsAhead ==
  /\ swapped = Pending("unmount") \cup Active(staging)
  /\ Pending("unmount") \cap Go \subseteq Pending("delete")
  /\ \A p \in swapped : p \in DOMAIN disk /\ disk[p].number = system[p].number

\* Entries are removed before any is renamed, and added last.
FstabAhead ==
  /\ fstab = [q \in DOMAIN fstab |-> fstab[q]]
  /\ DOMAIN fstab = (Stay \cap Listed(system)) \cup Pending("remove_fstab") \cup Added
  /\ Pending("remove_fstab") \subseteq Pending("delete")
  /\ Renamed # {} => Pending("delete") = {}
  /\ Added \subseteq Made
  /\ \A p \in Renamed, q \in Pending("rename_in") : staging[p].number < staging[q].number
  /\ \A q \in DOMAIN fstab :
       fstab[q] = IF q \in Pending("remove_fstab") \cup Pending("rename_in") THEN system[q].number
                                                                            ELSE staging[q].number

\* How far the disk, the swaps and fstab are between the system and staging.
JInv == /\ Edited
        /\ phase \in {"edit", "commit"}
        /\ phase = "edit" => disk = OnDisk(system) /\ swapped = Active(system) /\ fstab = Entries(system)
        /\ phase = "commit" => todo \subseteq Actions(system, staging) /\ DiskAhead /\ SwapsAhead /\ FstabAhead

\* What the actions left to do say of the two tables.
LEMMA PendingSorts ==
  ASSUME Edited, todo \subseteq Actions(system, staging)
  PROVE  /\ \A a \in todo : /\ a = Act(a.op, a.sid) /\ a.sid \in Pending(a.op)
                            /\ a.op \in InChain \cup {"add_fstab", "remove_fstab", "unmount"}
         /\ \A op : \A p \in Pending(op) : Act(op, p) \in todo
         /\ Pending("shrink") \subseteq {p \in Stay : staging[p].region.length < system[p].region.length}
         /\ Pending("grow") \subseteq {p \in Stay : staging[p].region.length > system[p].region.length}
         /\ Pending("rename_in") \subseteq {p \in Stay \cap Listed(system) : staging[p].number # system[p].number}
         /\ Pending("create") \subseteq Come
         /\ Pending("add_fstab") \subseteq Come \cap Listed(staging)
         /\ Pending("delete") \subseteq Go
         /\ Pending("remove_fstab") \subseteq Go \cap Listed(system)
         /\ Pending("unmount") \subseteq Active(system) \ Active(staging)
<1> DEFINE Sort(op) ==
      CASE op = "shrink" -> {p \in Stay : staging[p].region.length < system[p].region.length}
        [] op = "grow" -> {p \in Stay : staging[p].region.length > system[p].region.length}
        [] op = "rename_in" -> {p \in Stay \cap Listed(system) : staging[p].number # system[p].number}
        [] op = "create" -> Come
        [] op = "add_fstab" -> Come \cap Listed(staging)
        [] op = "delete" -> Go
        [] op = "remove_fstab" -> Go \cap Listed(system)
        [] op = "unmount" -> Active(system) \ Active(staging)
           Ops == InChain \cup {"add_fstab", "remove_fstab", "unmount"}
<1>1. \A op, p : Act(op, p).op = op /\ Act(op, p).sid = p
  BY DEF Act
<1>2. ASSUME NEW a \in Actions(system, staging)
      PROVE  \E op \in Ops : \E p \in Sort(op) : a = Act(op, p)
  <2> DEFINE of(op, S) == {Act(op, p) : p \in S}
  <2>1. \/ a \in of("shrink", Sort("shrink")) \/ a \in of("grow", Sort("grow"))
        \/ a \in of("rename_in", Sort("rename_in")) \/ a \in of("create", Sort("create"))
        \/ a \in of("add_fstab", Sort("add_fstab")) \/ a \in of("delete", Sort("delete"))
        \/ a \in of("remove_fstab", Sort("remove_fstab")) \/ a \in of("unmount", Sort("unmount"))
    BY <1>2 DEF Actions, Stay, Go, Come
  <2> HIDE DEF Sort
  <2> QED BY <2>1 DEF InChain
<1>3. \A op \in Ops : Sort(op) \subseteq Sid
  <2>1. Active(system) \subseteq Sid /\ Stay \subseteq Sid /\ Go \subseteq Sid /\ Come \subseteq Sid
    BY DEF Edited, Active, Stay, Go, Come
  <2> QED BY <2>1 DEF InChain
<1> HIDE DEF Sort, Ops
<1>4. ASSUME NEW a \in todo
      PROVE  a = Act(a.op, a.sid) /\ a.op \in Ops /\ a.sid \in Pending(a.op)
  <2>1. PICK op \in Ops : \E p \in Sort(op) : a = Act(op, p)
    BY <1>2
  <2>2. PICK p \in Sort(op) : a = Act(op, p)
    BY <2>1
  <2>3. a.op = op /\ a.sid = p /\ p \in Sid
    BY <1>1, <1>3, <2>2
  <2> QED BY <2>2, <2>3 DEF Pending
<1>5. ASSUME NEW op, NEW p \in Pending(op) PROVE p \in Sort(op)
  <2>1. PICK o \in Ops : \E q \in Sort(o) : Act(op, p) = Act(o, q)
    BY <1>2 DEF Pending
  <2> QED BY <1>1, <2>1
<1>6. \A op : Pending(op) \subseteq Sort(op)
  BY <1>5
<1>7. /\ Pending("shrink") \subseteq {p \in Stay : staging[p].region.length < system[p].region.length}
      /\ Pending("grow") \subseteq {p \in Stay : staging[p].region.length > system[p].region.length}
      /\ Pending("rename_in") \subseteq {p \in Stay \cap Listed(system) : staging[p].number # system[p].number}
  <2>1. /\ Sort("shrink") = {p \in Stay : staging[p].region.length < system[p].region.length}
        /\ Sort("grow") = {p \in Stay : staging[p].region.length > system[p].region.length}
        /\ Sort("rename_in") = {p \in Stay \cap Listed(system) : staging[p].number # system[p].number}
    BY DEF Sort
  <2> QED BY <1>6, <2>1
<1>8. /\ Pending("create") \subseteq Come
      /\ Pending("add_fstab") \subseteq Come \cap Listed(staging)
      /\ Pending("delete") \subseteq Go
      /\ Pending("remove_fstab") \subseteq Go \cap Listed(system)
      /\ Pending("unmount") \subseteq Active(system) \ Active(staging)
  <2>1. /\ Sort("create") = Come /\ Sort("add_fstab") = Come \cap Listed(staging)
        /\ Sort("delete") = Go /\ Sort("remove_fstab") = Go \cap Listed(system)
        /\ Sort("unmount") = Active(system) \ Active(staging)
    BY DEF Sort
  <2> QED BY <1>6, <2>1
<1>9. \A op : \A p \in Pending(op) : Act(op, p) \in todo
  BY DEF Pending
<1> QED BY <1>4, <1>7, <1>8, <1>9 DEF Ops

\* What the order of the actions says of an action that is ready.
LEMMA ReadyOrder ==
  ASSUME Edited, todo \subseteq Actions(system, staging), NEW a \in Ready
  PROVE  /\ a \in todo
         /\ a.op \in {"delete", "rename_in", "create", "grow"} => Pending("shrink") = {}
         /\ a.op \in {"rename_in", "create", "grow"} => Pending("delete") = {}
         /\ a.op \in {"create", "grow"} => Pending("rename_in") = {}
         /\ a.op = "grow" => Pending("create") = {}
         /\ a.op = "delete" => /\ \A e \in Pending("delete") : ~ system[e].number > system[a.sid].number
                               /\ a.sid \notin Pending("unmount") \cup Pending("remove_fstab")
         /\ a.op = "rename_in" =>
              \A e \in Pending("rename_in") : ~ RenameKey(e, system, staging) < RenameKey(a.sid, system, staging)
         /\ a.op = "create" => \A e \in Pending("create") : ~ staging[e].number < staging[a.sid].number
         /\ a.op = "add_fstab" => a.sid \notin Pending("create")
<1>1. a \in todo /\ \A b \in todo : ~ After(a, b, system, staging)
  BY DEF Ready
<1>2. a = Act(a.op, a.sid)
  BY <1>1, PendingSorts
<1>3. \A op, p : Act(op, p).op = op /\ Act(op, p).sid = p
  BY DEF Act
<1>4. \A op : \A e \in Pending(op) : ~ After(a, Act(op, e), system, staging)
  BY <1>1 DEF Pending
<1> DEFINE Rank(op) == CASE op = "shrink" -> 1 [] op = "delete" -> 2 [] op = "rename_in" -> 3
                         [] op = "create" -> 4 [] op = "grow" -> 5
<1>5. \A b : b.op \in InChain => Place(b, system, staging)[1] = Rank(b.op)
  BY DEF Place, InChain
<1>6. ASSUME NEW op \in InChain, a.op \in InChain, Rank(op) < Rank(a.op) PROVE Pending(op) = {}
  <2>1. ASSUME NEW e \in Pending(op) PROVE After(a, Act(op, e), system, staging)
    <3>1. Place(Act(op, e), system, staging)[1] < Place(a, system, staging)[1]
      <4>1. Act(op, e).op = op
        BY <1>3
      <4>2. Place(Act(op, e), system, staging)[1] = Rank(op) /\ Place(a, system, staging)[1] = Rank(a.op)
        BY <1>5, <1>6, <4>1
      <4> QED BY <1>6, <4>2
    <3> HIDE DEF Rank
    <3> QED BY <1>3, <1>6, <3>1 DEF After
  <2> QED BY <1>4, <2>1
<1>7. /\ a.op \in {"delete", "rename_in", "create", "grow"} => Pending("shrink") = {}
      /\ a.op \in {"rename_in", "create", "grow"} => Pending("delete") = {}
      /\ a.op \in {"create", "grow"} => Pending("rename_in") = {}
      /\ a.op = "grow" => Pending("create") = {}
  BY <1>6 DEF InChain
<1>8. ASSUME a.op = "delete", NEW e \in Pending("delete"), system[e].number > system[a.sid].number PROVE FALSE
  <2>1. e \in DOMAIN system /\ a.sid \in DOMAIN system
    BY <1>1, <1>8, PendingSorts DEF Go
  <2>2. system[e].number \in Nat /\ system[a.sid].number \in Nat
    BY <2>1 DEF Edited, Sound
  <2>3. Place(a, system, staging) = <<2, - system[a.sid].number>>
    BY <1>8 DEF Place
  <2>4. Place(Act("delete", e), system, staging) = <<2, - system[e].number>>
    BY <1>3 DEF Place
  <2>5. After(a, Act("delete", e), system, staging)
    BY <1>3, <1>8, <2>2, <2>3, <2>4 DEF After, InChain
  <2> QED BY <1>4, <2>5
<1>9. ASSUME a.op = "delete", a.sid \in Pending("unmount") \cup Pending("remove_fstab") PROVE FALSE
  <2>1. \A op : <<op, "delete">> \in {<<"remove_fstab", "delete">>, <<"unmount", "delete">>}
                  => After(a, Act(op, a.sid), system, staging)
    BY <1>3, <1>9 DEF After
  <2> QED BY <1>4, <1>9, <2>1
<1>10. ASSUME a.op = "rename_in", NEW e \in Pending("rename_in"),
              RenameKey(e, system, staging) < RenameKey(a.sid, system, staging)
       PROVE  FALSE
  <2>1. Place(a, system, staging) = <<3, RenameKey(a.sid, system, staging)>>
    BY <1>10 DEF Place
  <2>2. Place(Act("rename_in", e), system, staging) = <<3, RenameKey(e, system, staging)>>
    BY <1>3 DEF Place
  <2>3. After(a, Act("rename_in", e), system, staging)
    BY <1>3, <1>10, <2>1, <2>2 DEF After, InChain
  <2> QED BY <1>4, <1>10, <2>3
<1>11. ASSUME a.op = "create", NEW e \in Pending("create"), staging[e].number < staging[a.sid].number
       PROVE  FALSE
  <2>1. Place(a, system, staging) = <<4, staging[a.sid].number>>
    BY <1>11 DEF Place
  <2>2. Place(Act("create", e), system, staging) = <<4, staging[e].number>>
    BY <1>3 DEF Place
  <2>3. After(a, Act("create", e), system, staging)
    BY <1>3, <1>11, <2>1, <2>2 DEF After, InChain
  <2> QED BY <1>4, <1>11, <2>3
<1>12. ASSUME a.op = "add_fstab", a.sid \in Pending("create") PROVE FALSE
  <2>1. After(a, Act("create", a.sid), system, staging)
    BY <1>3, <1>12 DEF After
  <2> QED BY <1>4, <1>12, <2>1
<1> QED BY <1>1, <1>7, <1>8, <1>9, <1>10, <1>11, <1>12

\* As long as nothing in front of a partition is gone, it has the number of the system.
LEMMA SystemNumber ==
  ASSUME IInv, Edited, DiskAhead, NEW p \in DOMAIN system, p \in DOMAIN disk,
         \A d \in Gone : system[p].number < system[d].number
  PROVE  disk[p].number = system[p].number
<1>1. Sound(pt, system) /\ Sound(pt, disk) /\ Follows(system, disk)
  BY DEF IInv, Edited, DiskAhead
<1>2. ASSUME NEW q \in OfType(system, "LOGICAL"), system[q].number <= system[p].number PROVE q \in DOMAIN disk
  <2>1. q \in DOMAIN system /\ system[q].number \in Nat /\ system[p].number \in Nat
    BY <1>1 DEF OfType, Sound
  <2>2. q \notin Gone
    BY <1>2, <2>1
  <2> QED BY <2>1, <2>2 DEF DiskAhead, Stay, Go, Gone
<1> QED BY <1>1, <1>2, KeptNumber

\* When the deletions are done, every partition has the number of staging.
LEMMA StagingNumber ==
  ASSUME IInv, Edited, DiskAhead, Pending("delete") = {}, NEW p \in DOMAIN disk
  PROVE  p \in DOMAIN staging /\ disk[p].type = staging[p].type /\ disk[p].number = staging[p].number
<1>1. /\ Sound(pt, system) /\ Sound(pt, disk) /\ Sound(pt, staging)
      /\ Follows(system, disk) /\ Follows(system, staging)
  BY DEF IInv, Edited, DiskAhead
<1>2. p \in Stay \/ p \in Made
  BY DEF DiskAhead
<1>3. CASE p \in Made
  BY <1>3 DEF DiskAhead, Made, Come
<1>4. CASE p \in Stay
  <2>1. p \in DOMAIN system /\ p \in DOMAIN staging
    BY <1>4 DEF Stay
  <2>2. \A q \in OfType(system, "LOGICAL") : q \in DOMAIN disk <=> q \in DOMAIN staging
    BY DEF DiskAhead, Stay, Made, Come, OfType
  <2>3. disk[p].number = staging[p].number
    BY <1>1, <2>1, <2>2, AgreeNumber
  <2>4. disk[p].type = staging[p].type
    BY <1>1, <2>1 DEF Follows
  <2> QED BY <2>1, <2>3, <2>4
<1> QED BY <1>2, <1>3, <1>4

\* Every command names its partition.
LEMMA NamedRight ==
  ASSUME IInv, JInv, phase = "commit", NEW a \in Ready, a.op \in {"delete", "shrink", "grow", "unmount"}
  PROVE  Named(a) = {a.sid} /\ a.sid \in DOMAIN disk
<1>1. Edited /\ todo \subseteq Actions(system, staging) /\ DiskAhead /\ SwapsAhead
  BY DEF JInv
<1>2. a \in todo /\ a.sid \in Pending(a.op)
  BY <1>1, ReadyOrder, PendingSorts
<1>3. /\ \A p, q \in DOMAIN disk : disk[p].number = disk[q].number => p = q
      /\ \A p \in DOMAIN system : system[p].number \in Nat
  BY <1>1 DEF IInv, Edited, Sound
<1> DEFINE n == IF a.op = "grow" THEN staging[a.sid].number ELSE system[a.sid].number
<1>4. a.sid \in DOMAIN disk /\ disk[a.sid].number = n
  <2>1. CASE a.op = "delete"
    <3>1. a.sid \in Pending("delete") /\ a.sid \in DOMAIN system
      BY <1>1, <1>2, <2>1, PendingSorts DEF Go
    <3>2. a.sid \in DOMAIN disk
      BY <1>1, <3>1 DEF DiskAhead
    <3>3. \A d \in Gone : system[a.sid].number < system[d].number
      BY <1>1, <3>1 DEF DiskAhead
    <3> QED BY <1>1, <2>1, <3>1, <3>2, <3>3, SystemNumber
  <2>2. CASE a.op = "shrink"
    <3>1. a.sid \in Pending("shrink") /\ a.sid \in Stay
      BY <1>1, <1>2, <2>2, PendingSorts
    <3>2. Gone = {} /\ a.sid \in DOMAIN disk /\ a.sid \in DOMAIN system
      BY <1>1, <3>1 DEF DiskAhead, Stay
    <3> QED BY <1>1, <2>2, <3>2, SystemNumber
  <2>3. CASE a.op = "grow"
    <3>1. a.sid \in Stay /\ Pending("delete") = {}
      BY <1>1, <1>2, <2>3, PendingSorts, ReadyOrder
    <3>2. a.sid \in DOMAIN disk
      BY <1>1, <3>1 DEF DiskAhead
    <3> QED BY <1>1, <2>3, <3>1, <3>2, StagingNumber
  <2>4. CASE a.op = "unmount"
    BY <1>1, <1>2, <2>4 DEF SwapsAhead
  <2> QED BY <2>1, <2>2, <2>3, <2>4
<1>5. Named(a) = {q \in DOMAIN disk : disk[q].number = n}
  BY DEF Named, Numbered
<1> HIDE DEF n
<1> QED BY <1>3, <1>4, <1>5
-----------------------------------------------------------------------------
(* The steps of a commit                                                   *)

\* What every step leaves alone and what it takes from the actions that are left.
Progress(a) ==
  /\ phase' = "commit" /\ UNCHANGED <<pt, system, staging>>
  /\ Edited' /\ todo' \subseteq Actions(system', staging')
  /\ Stay' = Stay /\ Go' = Go /\ Come' = Come
  /\ Pending("delete")' = IF a.op = "delete" THEN Pending("delete") \ {a.sid} ELSE Pending("delete")
  /\ Pending("create")' = IF a.op = "create" THEN Pending("create") \ {a.sid} ELSE Pending("create")
  /\ Pending("shrink")' = IF a.op = "shrink" THEN Pending("shrink") \ {a.sid} ELSE Pending("shrink")
  /\ Pending("grow")' = IF a.op = "grow" THEN Pending("grow") \ {a.sid} ELSE Pending("grow")
  /\ Pending("rename_in")' = IF a.op = "rename_in" THEN Pending("rename_in") \ {a.sid} ELSE Pending("rename_in")
  /\ Pending("unmount")' = IF a.op = "unmount" THEN Pending("unmount") \ {a.sid} ELSE Pending("unmount")
  /\ Pending("add_fstab")' = IF a.op = "add_fstab" THEN Pending("add_fstab") \ {a.sid} ELSE Pending("add_fstab")
  /\ Pending("remove_fstab")' = IF a.op = "remove_fstab" THEN Pending("remove_fstab") \ {a.sid}
                                                         ELSE Pending("remove_fstab")

\* A step of a commit takes its action from those left to do.
LEMMA CommitProgress ==
  ASSUME JInv, NEW a \in Ready, NEW t, NEW w, NEW f, Commit(a, t, w, f)
  PROVE  Progress(a) /\ disk' = t /\ swapped' = w /\ fstab' = f
<1>1. /\ phase = "commit" /\ phase' = "commit" /\ pt' = pt /\ system' = system /\ staging' = staging
      /\ disk' = t /\ swapped' = w /\ fstab' = f /\ todo' = todo \ {a}
  BY DEF Commit
<1>2. Edited /\ todo \subseteq Actions(system, staging)
  BY <1>1 DEF JInv
<1>3. Edited' /\ todo' \subseteq Actions(system', staging')
  BY <1>1, <1>2 DEF Edited, Active, Listed, OfType, Follows
<1>4. Stay' = Stay /\ Go' = Go /\ Come' = Come
  BY <1>1 DEF Stay, Go, Come
<1>5. a = Act(a.op, a.sid)
  BY <1>2, ReadyOrder, PendingSorts
<1>6. \A op, p : Act(op, p) = a <=> op = a.op /\ p = a.sid
  BY <1>5 DEF Act
<1>7. ASSUME NEW op PROVE {p \in Sid : Act(op, p) \in todo'} = IF op = a.op THEN Pending(op) \ {a.sid} ELSE Pending(op)
  BY <1>1, <1>6 DEF Pending
<1>8. \A op : {p \in Sid : Act(op, p) \in todo'} = IF op = a.op THEN Pending(op) \ {a.sid} ELSE Pending(op)
  BY <1>7
<1>9. /\ Pending("delete")' = {p \in Sid : Act("delete", p) \in todo'}
      /\ Pending("create")' = {p \in Sid : Act("create", p) \in todo'}
      /\ Pending("shrink")' = {p \in Sid : Act("shrink", p) \in todo'}
      /\ Pending("grow")' = {p \in Sid : Act("grow", p) \in todo'}
      /\ Pending("rename_in")' = {p \in Sid : Act("rename_in", p) \in todo'}
      /\ Pending("unmount")' = {p \in Sid : Act("unmount", p) \in todo'}
      /\ Pending("add_fstab")' = {p \in Sid : Act("add_fstab", p) \in todo'}
      /\ Pending("remove_fstab")' = {p \in Sid : Act("remove_fstab", p) \in todo'}
  BY DEF Pending, Act
<1> QED BY <1>1, <1>3, <1>4, <1>8, <1>9 DEF Progress

\* What a step keeps that has nothing to do with the partitions on disk.
LEMMA DiskKept ==
  ASSUME DiskAhead, NEW a, Progress(a), disk' = disk, a.op \notin {"delete", "create", "shrink", "grow"}
  PROVE  DiskAhead'
<1>1. /\ system' = system /\ staging' = staging /\ Stay' = Stay
      /\ Pending("delete")' = Pending("delete") /\ Pending("create")' = Pending("create")
      /\ Pending("shrink")' = Pending("shrink") /\ Pending("grow")' = Pending("grow")
      /\ Pending("rename_in")' \subseteq Pending("rename_in")
  BY DEF Progress
<1>2. Gone' = Gone /\ Made' = Made
  BY <1>1 DEF Gone, Made, Go, Come
<1>3. OnDisk(disk)' = OnDisk(disk) /\ Follows(system, disk)' = Follows(system, disk)
  BY <1>1 DEF OnDisk, Follows, OfType
<1> QED BY <1>1, <1>2, <1>3 DEF DiskAhead

\* What a step keeps that moves no swap.
LEMMA SwapsKept ==
  ASSUME SwapsAhead, NEW a, Progress(a), a.op # "unmount", swapped' = swapped,
         a.op = "delete" => a.sid \notin Pending("unmount"),
         \A p \in swapped : p \in DOMAIN disk' /\ disk'[p].number = disk[p].number
  PROVE  SwapsAhead'
<1>1. /\ system' = system /\ staging' = staging /\ Go' = Go /\ Pending("unmount")' = Pending("unmount")
      /\ Pending("delete")' = IF a.op = "delete" THEN Pending("delete") \ {a.sid} ELSE Pending("delete")
  BY DEF Progress
<1>2. Active(staging)' = Active(staging)
  BY <1>1 DEF Active
<1> QED BY <1>1, <1>2 DEF SwapsAhead

\* What a step keeps that leaves fstab alone.
LEMMA FstabKept ==
  ASSUME FstabAhead, NEW a, Progress(a), fstab' = fstab,
         a.op \in {"delete", "create", "shrink", "grow", "unmount"},
         a.op = "delete" => a.sid \notin Pending("remove_fstab")
  PROVE  FstabAhead'
<1>1. /\ system' = system /\ staging' = staging /\ Stay' = Stay /\ Come' = Come
      /\ Pending("delete")' = IF a.op = "delete" THEN Pending("delete") \ {a.sid} ELSE Pending("delete")
      /\ Pending("create")' \subseteq Pending("create")
      /\ Pending("rename_in")' = Pending("rename_in")
      /\ Pending("add_fstab")' = Pending("add_fstab")
      /\ Pending("remove_fstab")' = Pending("remove_fstab")
  BY DEF Progress
<1>2. Listed(system)' = Listed(system) /\ Listed(staging)' = Listed(staging)
  BY <1>1 DEF Listed
<1>3. Renamed' = Renamed /\ Added' = Added /\ Made \subseteq Made'
  BY <1>1, <1>2 DEF Renamed, Added, Made
<1> QED BY <1>1, <1>2, <1>3 DEF FstabAhead

\* swapoff stops the swap it is meant for.
LEMMA UnmountStep ==
  ASSUME IInv, JInv, NEW a \in Ready, CommitUnmount(a)
  PROVE  JInv'
<1>1. a.op = "unmount" /\ \E q \in Named(a) \cap swapped : Commit(a, disk, swapped \ {q}, fstab)
  BY DEF CommitUnmount
<1>2. phase = "commit"
  BY <1>1 DEF Commit
<1>3. Edited /\ todo \subseteq Actions(system, staging) /\ DiskAhead /\ SwapsAhead /\ FstabAhead
  BY <1>2 DEF JInv
<1>4. Commit(a, disk, swapped \ {a.sid}, fstab)
  BY <1>1, <1>2, NamedRight
<1>5. Progress(a) /\ disk' = disk /\ swapped' = swapped \ {a.sid} /\ fstab' = fstab
  BY <1>4, CommitProgress
<1>6. DiskAhead' /\ FstabAhead'
  BY <1>1, <1>3, <1>5, DiskKept, FstabKept
<1>7. SwapsAhead'
  <2>1. /\ system' = system /\ staging' = staging /\ Pending("unmount")' = Pending("unmount") \ {a.sid}
        /\ Go' = Go /\ Pending("delete")' = Pending("delete")
    BY <1>1, <1>5 DEF Progress
  <2>2. Active(staging)' = Active(staging)
    BY <2>1 DEF Active
  <2>3. a.sid \notin Active(staging)
    BY <1>1, <1>3, ReadyOrder, PendingSorts
  <2> QED BY <1>3, <1>5, <2>1, <2>2, <2>3 DEF SwapsAhead
<1> QED BY <1>5, <1>6, <1>7 DEF JInv, Progress

\* resizepart resizes the partition it is meant for.
LEMMA ResizeStep ==
  ASSUME IInv, JInv, NEW a \in Ready, CommitResize(a)
  PROVE  JInv'
<1>1. a.op \in {"shrink", "grow"} /\ \E q \in Named(a) : Commit(a, Resized(q, a.sid), swapped, fstab)
  BY DEF CommitResize
<1>2. phase = "commit"
  BY <1>1 DEF Commit
<1>3. Edited /\ todo \subseteq Actions(system, staging) /\ DiskAhead /\ SwapsAhead /\ FstabAhead
  BY <1>2 DEF JInv
<1> DEFINE p == a.sid
           u == Resized(p, p)
<1>4. p \in DOMAIN disk /\ Commit(a, u, swapped, fstab)
  BY <1>1, <1>2, NamedRight
<1>5. Progress(a) /\ disk' = u /\ swapped' = swapped /\ fstab' = fstab
  BY <1>4, CommitProgress
<1>6. p \in Stay /\ p \in Pending(a.op)
  BY <1>1, <1>3, ReadyOrder, PendingSorts
<1>7. /\ disk[p].region = system[p].region /\ staging[p] \in Partition /\ system[p] \in Partition
      /\ staging[p].region.start = system[p].region.start
  BY <1>1, <1>3, <1>6 DEF DiskAhead, Edited, Stay
<1>8. Region(disk[p].region.start, End(staging[p].region)) = staging[p].region
  BY <1>7 DEF Region, End, Partition
<1>9. \A q \in DOMAIN disk : disk[q] = [type |-> disk[q].type, number |-> disk[q].number, region |-> disk[q].region]
  BY <1>3 DEF DiskAhead, OnDisk
<1>10. /\ DOMAIN u = DOMAIN disk
       /\ \A q \in DOMAIN disk : u[q] = [type |-> disk[q].type, number |-> disk[q].number,
                                         region |-> IF q = p THEN staging[p].region ELSE disk[q].region]
  BY <1>4, <1>8, <1>9 DEF Resized
<1>11. u = OnDisk(u)
  BY <1>10 DEF Resized, OnDisk
<1> HIDE DEF u
<1>12. FstabAhead' /\ SwapsAhead'
  <2>1. \A q \in swapped : q \in DOMAIN disk' /\ disk'[q].number = disk[q].number
    BY <1>3, <1>5, <1>10 DEF SwapsAhead
  <2> QED BY <1>1, <1>3, <1>5, <2>1, FstabKept, SwapsKept
<1>13. /\ DOMAIN u = DOMAIN disk
        /\ \A q \in DOMAIN disk : /\ u[q].type = disk[q].type /\ u[q].number = disk[q].number
                                  /\ u[q].region = IF q = p THEN staging[p].region ELSE disk[q].region
  BY <1>10
<1>14. Follows(system, u)
  <2>1. OfType(u, "LOGICAL") = OfType(disk, "LOGICAL")
    BY <1>13 DEF OfType
  <2>2. \A q \in OfType(disk, "LOGICAL") : q \in DOMAIN disk
    BY DEF OfType
  <2>3. Follows(system, disk)
    BY <1>3 DEF DiskAhead
  <2> QED BY <1>13, <2>1, <2>2, <2>3 DEF Follows
<1>15. DiskAhead'
  <2>1. /\ system' = system /\ staging' = staging /\ Stay' = Stay
        /\ Pending("delete")' = Pending("delete") /\ Pending("create")' = Pending("create")
        /\ Pending("shrink")' = IF a.op = "shrink" THEN Pending("shrink") \ {p} ELSE Pending("shrink")
        /\ Pending("grow")' = IF a.op = "grow" THEN Pending("grow") \ {p} ELSE Pending("grow")
        /\ Pending("rename_in")' = Pending("rename_in")
    BY <1>1, <1>5 DEF Progress
  <2>2. Gone' = Gone /\ Made' = Made
    BY <2>1 DEF Gone, Made, Go, Come
  <2>3. (disk = OnDisk(disk))' /\ Follows(system, disk)'
    BY <1>5, <1>11, <1>14, <2>1 DEF OnDisk, Follows, OfType
  <2>4. p \notin Made /\ p \notin Pending("delete")
    BY <1>3, <1>6, PendingSorts DEF Stay, Made, Come, Go
  <2>5. p \notin Pending("shrink")' \cup Pending("grow")'
    <3>1. Pending("shrink") \cap Pending("grow") = {}
      <4>1. \A q \in Stay : staging[q].region.length \in Int /\ system[q].region.length \in Int
        BY <1>3 DEF Edited, Stay, Partition
      <4>2. /\ Pending("shrink") \subseteq {q \in Stay : staging[q].region.length < system[q].region.length}
            /\ Pending("grow") \subseteq {q \in Stay : staging[q].region.length > system[q].region.length}
        BY <1>3, PendingSorts
      <4> QED BY <4>1, <4>2
    <3> QED BY <1>1, <1>6, <2>1, <3>1
  <2>6. /\ Made # {} => Pending("delete") = {} /\ Pending("rename_in") = {} /\ Pending("shrink") = {}
        /\ Pending("shrink") # {} => Gone = {}
        /\ \A d \in Gone, e \in Pending("delete") : system[e].number < system[d].number
        /\ DOMAIN disk = Stay \cup Pending("delete") \cup Made
    BY <1>3 DEF DiskAhead
  <2>7. /\ (Made # {})' => Pending("delete")' = {} /\ Pending("rename_in")' = {} /\ Pending("shrink")' = {}
        /\ Pending("shrink")' # {} => Gone' = {}
        /\ \A d \in Gone', e \in Pending("delete")' : system'[e].number < system'[d].number
        /\ DOMAIN disk' = Stay' \cup Pending("delete")' \cup Made'
    BY <1>5, <1>10, <2>1, <2>2, <2>6
  <2>8. \A c \in Made' : /\ disk'[c].type = staging'[c].type /\ disk'[c].number = staging'[c].number
                         /\ disk'[c].region = staging'[c].region
                         /\ \A e \in Pending("create")' : staging'[c].number < staging'[e].number
    <3>1. ASSUME NEW c \in Made
          PROVE  /\ u[c].type = staging[c].type /\ u[c].number = staging[c].number
                 /\ u[c].region = staging[c].region
                 /\ \A e \in Pending("create") : staging[c].number < staging[e].number
      <4>1. c \in DOMAIN disk /\ c # p
        BY <2>4, <2>6
      <4> QED BY <1>3, <1>13, <4>1 DEF DiskAhead
    <3> QED BY <1>5, <2>1, <2>2, <3>1
  <2>9. /\ \A q \in Stay' : disk'[q].region = IF q \in Pending("shrink")' \cup Pending("grow")'
                                              THEN system'[q].region ELSE staging'[q].region
        /\ \A q \in Pending("delete")' : disk'[q].region = system'[q].region
    <3>1. ASSUME NEW q \in Stay
          PROVE  u[q].region = IF q \in Pending("shrink")' \cup Pending("grow")'
                               THEN system[q].region ELSE staging[q].region
      <4>1. q \in DOMAIN disk
        BY <2>6
      <4>2. disk[q].region = IF q \in Pending("shrink") \cup Pending("grow")
                             THEN system[q].region ELSE staging[q].region
        BY <1>3 DEF DiskAhead
      <4>3. q # p => (q \in Pending("shrink")' \cup Pending("grow")' <=> q \in Pending("shrink") \cup Pending("grow"))
        BY <2>1
      <4> QED BY <1>13, <2>5, <4>1, <4>2, <4>3
    <3>2. ASSUME NEW q \in Pending("delete") PROVE u[q].region = system[q].region
      <4>1. q \in DOMAIN disk /\ q # p
        BY <2>4, <2>6
      <4> QED BY <1>3, <1>13, <4>1 DEF DiskAhead
    <3> QED BY <1>5, <2>1, <3>1, <3>2
  <2> QED BY <2>3, <2>7, <2>8, <2>9 DEF DiskAhead
<1> QED BY <1>5, <1>12, <1>15 DEF JInv, Progress

\* Steps that change fstab alone.
LEMMA FstabStep ==
  ASSUME IInv, JInv, NEW a \in Ready, NEW f, Commit(a, disk, swapped, f),
         a.op \in {"rename_in", "add_fstab", "remove_fstab"}, FstabAhead'
  PROVE  JInv'
<1>1. phase = "commit"
  BY DEF Commit
<1>2. DiskAhead /\ SwapsAhead
  BY <1>1 DEF JInv
<1>3. Progress(a) /\ disk' = disk /\ swapped' = swapped
  BY CommitProgress
<1>4. \A p \in swapped : p \in DOMAIN disk
  BY <1>2 DEF SwapsAhead
<1>5. DiskAhead' /\ SwapsAhead'
  BY <1>2, <1>3, <1>4, DiskKept, SwapsKept
<1> QED BY <1>3, <1>5 DEF JInv, Progress

\* An entry is added with the number that the partition has on disk by then.
LEMMA AddFstabStep ==
  ASSUME IInv, JInv, NEW a \in Ready, CommitAddFstab(a)
  PROVE  JInv'
<1> DEFINE p == a.sid
           f == [q \in DOMAIN fstab \cup {p} |-> IF q = p THEN staging[q].number ELSE fstab[q]]
<1>1. a.op = "add_fstab" /\ Commit(a, disk, swapped, f) /\ phase = "commit"
  BY DEF CommitAddFstab, Commit
<1>2. DOMAIN f = DOMAIN fstab \cup {p} /\ f = [q \in DOMAIN f |-> f[q]]
      /\ \A q \in DOMAIN f : f[q] = IF q = p THEN staging[q].number ELSE fstab[q]
  OBVIOUS
<1> HIDE DEF f
<1>3. Edited /\ todo \subseteq Actions(system, staging) /\ DiskAhead /\ FstabAhead
  BY <1>1 DEF JInv
<1>4. /\ p \in Come \cap Listed(staging) /\ p \in Pending("add_fstab") /\ p \notin Pending("create")
  BY <1>1, <1>3, ReadyOrder, PendingSorts
<1>5. Progress(a) /\ fstab' = f
  BY <1>1, CommitProgress
<1>6. /\ system' = system /\ staging' = staging /\ Stay' = Stay /\ Come' = Come
      /\ Pending("delete")' = Pending("delete") /\ Pending("create")' = Pending("create")
      /\ Pending("rename_in")' = Pending("rename_in") /\ Pending("remove_fstab")' = Pending("remove_fstab")
      /\ Pending("add_fstab")' = Pending("add_fstab") \ {p}
  BY <1>1, <1>5 DEF Progress
<1>7. Listed(system)' = Listed(system) /\ Listed(staging)' = Listed(staging)
  BY <1>6 DEF Listed
<1>8. Renamed' = Renamed /\ Made' = Made /\ Added' = Added \cup {p} /\ p \in Made
  BY <1>4, <1>6, <1>7 DEF Renamed, Added, Made
<1>9. p \notin Pending("remove_fstab") \cup Pending("rename_in")
  BY <1>3, <1>4, PendingSorts DEF Stay, Go, Come
<1>10. \A q \in DOMAIN f : f[q] = IF q \in Pending("remove_fstab") \cup Pending("rename_in") THEN system[q].number
                                                                                   ELSE staging[q].number
  BY <1>2, <1>3, <1>9 DEF FstabAhead
<1>11. FstabAhead'
  <2>1. fstab' = [q \in DOMAIN fstab' |-> fstab'[q]]
    BY <1>2, <1>5
  <2>2. DOMAIN fstab' = (Stay' \cap Listed(system)') \cup Pending("remove_fstab")' \cup Added'
    BY <1>2, <1>3, <1>5, <1>6, <1>7, <1>8 DEF FstabAhead
  <2>3. \A q \in DOMAIN fstab' :
          fstab'[q] = IF q \in Pending("remove_fstab")' \cup Pending("rename_in")' THEN system'[q].number
                                                                                  ELSE staging'[q].number
    BY <1>5, <1>6, <1>10
  <2> QED BY <1>3, <1>6, <1>8, <2>1, <2>2, <2>3 DEF FstabAhead
<1> QED BY <1>1, <1>11, FstabStep

\* No other entry has the name of the partition whose entry is removed.
LEMMA RemoveFstabStep ==
  ASSUME IInv, JInv, NEW a \in Ready, CommitRemoveFstab(a)
  PROVE  JInv'
<1> DEFINE p == a.sid
           f == Without(fstab, {p})
<1>1. a.op = "remove_fstab" /\ Commit(a, disk, swapped, Without(fstab, Found(p))) /\ phase = "commit"
  BY DEF CommitRemoveFstab, Commit
<1>2. Edited /\ todo \subseteq Actions(system, staging) /\ DiskAhead /\ FstabAhead
  BY <1>1 DEF JInv
<1>3. p \in Go \cap Listed(system) /\ p \in Pending("remove_fstab") /\ p \in Pending("delete")
  BY <1>1, <1>2, ReadyOrder, PendingSorts DEF FstabAhead
<1>4. Renamed = {} /\ Made = {} /\ Added = {}
  BY <1>2, <1>3 DEF DiskAhead, FstabAhead
<1>5. \A q \in DOMAIN fstab : q \in DOMAIN system /\ fstab[q] = system[q].number
  <2>1. ASSUME NEW q \in DOMAIN fstab PROVE q \in DOMAIN system /\ fstab[q] = system[q].number
    <3>1. q \in Stay \cap Listed(system) \/ q \in Pending("remove_fstab")
      BY <1>2, <1>4 DEF FstabAhead
    <3>2. q \in DOMAIN system
      BY <1>2, <3>1, PendingSorts DEF Stay, Go
    <3>3. fstab[q] = IF q \in Pending("remove_fstab") \cup Pending("rename_in") THEN system[q].number ELSE staging[q].number
      BY <1>2 DEF FstabAhead
    <3>4. q \notin Pending("remove_fstab") \cup Pending("rename_in") => staging[q].number = system[q].number
      BY <1>4, <3>1 DEF Renamed
    <3> QED BY <3>2, <3>3, <3>4
  <2> QED BY <2>1
<1>6. Found(p) = {p}
  <2>1. p \in DOMAIN fstab
    BY <1>2, <1>3 DEF FstabAhead
  <2>2. \A q \in DOMAIN system : system[q].number = system[p].number => q = p
    BY <1>2, <1>3 DEF Edited, Sound, Go
  <2> QED BY <1>5, <2>1, <2>2 DEF Found
<1>7. DOMAIN f = DOMAIN fstab \ {p} /\ f = [q \in DOMAIN f |-> f[q]] /\ \A q \in DOMAIN f : f[q] = fstab[q]
  BY DEF Without
<1>8. Commit(a, disk, swapped, f)
  BY <1>1, <1>6
<1> HIDE DEF f
<1>9. Progress(a) /\ fstab' = f
  BY <1>8, CommitProgress
<1>10. /\ system' = system /\ staging' = staging /\ Stay' = Stay /\ Come' = Come
       /\ Pending("delete")' = Pending("delete") /\ Pending("create")' = Pending("create")
       /\ Pending("rename_in")' = Pending("rename_in") /\ Pending("add_fstab")' = Pending("add_fstab")
       /\ Pending("remove_fstab")' = Pending("remove_fstab") \ {p}
  BY <1>1, <1>9 DEF Progress
<1>11. Listed(system)' = Listed(system) /\ Listed(staging)' = Listed(staging)
  BY <1>10 DEF Listed
<1>12. Renamed' = {} /\ Added' = {}
  BY <1>4, <1>10, <1>11 DEF Renamed, Added
<1>13. FstabAhead'
  <2>1. fstab' = [q \in DOMAIN fstab' |-> fstab'[q]]
    BY <1>7, <1>9
  <2>2. DOMAIN fstab' = (Stay' \cap Listed(system)') \cup Pending("remove_fstab")' \cup Added'
    <3>1. p \notin Stay
      BY <1>3 DEF Stay, Go
    <3>2. DOMAIN fstab = (Stay \cap Listed(system)) \cup Pending("remove_fstab") \cup Added
      BY <1>2 DEF FstabAhead
    <3> QED BY <1>4, <1>7, <1>9, <1>10, <1>11, <1>12, <3>1, <3>2
  <2>3. \A q \in DOMAIN fstab' :
          fstab'[q] = IF q \in Pending("remove_fstab")' \cup Pending("rename_in")' THEN system'[q].number
                                                                                  ELSE staging'[q].number
    BY <1>2, <1>7, <1>9, <1>10 DEF FstabAhead
  <2> QED BY <1>2, <1>10, <1>12, <2>1, <2>2, <2>3 DEF FstabAhead
<1> QED BY <1>1, <1>8, <1>13, FstabStep

\* Nor the one whose entry is renamed: the numbers of those renamed before are lower.
LEMMA RenameStep ==
  ASSUME IInv, JInv, NEW a \in Ready, CommitRename(a)
  PROVE  JInv'
<1> DEFINE p == a.sid
           f == [q \in DOMAIN fstab |-> IF q = p THEN staging[p].number ELSE fstab[q]]
<1>1. /\ a.op = "rename_in" /\ phase = "commit"
      /\ Commit(a, disk, swapped, [q \in DOMAIN fstab |-> IF q \in Found(p) THEN staging[p].number ELSE fstab[q]])
  BY DEF CommitRename, Commit
<1>2. Edited /\ todo \subseteq Actions(system, staging) /\ DiskAhead /\ FstabAhead
  BY <1>1 DEF JInv
<1>3. /\ p \in Stay \cap Listed(system) /\ p \in Pending("rename_in") /\ staging[p].number # system[p].number
      /\ Pending("delete") = {}
      /\ \A e \in Pending("rename_in") : ~ RenameKey(e, system, staging) < RenameKey(p, system, staging)
  BY <1>1, <1>2, ReadyOrder, PendingSorts
<1>4. Pending("remove_fstab") = {} /\ Made = {} /\ Added = {}
  BY <1>2, <1>3 DEF DiskAhead, FstabAhead
<1>5. DOMAIN fstab = Stay \cap Listed(system)
  BY <1>2, <1>4 DEF FstabAhead
<1>6. \A q \in Stay : /\ q \in DOMAIN system /\ q \in DOMAIN staging
                      /\ system[q].number \in Nat /\ staging[q].number \in Nat
                      /\ staging[q].number <= system[q].number
  BY <1>2 DEF Edited, Sound, Partition, Follows, Stay
<1>7. /\ \A q \in DOMAIN system : system[q].number = system[p].number => q = p
      /\ \A q \in DOMAIN staging : staging[q].number = staging[p].number => q = p
  <2>1. p \in DOMAIN system /\ p \in DOMAIN staging
    BY <1>3 DEF Stay
  <2> QED BY <1>2, <2>1 DEF Edited, Sound, IInv
<1>8. Pending("rename_in") \subseteq {q \in Stay \cap Listed(system) : staging[q].number # system[q].number}
  BY <1>2, PendingSorts
<1>9. \A q \in DOMAIN fstab : fstab[q] = IF q \in Pending("rename_in") THEN system[q].number ELSE staging[q].number
  BY <1>2, <1>4 DEF FstabAhead
<1>10. Found(p) = {p}
  <2>1. ASSUME NEW q \in DOMAIN fstab, fstab[q] = system[p].number PROVE q = p
    <3>1. CASE q \in Pending("rename_in")
      BY <1>5, <1>6, <1>7, <1>9, <2>1, <3>1
    <3>2. CASE q \notin Pending("rename_in") /\ staging[q].number = system[q].number
      BY <1>5, <1>6, <1>7, <1>9, <2>1, <3>2
    <3>3. CASE q \notin Pending("rename_in") /\ staging[q].number # system[q].number
      <4>1. q \in Renamed
        BY <1>5, <3>3 DEF Renamed
      <4>2. staging[q].number < staging[p].number
        BY <1>2, <1>3, <4>1 DEF FstabAhead
      <4>3. fstab[q] = staging[q].number
        BY <1>9, <3>3
      <4>4. /\ staging[q].number \in Nat /\ staging[p].number \in Nat /\ system[p].number \in Nat
            /\ staging[p].number <= system[p].number
        BY <1>3, <1>5, <1>6
      <4>5. staging[q].number = system[p].number
        BY <2>1, <4>3
      <4> QED BY <4>2, <4>4, <4>5
    <3> QED BY <3>1, <3>2, <3>3
  <2>2. p \in DOMAIN fstab /\ fstab[p] = system[p].number
    BY <1>3, <1>5, <1>9
  <2> QED BY <2>1, <2>2 DEF Found
<1>11. DOMAIN f = DOMAIN fstab /\ f = [q \in DOMAIN f |-> f[q]]
       /\ \A q \in DOMAIN f : f[q] = IF q = p THEN staging[p].number ELSE fstab[q]
  OBVIOUS
<1>12. Commit(a, disk, swapped, f)
  <2>1. f = [q \in DOMAIN fstab |-> IF q \in Found(p) THEN staging[p].number ELSE fstab[q]]
    BY <1>10
  <2> QED BY <1>1, <2>1
<1> HIDE DEF f
<1>13. Progress(a) /\ fstab' = f
  BY <1>12, CommitProgress
<1>14. /\ system' = system /\ staging' = staging /\ Stay' = Stay /\ Come' = Come
       /\ Pending("delete")' = Pending("delete") /\ Pending("create")' = Pending("create")
       /\ Pending("rename_in")' = Pending("rename_in") \ {p} /\ Pending("add_fstab")' = Pending("add_fstab")
       /\ Pending("remove_fstab")' = Pending("remove_fstab")
  BY <1>1, <1>13 DEF Progress
<1>15. Listed(system)' = Listed(system) /\ Listed(staging)' = Listed(staging)
  BY <1>14 DEF Listed
<1>16. Renamed' = Renamed \cup {p} /\ Added' = {}
  BY <1>3, <1>4, <1>14, <1>15 DEF Renamed, Added
<1>17. ASSUME NEW q \in Pending("rename_in"), q # p PROVE staging[p].number < staging[q].number
  <2>1. /\ q \in Stay /\ p \in Stay /\ staging[q].number < system[q].number /\ staging[p].number < system[p].number
        /\ staging[q].number # staging[p].number
    BY <1>3, <1>6, <1>7, <1>8, <1>17
  <2>2. RenameKey(q, system, staging) = staging[q].number /\ RenameKey(p, system, staging) = staging[p].number
    BY <1>6, <2>1 DEF RenameKey
  <2> QED BY <1>3, <1>6, <2>1, <2>2
<1>18. FstabAhead'
  <2>1. fstab' = [q \in DOMAIN fstab' |-> fstab'[q]]
    BY <1>11, <1>13
  <2>2. DOMAIN fstab' = (Stay' \cap Listed(system)') \cup Pending("remove_fstab")' \cup Added'
    BY <1>4, <1>5, <1>11, <1>13, <1>14, <1>15, <1>16
  <2>3. \A q \in DOMAIN fstab' :
          fstab'[q] = IF q \in Pending("remove_fstab")' \cup Pending("rename_in")' THEN system'[q].number
                                                                                  ELSE staging'[q].number
    BY <1>4, <1>9, <1>11, <1>13, <1>14
  <2>4. \A r \in Renamed', q \in Pending("rename_in")' : staging'[r].number < staging'[q].number
    <3>1. \A r \in Renamed, q \in Pending("rename_in") : staging[r].number < staging[q].number
      BY <1>2 DEF FstabAhead
    <3> QED BY <1>14, <1>16, <1>17, <3>1
  <2> QED BY <1>3, <1>4, <1>14, <1>16, <2>1, <2>2, <2>3, <2>4 DEF FstabAhead
<1> QED BY <1>1, <1>12, <1>18, FstabStep

\* What rm does to a table without descendants of p: nothing but numbers change.
Rm(t, p) == IF t[p].type = "LOGICAL" THEN ShiftLogicals(Without(t, {p}), t[p].number) ELSE Without(t, {p})

\* What rm does: p goes, logical partitions with higher numbers get lower ones.
Renumbered(t, p, u) ==
  /\ u = OnDisk(u) /\ DOMAIN u = DOMAIN t \ {p}
  /\ \A q \in DOMAIN u :
       /\ u[q].type = t[q].type /\ u[q].region = t[q].region /\ u[q].number <= t[q].number
       /\ u[q].number \in Nat
       /\ u[q].type # "LOGICAL" => u[q].number = t[q].number
       /\ t[q].number < t[p].number => u[q].number = t[q].number
       /\ t[p].type # "LOGICAL" => u[q].number = t[q].number
  /\ \A q, x \in OfType(t, "LOGICAL") \cap DOMAIN u : t[q].number < t[x].number => u[q].number < u[x].number

\* It does.
LEMMA RmRenumbers ==
  ASSUME NEW type, NEW t, Sound(type, t), t = OnDisk(t), NEW p \in DOMAIN t
  PROVE  Renumbered(t, p, Rm(t, p))
<1> DEFINE W == Without(t, {p})
           u == Rm(t, p)
           n == t[p].number
           m(q) == IF t[p].type = "LOGICAL" /\ t[q].number > n THEN t[q].number - 1 ELSE t[q].number
<1>1. \A q \in DOMAIN t : t[q] = [type |-> t[q].type, number |-> t[q].number, region |-> t[q].region]
  BY DEF OnDisk
<1>2. DOMAIN W = DOMAIN t \ {p} /\ \A q \in DOMAIN W : W[q] = t[q]
  BY DEF Without
<1>3. /\ n \in Nat \ {0} /\ \A q \in DOMAIN t : t[q].number \in Nat \ {0}
      /\ \A q \in DOMAIN t \ {p} : t[q].number # n
  BY DEF Sound
<1>4. \A q \in DOMAIN t : t[q].type # "LOGICAL" /\ t[p].type = "LOGICAL" => t[q].number < n
  BY PrimariesFirst DEF OfType
<1>5. /\ DOMAIN u = DOMAIN t \ {p}
      /\ \A q \in DOMAIN u : u[q] = IF t[p].type = "LOGICAL" /\ t[q].number > n
                                     THEN [t[q] EXCEPT !.number = @ - 1] ELSE t[q]
      /\ u = [q \in DOMAIN u |-> u[q]]
  <2> HIDE DEF W
  <2>1. CASE t[p].type = "LOGICAL"
    BY <1>2, <2>1 DEF Rm, W, ShiftLogicals
  <2>2. CASE t[p].type # "LOGICAL"
    BY <1>2, <2>2 DEF Rm, W, Without
  <2> QED BY <2>1, <2>2
<1> HIDE DEF u, W
<1>6. \A q \in DOMAIN u : u[q] = [type |-> t[q].type, number |-> m(q), region |-> t[q].region]
  <2> HIDE DEF n
  <2> QED BY <1>1, <1>5
<1> HIDE DEF m
<1>7. u = OnDisk(u)
  BY <1>5, <1>6 DEF OnDisk
<1>8. \A q \in DOMAIN u : u[q].type = t[q].type /\ u[q].region = t[q].region /\ u[q].number = m(q)
  BY <1>6
<1>9. ASSUME NEW q \in DOMAIN u
      PROVE  /\ m(q) <= t[q].number /\ m(q) \in Nat
             /\ t[q].type # "LOGICAL" => m(q) = t[q].number
             /\ t[q].number < n => m(q) = t[q].number
             /\ t[p].type # "LOGICAL" => m(q) = t[q].number
  <2>1. q \in DOMAIN t /\ t[q].number \in Nat \ {0} /\ n \in Nat /\ (t[q].type # "LOGICAL" /\ t[p].type = "LOGICAL" => t[q].number < n)
    BY <1>3, <1>4, <1>5
  <2> HIDE DEF n
  <2> QED BY <2>1 DEF m
<1>10. ASSUME NEW q \in DOMAIN u, NEW x \in DOMAIN u, t[q].number < t[x].number
       PROVE  m(q) < m(x)
  <2> DEFINE b == t[q].number
             c == t[x].number
  <2>1. b \in Nat /\ c \in Nat /\ b # n /\ c # n /\ b < c /\ n \in Nat
    BY <1>3, <1>5, <1>10
  <2>2. /\ m(q) = IF t[p].type = "LOGICAL" /\ b > n THEN b - 1 ELSE b
        /\ m(x) = IF t[p].type = "LOGICAL" /\ c > n THEN c - 1 ELSE c
    BY DEF m
  <2> HIDE DEF b, c, n
  <2> QED BY <2>1, <2>2
<1>11. \A q \in DOMAIN u :
         /\ u[q].type = t[q].type /\ u[q].region = t[q].region /\ u[q].number <= t[q].number
         /\ u[q].number \in Nat
         /\ u[q].type # "LOGICAL" => u[q].number = t[q].number
         /\ t[q].number < t[p].number => u[q].number = t[q].number
         /\ t[p].type # "LOGICAL" => u[q].number = t[q].number
  BY <1>8, <1>9 DEF n
<1>12. \A q, x \in OfType(t, "LOGICAL") \cap DOMAIN u : t[q].number < t[x].number => u[q].number < u[x].number
  BY <1>8, <1>10
<1> QED BY <1>5, <1>7, <1>11, <1>12 DEF Renumbered, u

\* An extended partition is deleted after the logical ones in it.
LEMMA RemovedAlone ==
  ASSUME IInv, Edited, DiskAhead, todo \subseteq Actions(system, staging), NEW a \in Ready, a.op = "delete"
  PROVE  Removed(disk, a.sid) = {a.sid}
<1> DEFINE p == a.sid
<1>1. /\ p \in Pending("delete") /\ p \in Go /\ Pending("shrink") = {}
      /\ \A e \in Pending("delete") : ~ system[e].number > system[p].number
      /\ Pending("delete") \subseteq Go
  BY ReadyOrder, PendingSorts
<1>2. p \in DOMAIN disk /\ Made = {} /\ DOMAIN disk = Stay \cup Pending("delete")
  BY <1>1 DEF DiskAhead
<1>3. /\ Sound(pt, system) /\ Sound(pt, disk) /\ Follows(system, disk)
      /\ p \in DOMAIN system /\ DOMAIN disk \subseteq DOMAIN system
      /\ \A q \in DOMAIN system : system[q].number \in Nat
  BY <1>1, <1>2 DEF IInv, Edited, DiskAhead, Go, Stay, Sound
<1>4. CASE disk[p].type = "EXTENDED"
  <2>1. system[p].type = "EXTENDED" /\ p \notin DOMAIN staging
    BY <1>2, <1>1, <1>3, <1>4 DEF Follows, Go
  <2>2. OfType(system, "LOGICAL") \cap DOMAIN staging = {}
    BY <1>3, <2>1 DEF Edited, OfType
  <2>3. ASSUME NEW q \in OfType(disk, "LOGICAL") PROVE FALSE
    <3>1. q \in DOMAIN disk /\ q \in OfType(system, "LOGICAL")
      BY <1>3 DEF OfType, Follows
    <3>2. q \in Pending("delete")
      BY <1>2, <2>2, <3>1 DEF Stay
    <3>3. system[p].number < system[q].number
      BY <1>3, <2>1, <3>1, PrimariesFirst
    <3>4. q \in DOMAIN system
      BY <3>1 DEF OfType
    <3> QED BY <1>1, <1>3, <3>2, <3>3, <3>4
  <2> QED BY <1>4, <2>3 DEF Removed
<1>5. CASE disk[p].type # "EXTENDED"
  BY <1>5 DEF Removed
<1> QED BY <1>4, <1>5

\* The last of the partitions that are to go: no logical partition is left when the
\* extended one goes, and what is swapped to has a lower number.
LEMMA DeleteStep ==
  ASSUME IInv, JInv, NEW a \in Ready, CommitDelete(a)
  PROVE  JInv'
<1> DEFINE p == a.sid
           u == Rm(disk, p)
<1>1. /\ a.op = "delete" /\ phase = "commit"
      /\ \E q \in Named(a) :
           /\ DeletionOK(q)
           /\ Commit(a, IF disk[q].type = "LOGICAL" THEN ShiftLogicals(Without(disk, Removed(disk, q)), disk[q].number)
                                                    ELSE Without(disk, Removed(disk, q)), swapped, fstab)
  BY DEF CommitDelete, Commit
<1>2. Edited /\ todo \subseteq Actions(system, staging) /\ DiskAhead /\ SwapsAhead /\ FstabAhead
  BY <1>1 DEF JInv
<1>3. /\ p \in DOMAIN disk /\ DeletionOK(p)
      /\ Commit(a, IF disk[p].type = "LOGICAL" THEN ShiftLogicals(Without(disk, Removed(disk, p)), disk[p].number)
                                               ELSE Without(disk, Removed(disk, p)), swapped, fstab)
  BY <1>1, NamedRight
<1>4. /\ p \in Pending("delete") /\ p \in Go /\ Pending("shrink") = {}
      /\ \A e \in Pending("delete") : ~ system[e].number > system[p].number
      /\ p \notin Pending("unmount") \cup Pending("remove_fstab")
      /\ Pending("delete") \subseteq Go
  BY <1>1, <1>2, ReadyOrder, PendingSorts
<1>5. Made = {} /\ Renamed = {} /\ Added = {} /\ DOMAIN disk = Stay \cup Pending("delete")
  BY <1>2, <1>4 DEF DiskAhead, FstabAhead
<1>6. /\ Sound(pt, system) /\ Sound(pt, disk) /\ Follows(system, disk) /\ disk = OnDisk(disk)
      /\ p \in DOMAIN system /\ DOMAIN disk \subseteq DOMAIN system
      /\ \A q \in DOMAIN system : system[q].number \in Nat
  BY <1>2, <1>4, <1>5 DEF IInv, Edited, DiskAhead, Go, Stay, Sound
<1>7. Removed(disk, p) = {p}
  BY <1>1, <1>2, RemovedAlone
<1>8. Commit(a, u, swapped, fstab)
  BY <1>3, <1>7 DEF Rm
<1>9. Renumbered(disk, p, u)
  BY <1>3, <1>6, RmRenumbers
<1>10. /\ u = OnDisk(u) /\ DOMAIN u = DOMAIN disk \ {p}
       /\ \A q \in DOMAIN u :
            /\ u[q].type = disk[q].type /\ u[q].region = disk[q].region /\ u[q].number <= disk[q].number
            /\ u[q].number \in Nat
            /\ u[q].type # "LOGICAL" => u[q].number = disk[q].number
            /\ disk[q].number < disk[p].number => u[q].number = disk[q].number
            /\ disk[p].type # "LOGICAL" => u[q].number = disk[q].number
       /\ \A q, x \in OfType(disk, "LOGICAL") \cap DOMAIN u :
            disk[q].number < disk[x].number => u[q].number < u[x].number
  <2> HIDE DEF u
  <2> QED BY <1>9 DEF Renumbered
<1> HIDE DEF u
<1>11. Progress(a) /\ disk' = u /\ swapped' = swapped /\ fstab' = fstab
  BY <1>8, CommitProgress
<1>12. /\ system' = system /\ staging' = staging /\ Stay' = Stay /\ Go' = Go /\ Come' = Come
       /\ Pending("delete")' = Pending("delete") \ {p} /\ Pending("create")' = Pending("create")
       /\ Pending("shrink")' = {} /\ Pending("grow")' = Pending("grow")
       /\ Pending("rename_in")' = Pending("rename_in")
  BY <1>1, <1>4, <1>11 DEF Progress
<1>13. Made' = {} /\ Gone' = Gone \cup {p}
  BY <1>4, <1>5, <1>12 DEF Made, Gone
<1>14. Follows(system, u)
  <2>1. Naturals0(system) /\ Naturals0(disk) /\ Naturals0(u)
    BY <1>6, <1>10, SoundNaturals DEF Naturals0
  <2> QED BY <1>6, <1>10, <2>1, FollowsFewer
<1>15. DiskAhead'
  <2>1. (disk = OnDisk(disk))' /\ Follows(system, disk)'
    BY <1>10, <1>11, <1>12, <1>14 DEF OnDisk, Follows, OfType
  <2>2. DOMAIN disk' = Stay' \cup Pending("delete")' \cup Made'
    <3>1. p \notin Stay
      BY <1>4 DEF Stay, Go
    <3> QED BY <1>5, <1>10, <1>11, <1>12, <1>13, <3>1
  <2>3. \A d \in Gone', e \in Pending("delete")' : system'[e].number < system'[d].number
    <3>1. ASSUME NEW e \in Pending("delete") \ {p} PROVE system[e].number < system[p].number
      <4>1. e \in DOMAIN system /\ system[e].number # system[p].number
        BY <1>4, <1>6 DEF Go, Sound
      <4> QED BY <1>4, <1>6, <4>1
    <3>2. \A d \in Gone, e \in Pending("delete") : system[e].number < system[d].number
      BY <1>2 DEF DiskAhead
    <3> QED BY <1>12, <1>13, <3>1, <3>2
  <2>4. /\ \A q \in Stay' : disk'[q].region = IF q \in Pending("shrink")' \cup Pending("grow")'
                                              THEN system'[q].region ELSE staging'[q].region
        /\ \A q \in Pending("delete")' : disk'[q].region = system'[q].region
    <3>1. \A q \in Stay : disk[q].region = IF q \in Pending("shrink") \cup Pending("grow")
                                           THEN system[q].region ELSE staging[q].region
      BY <1>2 DEF DiskAhead
    <3>2. \A q \in Pending("delete") : disk[q].region = system[q].region
      BY <1>2 DEF DiskAhead
    <3>3. \A q \in Stay \cup (Pending("delete") \ {p}) : q \in DOMAIN u /\ u[q].region = disk[q].region
      <4>1. p \notin Stay
        BY <1>4 DEF Stay, Go
      <4> QED BY <1>5, <1>10, <4>1
    <3> QED BY <1>4, <1>11, <1>12, <3>1, <3>2, <3>3
  <2> QED BY <1>12, <1>13, <2>1, <2>2, <2>3, <2>4 DEF DiskAhead
<1>16. SwapsAhead'
  <2>1. ASSUME NEW q \in swapped PROVE q \in DOMAIN u /\ u[q].number = disk[q].number
    <3>1. q \in DOMAIN disk /\ q # p
      BY <1>2, <1>3, <1>7 DEF SwapsAhead, DeletionOK
    <3>2. q \in DOMAIN u
      BY <1>10, <3>1
    <3>3. disk[p].type = "LOGICAL" => disk[q].number < disk[p].number
      BY <1>3 DEF DeletionOK
    <3> QED BY <1>10, <3>2, <3>3
  <2> QED BY <1>1, <1>2, <1>4, <1>11, <2>1, SwapsKept
<1>17. FstabAhead'
  BY <1>1, <1>2, <1>4, <1>11, FstabKept
<1> QED BY <1>11, <1>15, <1>16, <1>17 DEF JInv, Progress

\* Creations come in the order of the numbers: what is on disk has lower numbers if it
\* is logical, and every lower number that staging uses is in use on disk.
LEMMA LowerCreated ==
  ASSUME IInv, JInv, phase = "commit", NEW a \in Ready, a.op = "create"
  PROVE  /\ a.sid \in Come /\ a.sid \notin DOMAIN disk /\ a.sid \in Pending("create") /\ Pending("delete") = {}
         /\ \A q \in DOMAIN disk : /\ q \in DOMAIN staging /\ disk[q].type = staging[q].type
                                   /\ disk[q].number = staging[q].number
         /\ \A q \in DOMAIN staging : staging[q].number < staging[a.sid].number => q \in DOMAIN disk
         /\ staging[a.sid].type = "LOGICAL" =>
              \A q \in OfType(disk, "LOGICAL") : staging[q].number < staging[a.sid].number
<1> DEFINE p == a.sid
<1>1. Edited /\ todo \subseteq Actions(system, staging) /\ DiskAhead
  BY DEF JInv
<1>2. /\ p \in Come /\ p \in Pending("create") /\ Pending("delete") = {}
      /\ \A e \in Pending("create") : ~ staging[e].number < staging[p].number
  BY <1>1, ReadyOrder, PendingSorts
<1>3. DOMAIN disk = Stay \cup Made
  BY <1>1, <1>2 DEF DiskAhead
<1>4. p \notin DOMAIN disk
  BY <1>2, <1>3 DEF Stay, Come, Made
<1>5. \A q \in DOMAIN disk : /\ q \in DOMAIN staging /\ disk[q].type = staging[q].type
                             /\ disk[q].number = staging[q].number
  BY <1>1, <1>2, StagingNumber
<1>6. ASSUME NEW q \in DOMAIN staging, staging[q].number < staging[p].number PROVE q \in DOMAIN disk
  <2>1. q \notin Pending("create")
    BY <1>2, <1>6
  <2> QED BY <1>3, <1>6, <2>1 DEF Stay, Come, Made
<1>7. ASSUME staging[p].type = "LOGICAL", NEW q \in OfType(disk, "LOGICAL")
      PROVE  staging[q].number < staging[p].number
  <2>1. q \in DOMAIN disk /\ q \in OfType(staging, "LOGICAL") /\ p \in OfType(staging, "LOGICAL") /\ p \notin DOMAIN system
    BY <1>2, <1>5, <1>7 DEF OfType, Come
  <2>2. CASE q \in Stay
    <3>1. q \in DOMAIN system
      BY <2>2 DEF Stay
    <3> QED BY <1>1, <2>1, <3>1 DEF Edited, Follows
  <2>3. CASE q \in Made
    BY <1>1, <1>2, <2>3 DEF DiskAhead
  <2> QED BY <1>3, <2>1, <2>2, <2>3
<1> QED BY <1>2, <1>4, <1>5, <1>6, <1>7

\* parted and the temporary partitions give a new partition the number it has in
\* staging, and no partition has the number of a temporary one.
LEMMA CreatedNumber ==
  ASSUME IInv, JInv, phase = "commit", NEW a \in Ready, a.op = "create"
  PROVE  /\ NextNumbers(staging[a.sid].type, Cardinality(TemporaryNumbers(a.sid))) = {staging[a.sid].number}
         /\ \A q \in DOMAIN disk : disk[q].number \notin TemporaryNumbers(a.sid)
<1> DEFINE p == a.sid
           s == staging[p].number
           tmps == TemporaryNumbers(p)
<1>1. /\ p \in DOMAIN staging /\ p \notin DOMAIN disk
      /\ \A q \in DOMAIN disk : /\ q \in DOMAIN staging /\ disk[q].type = staging[q].type
                                /\ disk[q].number = staging[q].number
      /\ \A q \in DOMAIN staging : staging[q].number < s => q \in DOMAIN disk
      /\ staging[p].type = "LOGICAL" => \A q \in OfType(disk, "LOGICAL") : staging[q].number < s
  BY LowerCreated DEF Come
<1>2. Sound(pt, staging) /\ Sound(pt, disk) /\ (pt = "MSDOS" => DeviceRange > 4)
  BY DEF IInv
<1>3. s \in Nat \ {0} /\ (\A q \in DOMAIN staging : staging[q].number = s => q = p)
      /\ \A q \in DOMAIN staging : staging[q].number \in Nat \ {0}
  BY <1>1, <1>2 DEF Sound
<1>4. \A q \in DOMAIN disk : disk[q].number \notin tmps
  BY <1>1 DEF TemporaryNumbers, Numbers
<1>5. CASE staging[p].type = "LOGICAL"
  <2>1. pt = "MSDOS" /\ MaxPrimary(pt) = 4
    BY <1>1, <1>2, <1>5, MaxPrimaryType DEF Sound
  <2>2. UpTo(staging, p) = OfType(disk, "LOGICAL") \cup {p}
    <3>1. ASSUME NEW q \in OfType(disk, "LOGICAL") PROVE q \in OfType(staging, "LOGICAL") /\ staging[q].number <= s
      <4>1. q \in DOMAIN disk /\ staging[q].number < s
        BY <1>1, <1>5 DEF OfType
      <4> QED BY <1>1, <1>3, <4>1 DEF OfType
    <3>2. ASSUME NEW q \in OfType(staging, "LOGICAL"), staging[q].number <= s, q # p
          PROVE  q \in OfType(disk, "LOGICAL")
      <4>1. q \in DOMAIN staging /\ staging[q].number < s
        BY <1>3, <3>2 DEF OfType
      <4> QED BY <1>1, <3>2, <4>1 DEF OfType
    <3>3. p \in OfType(staging, "LOGICAL") /\ s <= s
      BY <1>1, <1>3, <1>5 DEF OfType
    <3> QED BY <3>1, <3>2, <3>3 DEF UpTo
  <2>3. p \notin OfType(disk, "LOGICAL") /\ IsFiniteSet(OfType(disk, "LOGICAL")) /\ NumLogical(disk) \in Nat
    BY <1>1, <1>2, LogicalsFinite, NumbersFinite DEF OfType, Sound
  <2>4. Cardinality(UpTo(staging, p)) = NumLogical(disk) + 1
    BY <2>2, <2>3, FS_AddElement DEF NumLogical
  <2>5. p \in OfType(staging, "LOGICAL")
    BY <1>1, <1>5 DEF OfType
  <2>6. s = MaxPrimary(pt) + Cardinality(UpTo(staging, p))
    BY <1>2, <2>5, RankNumber
  <2>7. s = 5 + NumLogical(disk)
    BY <2>1, <2>3, <2>4, <2>6
  <2> QED BY <1>4, <1>5, <2>7 DEF NextNumbers
<1>6. CASE staging[p].type # "LOGICAL"
  <2> DEFINE free(n) == {m \in 1 .. n - 1 : Numbered(m) = {}}
  <2>1. s <= MaxPrimary(pt) /\ MaxPrimary(pt) \in Nat
    BY <1>1, <1>2, <1>6, MaxPrimaryType DEF Sound
  <2>2. \A m : Numbered(m) = {} <=> \A q \in DOMAIN disk : disk[q].number # m
    BY DEF Numbered
  <2>3. Numbered(s) = {}
    BY <1>1, <1>3, <2>2
  <2>4. free(s) = tmps
    <3>1. \A m \in 1 .. s - 1 : Numbered(m) = {} <=> m \notin Numbers(staging)
      <4>1. ASSUME NEW m \in 1 .. s - 1, m \in Numbers(staging) PROVE Numbered(m) # {}
        <5>1. PICK q \in DOMAIN staging : staging[q].number = m
          BY <4>1 DEF Numbers
        <5>2. m < s
          BY <1>3, <4>1
        <5> QED BY <1>1, <2>2, <5>1, <5>2
      <4>2. ASSUME NEW m \in 1 .. s - 1, Numbered(m) # {} PROVE m \in Numbers(staging)
        BY <1>1, <2>2, <4>2 DEF Numbers
      <4> QED BY <4>1, <4>2
    <3>2. tmps = (1 .. s - 1) \ Numbers(staging)
      BY <1>6 DEF TemporaryNumbers
    <3> HIDE DEF tmps, s
    <3> QED BY <3>1, <3>2
  <2>5. ASSUME NEW m \in Nat, NEW n \in Nat, m < n, 1 <= m, Numbered(m) = {}
        PROVE  Cardinality(free(m)) # Cardinality(free(n))
    <3>1. free(m) \subseteq free(n) /\ m \in free(n) /\ m \notin free(m) /\ free(n) \subseteq 1 .. n - 1
      BY <2>5
    <3>2. IsFiniteSet(1 .. n - 1)
      BY <2>5, FS_Interval
    <3> HIDE DEF free
    <3>3. IsFiniteSet(free(n))
      BY <3>1, <3>2, FS_Subset
    <3>4. free(m) # free(n)
      BY <3>1
    <3> QED BY <3>1, <3>3, <3>4, FS_Subset
  <2>6. NextNumbers(staging[p].type, Cardinality(tmps))
          = {n \in 1 .. MaxPrimary(pt) : Numbered(n) = {} /\ Cardinality(free(n)) = Cardinality(tmps)}
    BY <1>6 DEF NextNumbers
  <2> HIDE DEF free, tmps, s
  <2>7. s \in 1 .. MaxPrimary(pt)
    BY <1>3, <2>1
  <2>8. ASSUME NEW n \in 1 .. MaxPrimary(pt), Numbered(n) = {}, Cardinality(free(n)) = Cardinality(tmps)
        PROVE  n = s
    <3>1. n \in Nat /\ 1 <= n /\ s \in Nat /\ 1 <= s
      BY <1>3, <2>1, <2>8
    <3>2. ~ n < s /\ ~ s < n
      BY <2>3, <2>4, <2>5, <2>8, <3>1
    <3> QED BY <3>1, <3>2
  <2>9. NextNumbers(staging[p].type, Cardinality(tmps)) = {s}
    BY <2>3, <2>4, <2>6, <2>7, <2>8
  <2> QED BY <1>4, <2>9 DEF tmps, s
<1> QED BY <1>5, <1>6

\* mkpart gives the partition the number that staging has for it.
LEMMA CreateStep ==
  ASSUME IInv, JInv, NEW a \in Ready, CommitCreate(a)
  PROVE  JInv'
<1> DEFINE p == a.sid
<1>1. a.op = "create" /\ phase = "commit"
  BY DEF CommitCreate, Commit
<1>2. PICK u \in Created(p) : Commit(a, u, swapped, fstab)
  BY DEF CommitCreate
<1>3. Edited /\ todo \subseteq Actions(system, staging) /\ DiskAhead /\ SwapsAhead /\ FstabAhead
  BY <1>1 DEF JInv
<1>4. /\ p \in Come /\ p \notin DOMAIN disk /\ p \in Pending("create") /\ Pending("delete") = {}
      /\ staging[p].type = "LOGICAL" =>
           \A q \in OfType(disk, "LOGICAL") : disk[q].number < staging[p].number
  <2>1. \A q \in OfType(disk, "LOGICAL") : q \in DOMAIN disk
    BY DEF OfType
  <2> QED BY <1>1, <2>1, LowerCreated
<1>5. /\ Pending("shrink") = {} /\ Pending("rename_in") = {}
      /\ \A e \in Pending("create") : ~ staging[e].number < staging[p].number
  BY <1>1, <1>3, ReadyOrder
<1>6. u = [q \in DOMAIN disk \cup {p} |->
             IF q = p THEN [type |-> staging[p].type, number |-> staging[p].number, region |-> staging[p].region]
                      ELSE disk[q]]
  <2>1. {q \in DOMAIN disk : disk[q].number \notin TemporaryNumbers(p)} = DOMAIN disk
    BY <1>1, CreatedNumber
  <2>2. NextNumbers(staging[p].type, Cardinality(TemporaryNumbers(p))) = {staging[p].number}
    BY <1>1, CreatedNumber
  <2>3. PICK number \in NextNumbers(staging[p].type, Cardinality(TemporaryNumbers(p))) :
          u = [q \in {q \in DOMAIN disk : disk[q].number \notin TemporaryNumbers(p)} \cup {p} |->
                 IF q = p THEN [type |-> staging[p].type, number |-> number, region |-> staging[p].region]
                          ELSE disk[q]]
    BY <1>2 DEF Created
  <2>4. number = staging[p].number
    BY <2>2, <2>3
  <2> QED BY <2>1, <2>3, <2>4
<1>7. /\ DOMAIN u = DOMAIN disk \cup {p} /\ \A q \in DOMAIN disk : u[q] = disk[q]
      /\ u[p] = [type |-> staging[p].type, number |-> staging[p].number, region |-> staging[p].region]
  BY <1>4, <1>6
<1>8. u[p].type = staging[p].type /\ u[p].number = staging[p].number /\ u[p].region = staging[p].region
  BY <1>7
<1>9. u = OnDisk(u)
  <2>1. \A q \in DOMAIN disk : disk[q] = [type |-> disk[q].type, number |-> disk[q].number, region |-> disk[q].region]
    BY <1>3 DEF DiskAhead, OnDisk
  <2>2. \A q \in DOMAIN u : u[q] = [type |-> u[q].type, number |-> u[q].number, region |-> u[q].region]
    <3>1. u[p] = [type |-> u[p].type, number |-> u[p].number, region |-> u[p].region]
      BY <1>7
    <3>2. \A q \in DOMAIN disk : u[q] = [type |-> u[q].type, number |-> u[q].number, region |-> u[q].region]
      <4>1. ASSUME NEW q \in DOMAIN disk
            PROVE  u[q] = [type |-> u[q].type, number |-> u[q].number, region |-> u[q].region]
        <5>1. u[q] = disk[q]
          BY <1>7
        <5> QED BY <2>1, <5>1
      <4> QED BY <4>1
    <3> QED BY <1>7, <3>1, <3>2
  <2>3. u = [q \in DOMAIN u |-> u[q]]
    BY <1>6
  <2> QED BY <2>2, <2>3 DEF OnDisk
<1>10. Progress(a) /\ disk' = u /\ swapped' = swapped /\ fstab' = fstab
  BY <1>2, CommitProgress
<1>11. /\ system' = system /\ staging' = staging /\ Stay' = Stay /\ Go' = Go /\ Come' = Come
       /\ Pending("delete")' = {} /\ Pending("create")' = Pending("create") \ {p}
       /\ Pending("shrink")' = {} /\ Pending("grow")' = Pending("grow") /\ Pending("rename_in")' = {}
  BY <1>1, <1>4, <1>5, <1>10 DEF Progress
<1>12. Made' = Made \cup {p}
  BY <1>4, <1>11 DEF Made
<1>13. Follows(system, u)
  <2>1. Follows(system, disk) /\ p \notin DOMAIN system
    BY <1>3, <1>4 DEF DiskAhead, Come
  <2>2. u[p].type = "LOGICAL" => \A q \in OfType(disk, "LOGICAL") : disk[q].number < u[p].number
    BY <1>4, <1>8
  <2> QED BY <1>4, <1>7, <2>1, <2>2, FollowsMore
<1>14. DiskAhead'
  <2>1. (disk = OnDisk(disk))' /\ Follows(system, disk)'
    BY <1>9, <1>10, <1>11, <1>13 DEF OnDisk, Follows, OfType
  <2>2. DOMAIN disk' = Stay' \cup Pending("delete")' \cup Made'
    BY <1>3, <1>4, <1>7, <1>10, <1>11, <1>12 DEF DiskAhead
  <2>3. \A c \in Made' : /\ disk'[c].type = staging'[c].type /\ disk'[c].number = staging'[c].number
                         /\ disk'[c].region = staging'[c].region
                         /\ \A e \in Pending("create")' : staging'[c].number < staging'[e].number
    <3>1. ASSUME NEW c \in Made
          PROVE  /\ u[c].type = staging[c].type /\ u[c].number = staging[c].number
                 /\ u[c].region = staging[c].region
                 /\ \A e \in Pending("create") : staging[c].number < staging[e].number
      <4>1. c \in DOMAIN disk
        BY <1>3 DEF DiskAhead
      <4> QED BY <1>3, <1>7, <4>1 DEF DiskAhead
    <3>2. ASSUME NEW e \in Pending("create") \ {p} PROVE staging[p].number < staging[e].number
      <4>1. p \in DOMAIN staging /\ e \in DOMAIN staging
        BY <1>3, <1>4, PendingSorts DEF Come
      <4>2. staging[p].number # staging[e].number /\ staging[p].number \in Nat /\ staging[e].number \in Nat
        BY <4>1 DEF IInv, Sound
      <4> QED BY <1>5, <4>2
    <3> QED BY <1>8, <1>10, <1>11, <1>12, <3>1, <3>2
  <2>4. \A q \in Stay' : disk'[q].region = IF q \in Pending("shrink")' \cup Pending("grow")'
                                           THEN system'[q].region ELSE staging'[q].region
    <3>1. \A q \in Stay : q \in DOMAIN disk
      BY <1>3 DEF DiskAhead
    <3>2. \A q \in Stay : disk[q].region = IF q \in Pending("shrink") \cup Pending("grow")
                                           THEN system[q].region ELSE staging[q].region
      BY <1>3 DEF DiskAhead
    <3> QED BY <1>5, <1>7, <1>10, <1>11, <3>1, <3>2
  <2> QED BY <1>11, <1>12, <2>1, <2>2, <2>3, <2>4 DEF DiskAhead
<1>15. SwapsAhead' /\ FstabAhead'
  <2>1. \A q \in swapped : q \in DOMAIN disk' /\ disk'[q].number = disk[q].number
    BY <1>3, <1>7, <1>10 DEF SwapsAhead
  <2> QED BY <1>1, <1>3, <1>10, <2>1, SwapsKept, FstabKept
<1> QED BY <1>10, <1>14, <1>15 DEF JInv, Progress
-----------------------------------------------------------------------------
(* The other steps                                                         *)

\* Nothing was edited yet.
LEMMA EditedAnew ==
  ASSUME NEW type, NEW t, Sound(type, t)
  PROVE  Follows(t, t) /\ OfType(t, "EXTENDED") \subseteq DOMAIN t /\ OfType(t, "LOGICAL") \ DOMAIN t = {}
<1>1. Follows(t, t)
  BY SoundNaturals, FollowsItself
<1> QED BY <1>1 DEF OfType

\* At first nothing is edited.
LEMMA InitJInv == Init => JInv
<1> SUFFICES ASSUME Init PROVE JInv
  OBVIOUS
<1>1. PICK d \in Disks :
        /\ pt = d.pt /\ disk = OnDisk(d.partitions) /\ swapped = Active(d.partitions)
        /\ fstab = Entries(d.partitions) /\ system = d.partitions /\ staging = d.partitions /\ phase = "edit"
  BY DEF Init
<1>2. /\ Sound(pt, system) /\ DOMAIN system \subseteq Sid
      /\ \A p \in DOMAIN system : system[p] \in Partition
  BY <1>1, DisksAssumption DEF Proper
<1>3. Edited
  <2>1. Follows(system, staging) /\ OfType(system, "EXTENDED") \subseteq DOMAIN staging
        /\ OfType(system, "LOGICAL") \ DOMAIN staging = {} /\ staging = system
    BY <1>1, <1>2, EditedAnew
  <2> QED BY <1>2, <2>1 DEF Edited
<1> QED BY <1>1, <1>3 DEF JInv

\* A client changes nothing but staging.
LEMMA EditStep ==
  ASSUME IInv, JInv, Create \/ Delete \/ Resize \/ Deactivate
  PROVE  JInv'
<1>1. \E t : Edit(t)
  BY DEF Create, Delete, Resize, Deactivate
<1>2. phase = "edit" /\ UNCHANGED <<disk, swapped, fstab, system, phase>>
  BY <1>1 DEF Edit
<1>3. Edited'
  BY CreateEdited, DeleteEdited, ResizeEdited, DeactivateEdited DEF JInv
<1>4. OnDisk(system)' = OnDisk(system) /\ Active(system)' = Active(system) /\ Entries(system)' = Entries(system)
  BY <1>2 DEF OnDisk, Active, Entries, Listed
<1> QED BY <1>2, <1>3, <1>4 DEF JInv

\* At first everything is left to do.
LEMMA ActiongraphStep ==
  ASSUME IInv, JInv, CalculateActiongraph
  PROVE  JInv'
<1>1. /\ phase = "edit" /\ phase' = "commit" /\ todo' = Actions(system, staging)
      /\ pt' = pt /\ disk' = disk /\ swapped' = swapped /\ fstab' = fstab
      /\ system' = system /\ staging' = staging
  BY DEF CalculateActiongraph
<1>2. /\ Edited /\ disk = OnDisk(system) /\ swapped = Active(system) /\ fstab = Entries(system)
  BY <1>1 DEF JInv
<1>3. Edited' /\ todo' \subseteq Actions(system, staging)'
  BY <1>1, <1>2 DEF Edited, Active, Listed, OfType, Follows, Actions
<1>4. /\ Stay' = Stay /\ Go' = Go /\ Come' = Come /\ Listed(system)' = Listed(system)
      /\ Listed(staging)' = Listed(staging) /\ Active(staging)' = Active(staging)
      /\ OnDisk(disk)' = OnDisk(disk) /\ Follows(system, disk)' = Follows(system, disk)
  BY <1>1 DEF Stay, Go, Come, Listed, Active, OnDisk, Follows, OfType
<1>5. /\ Stay \subseteq Sid /\ Go \subseteq Sid /\ Come \subseteq Sid /\ Active(system) \subseteq Sid
      /\ \A p \in Stay : system[p] \in Partition /\ staging[p] \in Partition
  BY <1>2 DEF Edited, Stay, Go, Come, Active
<1>6. /\ \A p \in Go : Act("delete", p) \in todo'
      /\ \A p \in Come : Act("create", p) \in todo'
      /\ \A p \in Come \cap Listed(staging) : Act("add_fstab", p) \in todo'
      /\ \A p \in Go \cap Listed(system) : Act("remove_fstab", p) \in todo'
      /\ \A p \in Active(system) \ Active(staging) : Act("unmount", p) \in todo'
  BY <1>1 DEF Actions, Go, Come
<1>7. /\ \A p \in Stay : staging[p].region.length < system[p].region.length => Act("shrink", p) \in todo'
      /\ \A p \in Stay : staging[p].region.length > system[p].region.length => Act("grow", p) \in todo'
      /\ \A p \in Stay \cap Listed(system) : staging[p].number # system[p].number => Act("rename_in", p) \in todo'
  BY <1>1 DEF Actions, Stay
<1>8. /\ Pending("delete")' = Go /\ Pending("create")' = Come /\ Pending("add_fstab")' = Come \cap Listed(staging)
      /\ Pending("remove_fstab")' = Go \cap Listed(system)
      /\ Pending("unmount")' = Active(system) \ Active(staging)
      /\ Pending("shrink")' = {p \in Stay : staging[p].region.length < system[p].region.length}
      /\ Pending("grow")' = {p \in Stay : staging[p].region.length > system[p].region.length}
      /\ Pending("rename_in")' = {p \in Stay \cap Listed(system) : staging[p].number # system[p].number}
  <2> DEFINE of(op, S) == {Act(op, p) : p \in S}
  <2>1. \A o, q, op, S : Act(o, q) \in of(op, S) => o = op /\ q \in S
    BY DEF Act
  <2>2. ASSUME NEW o, NEW q, Act(o, q) \in Actions(system, staging)
        PROVE  /\ o = "delete" => q \in Go
               /\ o = "create" => q \in Come
               /\ o = "add_fstab" => q \in Come \cap Listed(staging)
               /\ o = "remove_fstab" => q \in Go \cap Listed(system)
               /\ o = "unmount" => q \in Active(system) \ Active(staging)
               /\ o = "shrink" => q \in {p \in Stay : staging[p].region.length < system[p].region.length}
               /\ o = "grow" => q \in {p \in Stay : staging[p].region.length > system[p].region.length}
               /\ o = "rename_in" => q \in {p \in Stay \cap Listed(system) : staging[p].number # system[p].number}
    <3>1. \/ Act(o, q) \in of("delete", Go) \/ Act(o, q) \in of("create", Come)
          \/ Act(o, q) \in of("add_fstab", Come \cap Listed(staging))
          \/ Act(o, q) \in of("remove_fstab", Go \cap Listed(system))
          \/ Act(o, q) \in of("unmount", Active(system) \ Active(staging))
          \/ Act(o, q) \in of("shrink", {p \in Stay : staging[p].region.length < system[p].region.length})
          \/ Act(o, q) \in of("grow", {p \in Stay : staging[p].region.length > system[p].region.length})
          \/ Act(o, q) \in of("rename_in", {p \in Stay \cap Listed(system) : staging[p].number # system[p].number})
      BY <2>2 DEF Actions, Go, Come, Stay
    <3> HIDE DEF of
    <3> QED BY <2>1, <3>1
  <2>3. /\ Pending("delete")' = {p \in Sid : Act("delete", p) \in todo'}
        /\ Pending("create")' = {p \in Sid : Act("create", p) \in todo'}
        /\ Pending("shrink")' = {p \in Sid : Act("shrink", p) \in todo'}
        /\ Pending("grow")' = {p \in Sid : Act("grow", p) \in todo'}
        /\ Pending("rename_in")' = {p \in Sid : Act("rename_in", p) \in todo'}
        /\ Pending("unmount")' = {p \in Sid : Act("unmount", p) \in todo'}
        /\ Pending("add_fstab")' = {p \in Sid : Act("add_fstab", p) \in todo'}
        /\ Pending("remove_fstab")' = {p \in Sid : Act("remove_fstab", p) \in todo'}
    BY DEF Pending, Act
  <2>4. /\ Pending("delete")' = Go /\ Pending("create")' = Come /\ Pending("add_fstab")' = Come \cap Listed(staging)
        /\ Pending("remove_fstab")' = Go \cap Listed(system)
        /\ Pending("unmount")' = Active(system) \ Active(staging)
    BY <1>1, <1>5, <1>6, <2>2, <2>3
  <2>5. /\ Pending("shrink")' = {p \in Stay : staging[p].region.length < system[p].region.length}
        /\ Pending("grow")' = {p \in Stay : staging[p].region.length > system[p].region.length}
        /\ Pending("rename_in")' = {p \in Stay \cap Listed(system) : staging[p].number # system[p].number}
    BY <1>1, <1>5, <1>7, <2>2, <2>3
  <2> QED BY <2>4, <2>5
<1>9. Gone' = {} /\ Made' = {} /\ Renamed' = {} /\ Added' = {}
  BY <1>1, <1>4, <1>8 DEF Gone, Made, Renamed, Added
<1>10. Pending("shrink")' \cup Pending("grow")' \cup {p \in Stay : staging[p].region = system[p].region} = Stay
  <2>1. ASSUME NEW p \in Stay, staging[p].region.length = system[p].region.length
        PROVE  staging[p].region = system[p].region
    <3>1. /\ staging[p].region \in RegionType /\ system[p].region \in RegionType
          /\ staging[p].region.start = system[p].region.start
      BY <1>2, <1>5 DEF Partition, RegionType, Edited, Stay
    <3> QED BY <2>1, <3>1 DEF RegionType
  <2>2. \A p \in Stay : staging[p].region.length \in Int /\ system[p].region.length \in Int
    BY <1>5 DEF Partition
  <2> QED BY <1>8, <2>1, <2>2
<1>11. DiskAhead'
  <2>1. /\ DOMAIN disk = DOMAIN system
        /\ \A p \in DOMAIN disk : /\ disk[p].type = system[p].type /\ disk[p].number = system[p].number
                                  /\ disk[p].region = system[p].region
    BY <1>2 DEF OnDisk
  <2>2. disk = OnDisk(disk)
    BY <1>2 DEF OnDisk
  <2>3. Follows(system, disk)
    <3>1. Naturals0(system)
      BY <1>2, SoundNaturals DEF Edited
    <3> QED BY <2>1, <3>1, FollowsItself
  <2>4. DOMAIN disk = Stay \cup Go
    BY <2>1 DEF Stay, Go
  <2>5. \A q \in Stay : disk[q].region = IF q \in Pending("shrink")' \cup Pending("grow")'
                                         THEN system[q].region ELSE staging[q].region
    BY <1>10, <2>1, <2>4
  <2>6. \A q \in Go : disk[q].region = system[q].region
    BY <2>1, <2>4
  <2> QED BY <1>1, <1>4, <1>8, <1>9, <2>2, <2>3, <2>4, <2>5, <2>6 DEF DiskAhead
<1>12. SwapsAhead'
  <2>1. Active(system) = (Active(system) \ Active(staging)) \cup Active(staging)
    BY <1>2 DEF Edited
  <2>2. \A p \in Active(system) : p \in DOMAIN disk /\ disk[p].number = system[p].number
    BY <1>2 DEF OnDisk, Active
  <2> QED BY <1>1, <1>2, <1>4, <1>8, <2>1, <2>2 DEF SwapsAhead
<1>13. FstabAhead'
  <2>1. /\ fstab = [q \in DOMAIN fstab |-> fstab[q]] /\ DOMAIN fstab = Listed(system)
        /\ \A q \in DOMAIN fstab : fstab[q] = system[q].number
    BY <1>2 DEF Entries
  <2>2. Listed(system) = (Stay \cap Listed(system)) \cup (Go \cap Listed(system))
    BY DEF Listed, Stay, Go
  <2>3. \A q \in DOMAIN fstab :
          fstab[q] = IF q \in Pending("remove_fstab")' \cup Pending("rename_in")' THEN system[q].number
                                                                                  ELSE staging[q].number
    BY <1>8, <2>1, <2>2
  <2>4. Pending("remove_fstab")' \subseteq Pending("delete")'
    BY <1>8
  <2> QED BY <1>1, <1>4, <1>8, <1>9, <2>1, <2>2, <2>3, <2>4 DEF FstabAhead
<1> QED BY <1>1, <1>3, <1>11, <1>12, <1>13 DEF JInv

\* What is on disk has types, numbers and regions in every state of a commit.
LEMMA DiskTyped ==
  ASSUME IInv, JInv
  PROVE  /\ disk = OnDisk(disk) /\ DOMAIN disk \subseteq Sid
         /\ \A p \in DOMAIN disk : /\ disk[p].type \in {"PRIMARY", "EXTENDED", "LOGICAL"}
                                   /\ disk[p].number \in Nat /\ disk[p].region \in RegionType
<1>1. \A p \in DOMAIN disk : disk[p].number \in Nat
  BY DEF IInv, Sound
<1>2. Edited
  BY DEF JInv
<1>3. CASE phase = "edit"
  <2>1. disk = OnDisk(system)
    BY <1>3 DEF JInv
  <2> QED BY <1>1, <1>2, <2>1 DEF OnDisk, Edited, Partition, RegionType
<1>4. CASE phase = "commit"
  <2>1. DiskAhead /\ todo \subseteq Actions(system, staging)
    BY <1>4 DEF JInv
  <2>2. Pending("delete") \subseteq Go
    BY <1>2, <2>1, PendingSorts
  <2>3. ASSUME NEW p \in DOMAIN disk
        PROVE  /\ p \in Sid /\ disk[p].type \in {"PRIMARY", "EXTENDED", "LOGICAL"}
               /\ disk[p].region \in RegionType
    <3>1. CASE p \in Made
      <4>1. staging[p] \in Partition /\ p \in Sid
        BY <1>2, <3>1 DEF Made, Come, Edited
      <4> QED BY <2>1, <3>1, <4>1 DEF DiskAhead, Partition, RegionType
    <3>2. CASE p \notin Made
      <4>1. p \in Stay \/ p \in Pending("delete")
        BY <2>1, <3>2 DEF DiskAhead
      <4>2. p \in DOMAIN system /\ p \in Sid /\ system[p] \in Partition /\ disk[p].type = system[p].type
        BY <1>2, <2>1, <2>2, <4>1 DEF Stay, Go, Edited, DiskAhead, Follows
      <4>3. p \in Stay => staging[p] \in Partition
        BY <1>2 DEF Stay, Edited
      <4>4. disk[p].region = system[p].region \/ (p \in Stay /\ disk[p].region = staging[p].region)
        BY <2>1, <4>1 DEF DiskAhead
      <4> QED BY <4>2, <4>3, <4>4 DEF Partition, RegionType
    <3> QED BY <3>1, <3>2
  <2> QED BY <1>1, <2>1, <2>3 DEF DiskAhead
<1> QED BY <1>3, <1>4 DEF JInv

\* Probing finds the partitions on disk, whatever part of a commit was done.
LEMMA ProbeStep ==
  ASSUME IInv, JInv, Probe
  PROVE  JInv'
<1> DEFINE named == {p \in DOMAIN disk : \E q \in DOMAIN fstab : fstab[q] = disk[p].number}
           found == [p \in DOMAIN disk |->
                       [type |-> disk[p].type, number |-> disk[p].number, region |-> disk[p].region,
                        listed |-> p \in named, active |-> p \in swapped]]
<1>1. /\ phase = "commit" /\ phase' = "edit" /\ system' = found /\ staging' = found
      /\ fstab' = Entries(found) /\ disk' = disk /\ swapped' = swapped /\ pt' = pt
  BY DEF Probe
<1>2. /\ DOMAIN found = DOMAIN disk
      /\ \A p \in DOMAIN disk : found[p] = [type |-> disk[p].type, number |-> disk[p].number, region |-> disk[p].region,
                                            listed |-> p \in named, active |-> p \in swapped]
  OBVIOUS
<1> HIDE DEF found, named
<1>3. /\ disk = OnDisk(disk) /\ DOMAIN disk \subseteq Sid
      /\ \A p \in DOMAIN disk : /\ disk[p].type \in {"PRIMARY", "EXTENDED", "LOGICAL"}
                                /\ disk[p].number \in Nat /\ disk[p].region \in RegionType
  BY DiskTyped
<1>4. ASSUME NEW p \in DOMAIN disk
      PROVE  /\ found[p].type = disk[p].type /\ found[p].number = disk[p].number
             /\ found[p].region = disk[p].region /\ (found[p].active <=> p \in swapped)
             /\ {"type", "number"} \subseteq DOMAIN found[p] /\ found[p] \in Partition
  <2>1. PICK x \in BOOLEAN : x <=> p \in named
    <3>1. CASE p \in named
      <4>1. TRUE <=> p \in named
        BY <3>1
      <4> QED BY <4>1
    <3>2. CASE ~ p \in named
      <4>1. FALSE <=> p \in named
        BY <3>2
      <4> QED BY <4>1
    <3> QED BY <3>1, <3>2
  <2>2. PICK y \in BOOLEAN : y <=> p \in swapped
    <3>1. CASE p \in swapped
      <4>1. TRUE <=> p \in swapped
        BY <3>1
      <4> QED BY <4>1
    <3>2. CASE ~ p \in swapped
      <4>1. FALSE <=> p \in swapped
        BY <3>2
      <4> QED BY <4>1
    <3> QED BY <3>1, <3>2
  <2>3. found[p] = [type |-> disk[p].type, number |-> disk[p].number, region |-> disk[p].region,
                    listed |-> x, active |-> y]
    BY <1>2, <2>1, <2>2
  <2>4. found[p].active = y
    BY <2>3
  <2>5. disk[p].type \in {"PRIMARY", "EXTENDED", "LOGICAL"} /\ disk[p].number \in Nat /\ disk[p].region \in RegionType
    BY <1>3
  <2>6. found[p] \in Partition
    BY <2>3, <2>5 DEF Partition, RegionType
  <2>7. /\ found[p].type = disk[p].type /\ found[p].number = disk[p].number /\ found[p].region = disk[p].region
        /\ {"type", "number"} \subseteq DOMAIN found[p]
    BY <2>3
  <2> QED BY <2>2, <2>4, <2>6, <2>7
<1>5. \A p \in DOMAIN found : found[p] \in Partition
  BY <1>2, <1>4
<1>6. Sound(pt, found)
  BY <1>2, <1>4, SameNumbers DEF IInv
<1>7. Edited'
  <2>1. Follows(found, found) /\ OfType(found, "EXTENDED") \subseteq DOMAIN found
        /\ OfType(found, "LOGICAL") \ DOMAIN found = {}
    BY <1>6, EditedAnew
  <2>2. /\ OfType(system, "EXTENDED")' = OfType(found, "EXTENDED")
        /\ OfType(system, "LOGICAL")' = OfType(found, "LOGICAL")
        /\ Follows(system, staging)' = Follows(found, found) /\ Sound(pt, system)' = Sound(pt, found)
        /\ Active(system)' = Active(staging)'
    BY <1>1 DEF OfType, Follows, Sound, NumLogical, MaxPrimary, Active
  <2> QED BY <1>1, <1>2, <1>3, <1>5, <1>6, <2>1, <2>2 DEF Edited
<1>8. disk' = OnDisk(system)'
  BY <1>1, <1>2, <1>3, <1>4 DEF OnDisk
<1>9. swapped' = Active(system)'
  <2>1. \A p \in swapped : p \in DOMAIN disk
    BY <1>1 DEF JInv, SwapsAhead
  <2> QED BY <1>1, <1>2, <1>4, <2>1 DEF Active
<1>10. fstab' = Entries(system)'
  BY <1>1 DEF Entries, Listed
<1> QED BY <1>1, <1>7, <1>8, <1>9, <1>10 DEF JInv

\* Every step keeps the invariant.
LEMMA StepJInv == IInv /\ JInv /\ [Next]_vars => JInv'
<1>1. ASSUME JInv, UNCHANGED vars PROVE JInv'
  <2>1. UNCHANGED <<pt, disk, swapped, fstab, system, staging, phase, todo>>
    BY <1>1 DEF vars
  <2>2. /\ Edited' = Edited /\ Actions(system, staging)' = Actions(system, staging)
        /\ OnDisk(system)' = OnDisk(system) /\ Active(system)' = Active(system) /\ Entries(system)' = Entries(system)
    BY <2>1 DEF Edited, Active, Listed, OfType, Follows, Actions, OnDisk, Entries
  <2>3. DiskAhead' = DiskAhead /\ SwapsAhead' = SwapsAhead /\ FstabAhead' = FstabAhead
    BY <2>1 DEF DiskAhead, SwapsAhead, FstabAhead, Pending, Act, Stay, Go, Come, Gone, Made, Renamed, Added,
                OnDisk, Follows, OfType, Active, Listed
  <2> QED BY <1>1, <2>1, <2>2, <2>3 DEF JInv
<1> QED BY <1>1, EditStep, ActiongraphStep, DeleteStep, ResizeStep, CreateStep, RenameStep, AddFstabStep,
           RemoveFstabStep, UnmountStep, ProbeStep DEF Next

\* The inductive invariant.
LEMMA Ahead == Spec => [](IInv /\ JInv)
BY InitIInv, StepIInv, InitJInv, StepJInv, PTL DEF Spec

\* A commit without an error ends with the partitions, numbers and entries of staging,
\* whatever was deleted, created, renumbered, resized and unmounted by it.
THEOREM CommitEndsAsStaging == Spec => []EndsAsStaging
<1>1. ASSUME IInv, JInv, phase = "commit", todo = {}
      PROVE  disk = OnDisk(staging) /\ swapped = Active(staging) /\ fstab = Entries(staging)
  <2>1. Edited /\ DiskAhead /\ SwapsAhead /\ FstabAhead
    BY <1>1 DEF JInv
  <2>2. \A op : Pending(op) = {}
    BY <1>1 DEF Pending
  <2>3. DOMAIN disk = DOMAIN staging
    BY <2>1, <2>2 DEF DiskAhead, Stay, Made, Come
  <2>4. \A p \in DOMAIN disk : /\ disk[p].type = staging[p].type /\ disk[p].number = staging[p].number
                               /\ disk[p].region = staging[p].region
    <3>1. ASSUME NEW p \in DOMAIN disk PROVE disk[p].type = staging[p].type /\ disk[p].number = staging[p].number
      BY <1>1, <2>1, <2>2, StagingNumber
    <3>2. ASSUME NEW p \in DOMAIN disk PROVE disk[p].region = staging[p].region
      <4>1. p \in Stay \/ p \in Made
        BY <2>1, <2>2 DEF DiskAhead
      <4> QED BY <2>1, <2>2, <4>1 DEF DiskAhead
    <3> QED BY <3>1, <3>2
  <2>5. disk = OnDisk(staging)
    BY <2>1, <2>3, <2>4 DEF DiskAhead, OnDisk
  <2>6. swapped = Active(staging)
    BY <2>1, <2>2 DEF SwapsAhead
  <2>7. fstab = Entries(staging)
    <3>1. /\ DOMAIN fstab = (Stay \cap Listed(system)) \cup (Come \cap Listed(staging))
          /\ \A q \in DOMAIN fstab : fstab[q] = staging[q].number
          /\ fstab = [q \in DOMAIN fstab |-> fstab[q]]
      BY <2>1, <2>2 DEF FstabAhead, Added
    <3>2. (Stay \cap Listed(system)) \cup (Come \cap Listed(staging)) = Listed(staging)
      BY <2>1 DEF Edited, Stay, Come, Listed
    <3> QED BY <3>1, <3>2 DEF Entries
  <2> QED BY <2>5, <2>6, <2>7
<1>2. IInv /\ JInv => EndsAsStaging
  BY <1>1 DEF EndsAsStaging
<1> QED BY <1>2, Ahead, PTL

\* No deletion takes a swap or moves its number, in any commit that deactivates only
\* swaps that it deletes.
THEOREM ActiveKeepsNumber == Spec => []ActiveKeepNumber
<1>1. ASSUME IInv, JInv, phase = "commit", \A a \in todo : a.op = "unmount" => a.sid \notin DOMAIN staging,
             NEW a \in Ready, a.op = "delete"
      PROVE  DeletionOK(a.sid)
  <2> DEFINE p == a.sid
  <2>1. Edited /\ todo \subseteq Actions(system, staging) /\ DiskAhead /\ SwapsAhead
    BY <1>1 DEF JInv
  <2>2. /\ p \in Pending("delete") /\ p \in Go
        /\ \A e \in Pending("delete") : ~ system[e].number > system[p].number
        /\ p \notin Pending("unmount")
    BY <1>1, <2>1, ReadyOrder, PendingSorts
  <2>3. Removed(disk, p) = {p}
    BY <1>1, <2>1, RemovedAlone
  <2>4. p \in DOMAIN disk /\ disk[p].number = system[p].number
    <3>1. p \in DOMAIN disk /\ Named(a) = {p}
      BY <1>1, NamedRight
    <3>2. Named(a) = {q \in DOMAIN disk : disk[q].number = system[p].number}
      BY <1>1 DEF Named, Numbered
    <3> QED BY <3>1, <3>2
  <2>5. p \notin swapped
    BY <2>1, <2>2 DEF SwapsAhead, Active, Go
  <2>6. ASSUME disk[p].type = "LOGICAL", NEW r \in swapped PROVE disk[r].number < disk[p].number
    <3>1. r \in DOMAIN disk /\ disk[r].number = system[r].number
      BY <2>1 DEF SwapsAhead
    <3>2. system[p].type = "LOGICAL" /\ p \in DOMAIN system /\ p \notin DOMAIN staging
      BY <2>1, <2>2, <2>4, <2>6 DEF DiskAhead, Follows, Go
    <3>3. CASE r \in Active(staging)
      BY <2>1, <2>4, <3>1, <3>2, <3>3 DEF Edited, OfType
    <3>4. CASE r \in Pending("unmount")
      <4>1. r \notin DOMAIN staging /\ r \in Active(system)
        <5>1. Act("unmount", r) \in todo /\ r \in Active(system)
          BY <2>1, <3>4, PendingSorts
        <5>2. Act("unmount", r).op = "unmount" /\ Act("unmount", r).sid = r
          BY DEF Act
        <5> QED BY <1>1, <5>1, <5>2
      <4>2. r \in Pending("delete") /\ r \in DOMAIN system
        BY <2>1, <3>4, <4>1 DEF SwapsAhead, Go, Active
      <4>3. /\ ~ system[r].number > system[p].number
            /\ system[r].number \in Nat /\ system[p].number \in Nat /\ system[r].number # system[p].number
        BY <2>1, <2>2, <2>5, <2>6, <3>2, <4>2 DEF Edited, Sound
      <4> QED BY <2>4, <3>1, <4>3
    <3> QED BY <2>1, <3>3, <3>4 DEF SwapsAhead
  <2> QED BY <2>3, <2>5, <2>6 DEF DeletionOK
<1>2. IInv /\ JInv => ActiveKeepNumber
  BY <1>1 DEF ActiveKeepNumber
<1> QED BY <1>2, Ahead, PTL

\* The records of the device graphs, the disk and fstab keep their shape, and clients
\* make no more than MaxEdits calls.
THEOREM TypeCorrect == Spec => []TypeOK
<1> DEFINE Few == edits \in 0 .. MaxEdits
<1>1. Init => Few
  BY ClientAssumption DEF Init
<1>2. Few /\ [Next]_vars => Few'
  <2>1. \A t : Edit(t) => edits' = edits + 1 /\ edits < MaxEdits
    BY DEF Edit
  <2>2. \A a, t, w, f : Commit(a, t, w, f) => edits' = edits
    BY DEF Commit
  <2>3. Create \/ Delete \/ Resize \/ Deactivate => edits' = edits + 1 /\ edits < MaxEdits
    BY <2>1 DEF Create, Delete, Resize, Deactivate
  <2>4. ASSUME NEW a,
               \/ CommitDelete(a) \/ CommitResize(a) \/ CommitCreate(a) \/ CommitRename(a)
               \/ CommitAddFstab(a) \/ CommitRemoveFstab(a) \/ CommitUnmount(a)
        PROVE  edits' = edits
    BY <2>2, <2>4 DEF CommitDelete, CommitResize, CommitCreate, CommitRename, CommitAddFstab,
                      CommitRemoveFstab, CommitUnmount
  <2>5. [Next]_vars => edits' = edits \/ (edits' = edits + 1 /\ edits < MaxEdits)
    BY <2>3, <2>4 DEF Next, vars, CalculateActiongraph, Probe
  <2> QED BY <2>5, ClientAssumption
<1>3. IInv /\ JInv /\ Few => TypeOK
  <2> SUFFICES ASSUME IInv, JInv, Few PROVE TypeOK
    OBVIOUS
  <2>1. Edited /\ phase \in {"edit", "commit"} /\ pt \in {"MSDOS", "GPT"}
    BY DEF JInv, IInv
  <2>2. DOMAIN disk \subseteq Sid
    BY DiskTyped
  <2>3. swapped \subseteq Sid /\ DOMAIN fstab \subseteq Sid
    <3>1. CASE phase = "edit"
      BY <2>1, <3>1 DEF JInv, Edited, Active, Entries, Listed
    <3>2. CASE phase = "commit"
      <4>1. SwapsAhead /\ FstabAhead
        BY <3>2 DEF JInv
      <4> QED BY <2>1, <4>1 DEF SwapsAhead, FstabAhead, Pending, Active, Stay, Added, Come, Edited
    <3> QED BY <2>1, <3>1, <3>2
  <2> QED BY <2>1, <2>2, <2>3 DEF TypeOK, Edited
<1> HIDE DEF Few
<1>4. Spec => []Few
  BY <1>1, <1>2, PTL DEF Spec
<1> QED BY <1>3, <1>4, Ahead, PTL

-----------------------------------------------------------------------------
(* Free space                                                              *)

\* Remainders are less than what is divided by.
LEMMA Remainder == ASSUME NEW n \in Nat \ {0}
                   PROVE  /\ \A x \in Int : x % n \in 0 .. n - 1
                          /\ \A x \in 0 .. n - 1 : x % n = x
<1>1. ASSUME NEW x \in Int PROVE x % n \in 0 .. n - 1
  OBVIOUS
<1>2. ASSUME NEW x \in 0 .. n - 1 PROVE x % n = x
  OBVIOUS
<1> QED BY <1>1, <1>2

\* The least multiple that is not less.
LEMMA UpToMultiple ==
  ASSUME NEW n \in Nat \ {0}, NEW a \in Int, NEW b \in Int, a <= b, b % n = 0, a % n # 0
  PROVE  a + n - (a % n) <= b
<1>1. ASSUME NEW x \in Int PROVE x = n * (x \div n) + (x % n) /\ x \div n \in Int
  OBVIOUS
<1>2. ASSUME NEW x \in Int, NEW y \in Int, x >= y PROVE n * x >= n * y
  BY <1>2
<1>3. a % n \in 0 .. n - 1
  BY Remainder
<1> DEFINE p == a \div n
           q == b \div n
<1>4. a = n * p + (a % n) /\ p \in Int /\ b = n * q /\ q \in Int
  BY <1>1
<1> HIDE DEF p, q
<1>5. q >= p + 1
  <2>1. SUFFICES ASSUME p >= q PROVE FALSE
    BY <1>4
  <2>2. n * p >= n * q
    BY <1>2, <1>4, <2>1
  <2> QED BY <1>3, <1>4, <2>2
<1>6. n * q >= n * (p + 1) /\ n * (p + 1) = n * p + n
  BY <1>2, <1>4, <1>5
<1> QED BY <1>3, <1>4, <1>6

\* As long as block numbers do not overflow, nothing wraps.
LEMMA AlignValue ==
  ASSUME NEW b \in Int, Offset <= b, b <= DiskLength
  PROVE  LET rest == (b - Offset) % Grain
         IN  rest \in 0 .. Grain - 1 /\ AlignStart(b) = IF rest = 0 THEN b ELSE b + Grain - rest
<1> DEFINE rest == (b - Offset) % Grain
<1>1. /\ Offset \in Nat /\ Grain \in Nat \ {0} /\ Word \in Nat \ {0} /\ DiskLength \in Nat
      /\ DiskLength + Grain <= Word
  BY GeometryAssumption, AlignmentAssumption
<1>2. (b - Offset) % Word = b - Offset
  <2>1. b - Offset \in 0 .. Word - 1
    BY <1>1
  <2> QED BY <1>1, <2>1, Remainder
<1>3. rest \in 0 .. Grain - 1
  <2>1. b - Offset \in Int
    BY <1>1
  <2> QED BY <1>1, <2>1, Remainder
<1> HIDE DEF rest
<1>4. CASE rest = 0
  BY <1>2, <1>3, <1>4 DEF AlignStart, rest
<1>5. CASE rest # 0
  <2>1. AlignStart(b) = (b - Offset + Grain - rest + Offset) % Word
    BY <1>2, <1>5 DEF AlignStart, rest
  <2>2. b - Offset + Grain - rest + Offset = b + Grain - rest /\ b + Grain - rest \in 0 .. Word - 1
    BY <1>1, <1>3, <1>5
  <2>3. AlignStart(b) = b + Grain - rest
    BY <1>1, <2>1, <2>2, Remainder
  <2> QED BY <1>3, <1>5, <2>3 DEF rest
<1> QED BY <1>4, <1>5

\* A start is aligned upwards.
LEMMA AlignUp ==
  ASSUME NEW b \in Int, Offset <= b, b <= DiskLength
  PROVE  AlignStart(b) \in Int /\ b <= AlignStart(b)
<1>1. Grain \in Nat \ {0}
  BY GeometryAssumption
<1> QED BY <1>1, AlignValue

\* To the next aligned block.
LEMMA AlignLeast ==
  ASSUME NEW b \in Int, Offset <= b, NEW x \in Int, b <= x, x <= DiskLength, AlignStart(x) = x
  PROVE  AlignStart(b) <= x
<1> DEFINE rest(y) == (y - Offset) % Grain
<1>1. Grain \in Nat \ {0} /\ Offset \in Int /\ DiskLength \in Int
  BY GeometryAssumption
<1>2. b <= DiskLength /\ Offset <= x
  BY <1>1
<1>3. /\ rest(b) \in 0 .. Grain - 1 /\ AlignStart(b) = IF rest(b) = 0 THEN b ELSE b + Grain - rest(b)
      /\ rest(x) \in 0 .. Grain - 1 /\ AlignStart(x) = IF rest(x) = 0 THEN x ELSE x + Grain - rest(x)
  BY <1>2, AlignValue
<1>4. rest(x) = 0
  <2> HIDE DEF rest
  <2> QED BY <1>1, <1>3
<1>5. CASE rest(b) = 0
  BY <1>3, <1>5
<1>6. CASE rest(b) # 0
  <2>1. b - Offset \in Int /\ x - Offset \in Int /\ b - Offset <= x - Offset
    BY <1>1
  <2>2. b - Offset + Grain - rest(b) <= x - Offset
    BY <1>1, <1>4, <1>6, <2>1, UpToMultiple
  <2> HIDE DEF rest
  <2> QED BY <1>1, <1>3, <1>6, <2>2
<1> QED BY <1>5, <1>6

\* An end is aligned downwards.
LEMMA AlignDown ==
  ASSUME NEW b \in Int, Offset <= b, b <= DiskLength, NEW e \in AlignEnd(b)
  PROVE  e \in Int /\ e <= b
<1> DEFINE rest == ((b - Offset + 1) % Word) % Grain
<1>1. /\ Offset \in Nat /\ Grain \in Nat \ {0} /\ Word \in Nat \ {0} /\ DiskLength \in Nat
      /\ DiskLength + Grain <= Word
  BY GeometryAssumption, AlignmentAssumption
<1>2. (b - Offset) % Word = b - Offset
  <2>1. b - Offset \in 0 .. Word - 1
    BY <1>1
  <2> QED BY <1>1, <2>1, Remainder
<1>3. rest \in 0 .. Grain - 1
  <2>1. (b - Offset + 1) % Word \in Int
    BY <1>1
  <2> QED BY <1>1, <2>1, Remainder
<1>4. AlignEnd(b) = IF rest > b - Offset THEN {} ELSE {(b - Offset - rest + Offset) % Word}
  BY <1>2 DEF AlignEnd
<1> HIDE DEF rest
<1>5. ~ rest > b - Offset /\ e = (b - Offset - rest + Offset) % Word
  BY <1>4
<1>6. b - Offset - rest + Offset = b - rest /\ b - rest \in 0 .. Word - 1
  BY <1>1, <1>3, <1>5
<1>7. e = b - rest
  BY <1>1, <1>5, <1>6, Remainder
<1> QED BY <1>1, <1>3, <1>7


\* A gap lies in the region, and no region that is used reaches into it.
LEMMA UnusedFree ==
  ASSUME NEW region \in RegionType, NEW used \in SUBSET RegionType, IsFiniteSet(used),
         NEW r \in UnusedRegions(region, used)
  PROVE  /\ r \in RegionType /\ r.length > 0
         /\ region.start <= r.start /\ End(r) <= End(region)
         /\ \A u \in used : End(u) < r.start \/ End(r) < u.start
<1> DEFINE inside == {u \in used : End(u) >= region.start /\ u.start <= End(region)}
           behind(S) == Max({region.start} \cup {End(u) + 1 : u \in S})
           front(u) == {v \in inside : v.start < u.start}
           gaps == {Region(behind(front(u)), u.start - 1) : u \in inside}
           last == Region(behind(inside), End(region))
<1>1. /\ region.start \in Int /\ End(region) \in Int
      /\ \A u \in used : u.start \in Int /\ u.length \in Int /\ End(u) = u.start + u.length - 1
  BY DEF RegionType, End
<1>2. ASSUME NEW S \in SUBSET used
      PROVE  behind(S) \in Int /\ region.start <= behind(S) /\ \A u \in S : End(u) < behind(S)
  <2>1. IsFiniteSet(S) /\ S \in SUBSET RegionType
    BY <1>2, FS_Subset
  <2> QED BY <1>1, <2>1, BehindType
<1>3. r.length > 0 /\ (r \in gaps \/ r = last)
  <2>1. \/ r \in {x \in gaps : x.length > 0} \/ r \in {x \in {last} : x.length > 1}
    BY DEF UnusedRegions
  <2>2. CASE r \in {x \in gaps : x.length > 0}
    BY <2>2
  <2>3. CASE r \in {x \in {last} : x.length > 1}
    <3>1. r = last /\ last \in RegionType /\ r.length > 1
      <4> HIDE DEF behind
      <4> QED BY <1>1, <1>2, <2>3, RegionTyped
    <3> HIDE DEF last
    <3> QED BY <3>1 DEF RegionType
  <2> QED BY <2>1, <2>2, <2>3
<1> HIDE DEF behind
<1>4. CASE r = last
  <2>1. r \in RegionType /\ r.start = behind(inside) /\ End(r) = End(region)
    BY <1>1, <1>2, <1>4, RegionTyped
  <2>2. ASSUME NEW u \in used, ~ End(u) < r.start PROVE End(r) < u.start
    <3>1. region.start <= r.start /\ \A v \in inside : End(v) < r.start
      BY <1>2, <2>1
    <3>2. u \notin inside /\ End(u) >= region.start
      BY <1>1, <2>1, <2>2, <3>1 DEF RegionType
    <3> QED BY <1>1, <2>1, <3>2
  <2> QED BY <1>1, <1>2, <1>3, <2>1, <2>2
<1>5. ASSUME NEW w \in inside, r = Region(behind(front(w)), w.start - 1)
      PROVE  /\ r \in RegionType /\ region.start <= r.start /\ End(r) <= End(region)
             /\ \A u \in used : End(u) < r.start \/ End(r) < u.start
  <2>1. r \in RegionType /\ r.start = behind(front(w)) /\ End(r) = w.start - 1
    BY <1>1, <1>2, <1>5, RegionTyped
  <2>2. ASSUME NEW u \in used, ~ End(u) < r.start PROVE End(r) < u.start
    <3>1. region.start <= r.start /\ \A v \in front(w) : End(v) < r.start
      BY <1>2, <2>1
    <3>2. u \notin front(w) /\ End(u) >= region.start
      BY <1>1, <2>1, <2>2, <3>1 DEF RegionType
    <3> QED BY <1>1, <2>1, <3>2
  <2> QED BY <1>1, <1>2, <2>1, <2>2
<1> QED BY <1>3, <1>4, <1>5

-----------------------------------------------------------------------------
(* Regions that do not overlap                                             *)

\* The regions of a table.
Regioned(t) == \A q \in DOMAIN t : t[q].region \in RegionType

\* The first sector a partition takes, with its EBR.
Low(x) == IF x.type = "LOGICAL" THEN x.region.start - 1 ELSE x.region.start

Apart(x, y) == End(x.region) < Low(y) \/ End(y.region) < Low(x)

First(type) == IF type = "MSDOS" THEN 1 ELSE UnusableFront(type)
Last(type) == DiskLength - UnusableBack(type) - 1

\* Fits by the first and last sectors.
Placed(type, t) ==
  /\ \A p, q \in DOMAIN t : p # q /\ (t[p].type = "LOGICAL" <=> t[q].type = "LOGICAL") => Apart(t[p], t[q])
  /\ \A p, q \in OfType(t, "EXTENDED") : p = q
  /\ \A q \in OfType(t, "LOGICAL") : \E e \in OfType(t, "EXTENDED") :
        t[e].region.start <= Low(t[q]) /\ End(t[q].region) <= End(t[e].region)
  /\ \A q \in DOMAIN t : /\ t[q].region.length > 0
                         /\ First(type) <= t[q].region.start /\ End(t[q].region) <= Last(type)

\* The sectors that tables take.
LEMMA UsableType ==
  ASSUME NEW type
  PROVE  /\ UnusableBack(type) \in Nat
         /\ UnusableFront(type) \in Nat \ {0} /\ First(type) \in Nat \ {0} /\ First(type) <= UnusableFront(type)
         /\ Last(type) \in Int /\ Last(type) < DiskLength
         /\ UsableRegion(type) \in RegionType
         /\ UsableRegion(type).start = UnusableFront(type) /\ End(UsableRegion(type)) = Last(type)
<1>1. /\ DiskLength \in Nat /\ MaxSectors \in Nat /\ MbrGap \in Nat /\ GptEntries \in Nat
  BY GeometryAssumption
<1>2. Max({1, MbrGap}) \in Nat \ {0}
  <2> DEFINE S == {1, MbrGap}
  <2>1. S \in SUBSET Int /\ IsFiniteSet(S) /\ S # {}
    <3>1. {1} \cup {MbrGap} = S /\ {} \cup {1} = {1}
      OBVIOUS
    <3>2. IsFiniteSet({1})
      BY <3>1, FS_EmptySet, FS_AddElement
    <3> QED BY <1>1, <3>1, <3>2, FS_AddElement
  <2>2. Max(S) \in S /\ \A y \in S : y <= Max(S)
    <3> HIDE DEF S
    <3> QED BY <2>1, GreatestInt
  <2> QED BY <1>1, <2>2
<1>3. Max({0, DiskLength - MaxSectors}) \in Nat
  <2> DEFINE d == DiskLength - MaxSectors
             S == {0, d}
  <2>1. S \in SUBSET Int /\ IsFiniteSet(S) /\ S # {}
    <3>1. {0} \cup {d} = S /\ {} \cup {0} = {0}
      OBVIOUS
    <3>2. IsFiniteSet({0}) /\ d \in Int
      BY <1>1, <3>1, FS_EmptySet, FS_AddElement
    <3> HIDE DEF d
    <3> QED BY <1>1, <3>1, <3>2, FS_AddElement
  <2>2. Max(S) \in S /\ \A y \in S : y <= Max(S)
    <3> HIDE DEF S
    <3> QED BY <2>1, GreatestInt
  <2> QED BY <1>1, <2>2
<1>4. UnusableFront(type) \in Nat \ {0} /\ UnusableBack(type) \in Nat
  BY <1>1, <1>2, <1>3 DEF UnusableFront, UnusableBack
<1> QED BY <1>1, <1>4, RegionTyped DEF UsableRegion, First, Last

\* What parted accepts are regions that do not overlap.
LEMMA FitsPlaced ==
  ASSUME NEW type, NEW t, Regioned(t)
  PROVE  Fits(type, t) <=> Placed(type, t)
<1> DEFINE room(q) == Sectors(t[q].region) \cup IF q \in OfType(t, "LOGICAL") THEN {t[q].region.start - 1} ELSE {}
<1>1. \A q \in DOMAIN t : /\ t[q].region.start \in Int /\ t[q].region.length \in Int
                          /\ End(t[q].region) = t[q].region.start + t[q].region.length - 1
                          /\ Low(t[q]) \in Int /\ Low(t[q]) <= t[q].region.start
  BY DEF Regioned, RegionType, End, Low
<1>2. ASSUME NEW q \in DOMAIN t, t[q].region.length > 0
      PROVE  room(q) = Low(t[q]) .. End(t[q].region)
  BY <1>1, <1>2 DEF Sectors, Low, OfType
<1> DEFINE Positive == \A q \in DOMAIN t : /\ t[q].region.length > 0
                                           /\ Sectors(t[q].region) \subseteq First(type) .. End(UsableRegion(type))
<1>3. Positive <=> \A q \in DOMAIN t : /\ t[q].region.length > 0
                                       /\ First(type) <= t[q].region.start /\ End(t[q].region) <= Last(type)
  <2>1. ASSUME NEW q \in DOMAIN t, t[q].region.length > 0
        PROVE  Sectors(t[q].region) \subseteq First(type) .. Last(type)
                 <=> First(type) <= t[q].region.start /\ End(t[q].region) <= Last(type)
    <3> DEFINE a == t[q].region.start
               b == End(t[q].region)
    <3>1. a \in Int /\ b \in Int /\ a <= b /\ First(type) \in Int /\ Last(type) \in Int
      BY <1>1, <2>1, UsableType
    <3>2. a \in a .. b /\ b \in a .. b
      BY <3>1
    <3> HIDE DEF a, b
    <3>3. a .. b \subseteq First(type) .. Last(type) <=> First(type) <= a /\ b <= Last(type)
      BY <3>1, <3>2
    <3> QED BY <3>3 DEF a, b, Sectors
  <2> QED BY <2>1, UsableType
<1>4. ASSUME NEW p \in DOMAIN t, NEW q \in DOMAIN t, t[p].region.length > 0, t[q].region.length > 0
      PROVE  room(p) \cap room(q) = {} <=> Apart(t[p], t[q])
  <2> DEFINE a == Low(t[p])
             b == End(t[p].region)
             c == Low(t[q])
             d == End(t[q].region)
  <2>1. a \in Int /\ b \in Int /\ c \in Int /\ d \in Int /\ a <= b /\ c <= d
    BY <1>1, <1>4
  <2>2. room(p) = a .. b /\ room(q) = c .. d
    BY <1>2, <1>4
  <2> HIDE DEF a, b, c, d, room
  <2>3. (a .. b) \cap (c .. d) = {} <=> b < c \/ d < a
    <3>1. CASE b < c \/ d < a
      BY <2>1, <3>1
    <3>2. CASE ~ (b < c \/ d < a)
      <4>1. IF a <= c THEN c \in (a .. b) \cap (c .. d) ELSE a \in (a .. b) \cap (c .. d)
        BY <2>1, <3>2
      <4> QED BY <3>2, <4>1
    <3> QED BY <3>1, <3>2
  <2> QED BY <2>2, <2>3 DEF Apart, a, b, c, d
<1>5. ASSUME NEW q \in OfType(t, "LOGICAL"), t[q].region.length > 0, NEW e \in OfType(t, "EXTENDED")
      PROVE  room(q) \subseteq Sectors(t[e].region)
               <=> t[e].region.start <= Low(t[q]) /\ End(t[q].region) <= End(t[e].region)
  <2> DEFINE a == Low(t[q])
             b == End(t[q].region)
             c == t[e].region.start
             d == End(t[e].region)
  <2>1. q \in DOMAIN t /\ e \in DOMAIN t
    BY DEF OfType
  <2>2. a \in Int /\ b \in Int /\ c \in Int /\ d \in Int /\ a <= b
    BY <1>1, <1>5, <2>1
  <2>3. room(q) = a .. b
    BY <1>2, <1>5, <2>1
  <2> HIDE DEF a, b, c, d, room
  <2>4. a \in a .. b /\ b \in a .. b
    BY <2>2
  <2>5. a .. b \subseteq c .. d <=> c <= a /\ b <= d
    BY <2>2, <2>4
  <2> QED BY <2>3, <2>5 DEF Sectors, a, b, c, d
<1> DEFINE L == OfType(t, "LOGICAL")
           Disjoint == /\ \A p, q \in DOMAIN t \ L : p # q => room(p) \cap room(q) = {}
                       /\ \A p, q \in L : p # q => room(p) \cap room(q) = {}
           One == \A p, q \in OfType(t, "EXTENDED") : p = q
           Within == \A q \in L : HasExtended(t) /\ room(q) \subseteq Sectors(t[Extended(t)].region)
<1>6. Fits(type, t) <=> Disjoint /\ One /\ Within /\ Positive
  BY DEF Fits, First
<1>7. Positive => (Disjoint <=> \A p, q \in DOMAIN t :
                     p # q /\ (t[p].type = "LOGICAL" <=> t[q].type = "LOGICAL") => Apart(t[p], t[q]))
  <2>1. \A p \in DOMAIN t : p \in L <=> t[p].type = "LOGICAL"
    BY DEF OfType
  <2>2. L \subseteq DOMAIN t
    BY DEF OfType
  <2> HIDE DEF room, L
  <2> QED BY <1>4, <2>1, <2>2
<1>8. Positive /\ One => (Within <=> \A q \in L : \E e \in OfType(t, "EXTENDED") :
                            t[e].region.start <= Low(t[q]) /\ End(t[q].region) <= End(t[e].region))
  <2>1. HasExtended(t) <=> \E e \in OfType(t, "EXTENDED") : TRUE
    BY DEF HasExtended
  <2>2. HasExtended(t) => Extended(t) \in OfType(t, "EXTENDED")
    BY DEF HasExtended, Extended
  <2>3. L \subseteq DOMAIN t
    BY DEF OfType
  <2> HIDE DEF room, L
  <2> QED BY <1>5, <2>1, <2>2, <2>3 DEF L
<1> HIDE DEF Disjoint, One, Within, Positive
<1> QED BY <1>3, <1>6, <1>7, <1>8 DEF Placed, One, L

\* Nothing overlaps if partitions go and those that stay end earlier, as long as what is
\* logical stays in its extended partition.
LEMMA PrefixPlaced ==
  ASSUME NEW type, NEW t, NEW u, Regioned(t), Regioned(u), Placed(type, t), DOMAIN u \subseteq DOMAIN t,
         \A q \in DOMAIN u : /\ u[q].type = t[q].type /\ u[q].region.start = t[q].region.start
                             /\ u[q].region.length > 0 /\ u[q].region.length <= t[q].region.length,
         OfType(u, "LOGICAL") # {} =>
           \A e \in OfType(t, "EXTENDED") : e \in DOMAIN u /\ u[e].region = t[e].region
  PROVE  Placed(type, u)
<1>1. ASSUME NEW q \in DOMAIN u
      PROVE  /\ q \in DOMAIN t /\ Low(u[q]) = Low(t[q]) /\ Low(t[q]) \in Int
             /\ End(u[q].region) \in Int /\ End(t[q].region) \in Int /\ End(u[q].region) <= End(t[q].region)
  BY DEF Regioned, RegionType, Low, End
<1>2. ASSUME NEW p \in DOMAIN u, NEW q \in DOMAIN u, p # q, u[p].type = "LOGICAL" <=> u[q].type = "LOGICAL"
      PROVE  Apart(u[p], u[q])
  <2>1. Apart(t[p], t[q])
    BY <1>1, <1>2 DEF Placed
  <2> QED BY <1>1, <2>1 DEF Apart
<1>3. \A p, q \in OfType(u, "EXTENDED") : p = q
  BY DEF Placed, OfType
<1>4. ASSUME NEW q \in OfType(u, "LOGICAL")
      PROVE  \E e \in OfType(u, "EXTENDED") :
               u[e].region.start <= Low(u[q]) /\ End(u[q].region) <= End(u[e].region)
  <2>1. q \in DOMAIN u /\ q \in OfType(t, "LOGICAL")
    BY DEF OfType
  <2>2. PICK e \in OfType(t, "EXTENDED") :
          t[e].region.start <= Low(t[q]) /\ End(t[q].region) <= End(t[e].region)
    BY <2>1 DEF Placed
  <2>3. e \in DOMAIN u /\ u[e].region = t[e].region /\ e \in DOMAIN t /\ e \in OfType(u, "EXTENDED")
    BY <1>4, <2>2 DEF OfType
  <2>4. End(t[e].region) \in Int /\ u[e].region.start <= Low(u[q])
    BY <1>1, <2>1, <2>2, <2>3
  <2>5. End(u[q].region) <= End(u[e].region)
    BY <1>1, <2>1, <2>2, <2>3, <2>4
  <2> QED BY <2>3, <2>4, <2>5
<1>5. ASSUME NEW q \in DOMAIN u
      PROVE  /\ u[q].region.length > 0
             /\ First(type) <= u[q].region.start /\ End(u[q].region) <= Last(type)
  <2>1. First(type) <= t[q].region.start /\ End(t[q].region) <= Last(type) /\ Last(type) \in Int
    BY <1>1, UsableType DEF Placed
  <2> QED BY <1>1, <2>1
<1> QED BY <1>2, <1>3, <1>4, <1>5 DEF Placed

\* Nothing overlaps if a partition comes to where it is apart from the others.
LEMMA MorePlaced ==
  ASSUME NEW type, NEW t, NEW u, Regioned(t), Regioned(u), Placed(type, t), NEW p, p \notin DOMAIN t,
         DOMAIN u = DOMAIN t \cup {p},
         \A q \in DOMAIN t : u[q].type = t[q].type /\ u[q].region = t[q].region,
         u[p].region.length > 0, First(type) <= u[p].region.start, End(u[p].region) <= Last(type),
         u[p].type = "EXTENDED" => OfType(t, "EXTENDED") = {},
         u[p].type = "LOGICAL" => \E e \in OfType(t, "EXTENDED") :
           t[e].region.start <= Low(u[p]) /\ End(u[p].region) <= End(t[e].region),
         \A q \in DOMAIN t : (u[p].type = "LOGICAL" <=> t[q].type = "LOGICAL") => Apart(u[p], t[q])
  PROVE  Placed(type, u)
<1>1. \A q \in DOMAIN t : Low(u[q]) = Low(t[q]) /\ End(u[q].region) = End(t[q].region)
  BY DEF Low
<1>2. ASSUME NEW q \in DOMAIN u, NEW r \in DOMAIN u, q # r, u[q].type = "LOGICAL" <=> u[r].type = "LOGICAL"
      PROVE  Apart(u[q], u[r])
  <2>1. CASE q = p
    <3>1. Apart(u[p], t[r])
      BY <1>2, <2>1
    <3> QED BY <1>1, <1>2, <2>1, <3>1 DEF Apart
  <2>2. CASE r = p
    <3>1. Apart(u[p], t[q])
      BY <1>2, <2>2
    <3> QED BY <1>1, <1>2, <2>2, <3>1 DEF Apart
  <2>3. CASE q # p /\ r # p
    <3>1. Apart(t[q], t[r])
      BY <1>2, <2>3 DEF Placed
    <3> QED BY <1>1, <1>2, <2>3, <3>1 DEF Apart
  <2> QED BY <2>1, <2>2, <2>3
<1>3. \A q, r \in OfType(u, "EXTENDED") : q = r
  BY DEF Placed, OfType
<1>4. ASSUME NEW q \in OfType(u, "LOGICAL")
      PROVE  \E e \in OfType(u, "EXTENDED") :
               u[e].region.start <= Low(u[q]) /\ End(u[q].region) <= End(u[e].region)
  <2>1. PICK e \in OfType(t, "EXTENDED") :
          t[e].region.start <= Low(u[q]) /\ End(u[q].region) <= End(t[e].region)
    <3>1. CASE q = p
      BY <3>1 DEF OfType
    <3>2. CASE q # p
      <4>1. q \in OfType(t, "LOGICAL")
        BY <3>2 DEF OfType
      <4>2. q \in DOMAIN t
        BY <4>1 DEF OfType
      <4> QED BY <1>1, <4>1, <4>2 DEF Placed
    <3> QED BY <3>1, <3>2
  <2>2. e \in OfType(u, "EXTENDED") /\ u[e].region = t[e].region
    BY <2>1 DEF OfType
  <2> QED BY <2>1, <2>2
<1>5. ASSUME NEW q \in DOMAIN u
      PROVE  /\ u[q].region.length > 0
             /\ First(type) <= u[q].region.start /\ End(u[q].region) <= Last(type)
  BY <1>1 DEF Placed
<1> QED BY <1>2, <1>3, <1>4, <1>5 DEF Placed

-----------------------------------------------------------------------------
(* Regions in staging                                                      *)

\* A region aligned at its start lies within it.
LEMMA KeepEndWithin ==
  ASSUME NEW r \in RegionType, Offset <= r.start, End(r) <= DiskLength, r.length > 0, NEW s \in AlignKeepEnd(r)
  PROVE  s \in RegionType /\ s.length > 0 /\ r.start <= s.start /\ End(s) = End(r)
<1>1. /\ r.start \in Int /\ r.length \in Int /\ End(r) = r.start + r.length - 1 /\ Offset \in Int
      /\ DiskLength \in Int
  BY GeometryAssumption DEF RegionType, End
<1> DEFINE a == AlignStart(r.start)
<1>2. a \in Int /\ r.start <= a
  BY <1>1, AlignUp
<1> HIDE DEF a
<1>3. s = Region(a, End(r)) /\ ~ r.length <= a - r.start
  BY DEF AlignKeepEnd, a
<1>4. s \in RegionType /\ s.start = a /\ End(s) = End(r)
  BY <1>1, <1>2, <1>3, RegionTyped
<1>5. s.length = End(r) - a + 1
  BY <1>3 DEF Region
<1> QED BY <1>1, <1>2, <1>3, <1>4, <1>5

\* What a client chooses in a slot lies within it.
LEMMA ChosenWithin ==
  ASSUME NEW slot, slot.region \in RegionType, slot.region.length > 0, Offset <= slot.region.start,
         End(slot.region) <= DiskLength, NEW r \in Chosen(slot)
  PROVE  r \in RegionType /\ r.length > 0 /\ slot.region.start <= r.start /\ End(r) <= End(slot.region)
<1> DEFINE s == slot.region
<1>1. /\ s.start \in Int /\ s.length \in Int /\ End(s) = s.start + s.length - 1 /\ Offset \in Int
      /\ DiskLength \in Int
  BY GeometryAssumption DEF RegionType, End
<1>2. CASE r = s
  BY <1>1, <1>2
<1>3. CASE r # s
  <2>1. PICK n \in Lengths : n <= s.length /\ r \in Align([s EXCEPT !.length = n])
    BY <1>3 DEF Chosen
  <2> DEFINE x == [s EXCEPT !.length = n]
  <2>2. n \in Nat \ {0}
    BY ClientAssumption
  <2>3. x \in RegionType /\ x.start = s.start /\ End(x) = s.start + n - 1
    BY <2>2 DEF RegionType, End
  <2> HIDE DEF x, s
  <2> DEFINE a == AlignStart(s.start)
  <2>4. PICK e \in AlignEnd(End(x)) : e + 1 > a /\ r = Region(a, e)
    BY <2>1, <2>3 DEF Align, x
  <2>5. a \in Int /\ s.start <= a
    <3>1. Offset <= s.start /\ s.start <= DiskLength
      <4>1. Offset <= s.start /\ End(s) <= DiskLength /\ s.length > 0
        BY DEF s
      <4> QED BY <1>1, <4>1
    <3> QED BY <1>1, <3>1, AlignUp
  <2>6. Offset <= End(x) /\ End(x) <= DiskLength /\ End(x) \in Int /\ End(x) <= End(s)
    <3>1. Offset <= s.start /\ End(s) <= DiskLength
      BY DEF s
    <3> QED BY <1>1, <2>1, <2>2, <2>3, <3>1
  <2>7. e \in Int /\ e <= End(x)
    BY <2>6, AlignDown
  <2> HIDE DEF a
  <2>8. r \in RegionType /\ r.start = a /\ End(r) = e /\ r.length = e - a + 1
    BY <2>4, <2>5, <2>7, RegionTyped DEF Region
  <2>9. End(r) <= End(s) /\ s.start <= r.start /\ r.length > 0
    BY <1>1, <2>4, <2>5, <2>6, <2>7, <2>8
  <2> QED BY <2>8, <2>9 DEF s
<1> QED BY <1>2, <1>3

\* A slot for a primary or extended partition is free.
LEMMA PrimarySlotFree ==
  ASSUME NEW type, NEW t, IsFiniteSet(DOMAIN t), Regioned(t), Offset <= UnusableFront(type),
         NEW slot \in PrimarySlots(type, t)
  PROVE  /\ slot.region \in RegionType /\ slot.region.length > 0
         /\ UnusableFront(type) <= slot.region.start /\ End(slot.region) <= Last(type)
         /\ slot.types \subseteq {"PRIMARY", "EXTENDED"}
         /\ "EXTENDED" \in slot.types => ~ HasExtended(t)
         /\ \A q \in DOMAIN t : t[q].type # "LOGICAL" =>
              End(t[q].region) < slot.region.start \/ End(slot.region) < t[q].region.start
<1> DEFINE P == DOMAIN t \ OfType(t, "LOGICAL")
           others == Regions(t, P)
<1>1. others \in SUBSET RegionType /\ IsFiniteSet(others)
  <2>1. IsFiniteSet(P) /\ P \subseteq DOMAIN t
    BY FS_Subset
  <2> QED BY <2>1, RegionsFinite DEF Regions, Regioned
<1>2. \A q \in DOMAIN t : t[q].type # "LOGICAL" => t[q].region \in others
  BY DEF Regions, OfType
<1>3. /\ slot.region \in UNION {AlignKeepEnd(r) : r \in UnusedRegions(UsableRegion(type), others)}
      /\ slot.types \subseteq {"PRIMARY", "EXTENDED"}
      /\ "EXTENDED" \in slot.types => ~ HasExtended(t)
  BY DEF PrimarySlots
<1> HIDE DEF others
<1>4. PICK r \in UnusedRegions(UsableRegion(type), others) : slot.region \in AlignKeepEnd(r)
  BY <1>3
<1>5. /\ UsableRegion(type) \in RegionType /\ UsableRegion(type).start = UnusableFront(type)
      /\ End(UsableRegion(type)) = Last(type) /\ Last(type) \in Int /\ Last(type) < DiskLength
      /\ UnusableFront(type) \in Int
  BY UsableType
<1>6. /\ r \in RegionType /\ r.length > 0
      /\ UnusableFront(type) <= r.start /\ End(r) <= Last(type)
      /\ \A u \in others : End(u) < r.start \/ End(r) < u.start
  BY <1>1, <1>5, UnusedFree
<1>7. r.start \in Int /\ End(r) \in Int /\ \A u \in others : u.start \in Int /\ End(u) \in Int
  BY <1>1, <1>6 DEF RegionType, End
<1>8. Offset <= r.start /\ End(r) <= DiskLength /\ Offset \in Int /\ DiskLength \in Int
  BY <1>5, <1>6, <1>7, GeometryAssumption
<1>9. /\ slot.region \in RegionType /\ slot.region.length > 0
      /\ r.start <= slot.region.start /\ End(slot.region) = End(r)
  BY <1>4, <1>6, <1>8, KeepEndWithin
<1>10. slot.region.start \in Int
  BY <1>9 DEF RegionType
<1>11. UnusableFront(type) <= slot.region.start /\ End(slot.region) <= Last(type)
  BY <1>5, <1>6, <1>7, <1>9, <1>10
<1>12. \A u \in others : End(u) < slot.region.start \/ End(slot.region) < u.start
  BY <1>6, <1>7, <1>9, <1>10
<1> QED BY <1>2, <1>3, <1>9, <1>11, <1>12

\* So is one for a logical partition, with its EBR and that of the partition behind.
LEMMA LogicalSlotFree ==
  ASSUME NEW type, NEW t, IsFiniteSet(DOMAIN t), Regioned(t), Placed(type, t),
         NEW slot \in LogicalSlots(type, t)
  PROVE  /\ slot.region \in RegionType /\ slot.region.length > 0 /\ slot.types \subseteq {"LOGICAL"}
         /\ Offset <= slot.region.start
         /\ \E e \in OfType(t, "EXTENDED") :
              t[e].region.start <= slot.region.start - NumEbrs /\ End(slot.region) <= End(t[e].region)
         /\ \A q \in OfType(t, "LOGICAL") :
              \/ End(t[q].region) < slot.region.start - NumEbrs
              \/ End(slot.region) + NumEbrs < t[q].region.start
<1> DEFINE E == Extended(t)
           extended == t[E].region
           used == Regions(t, OfType(t, "LOGICAL"))
           ebrs(r) == NumEbrs * IF End(r) = End(extended) THEN 1 ELSE 2
           adjusted(r) == [start |-> r.start + NumEbrs, length |-> r.length - ebrs(r)]
<1>1. /\ HasExtended(t) /\ slot.types \subseteq {"LOGICAL"}
      /\ \E r \in {x \in UnusedRegions(extended, used) : x.length > ebrs(x)} :
           slot.region \in AlignKeepEnd(adjusted(r))
  BY DEF LogicalSlots
<1>2. PICK r \in UnusedRegions(extended, used) : r.length > ebrs(r) /\ slot.region \in AlignKeepEnd(adjusted(r))
  BY <1>1
<1>3. /\ E \in OfType(t, "EXTENDED") /\ E \in DOMAIN t /\ extended \in RegionType
      /\ First(type) <= extended.start /\ End(extended) <= Last(type)
  BY <1>1 DEF HasExtended, Extended, OfType, Regioned, Placed
<1>4. used \in SUBSET RegionType /\ IsFiniteSet(used)
  <2>1. IsFiniteSet(OfType(t, "LOGICAL")) /\ OfType(t, "LOGICAL") \subseteq DOMAIN t
    <3>1. OfType(t, "LOGICAL") \subseteq DOMAIN t
      BY DEF OfType
    <3> QED BY <3>1, FS_Subset
  <2> QED BY <2>1, RegionsFinite DEF Regions, Regioned
<1>5. /\ r \in RegionType /\ r.length > 0
      /\ extended.start <= r.start /\ End(r) <= End(extended)
      /\ \A u \in used : End(u) < r.start \/ End(r) < u.start
  <2> HIDE DEF used, extended
  <2> QED BY <1>3, <1>4, UnusedFree
<1>6. NumEbrs \in Nat \ {0} /\ Offset \in Nat /\ Offset <= NumEbrs /\ DiskLength \in Nat
  BY GeometryAssumption, AlignmentAssumption
<1>7. /\ r.start \in Int /\ r.length \in Int /\ End(r) = r.start + r.length - 1
      /\ extended.start \in Int /\ End(extended) \in Int
      /\ First(type) \in Nat \ {0} /\ Last(type) \in Int /\ Last(type) < DiskLength
  BY <1>3, <1>5, UsableType DEF RegionType, End
<1>8. ebrs(r) = IF End(r) = End(extended) THEN NumEbrs ELSE NumEbrs + NumEbrs
  BY <1>6
<1> DEFINE n == ebrs(r)
           x == adjusted(r)
<1>9. /\ n \in Int /\ r.length > n /\ slot.region \in AlignKeepEnd(x)
      /\ x.start = r.start + NumEbrs /\ x.length = r.length - n /\ n >= NumEbrs
      /\ n = IF End(r) = End(extended) THEN NumEbrs ELSE NumEbrs + NumEbrs
  BY <1>2, <1>6, <1>7, <1>8
<1>10. x \in RegionType /\ End(x) = End(r) + NumEbrs - n
  <2>1. x = [start |-> r.start + NumEbrs, length |-> r.length - n]
    OBVIOUS
  <2> HIDE DEF x, n
  <2> QED BY <1>6, <1>7, <1>9, <2>1 DEF RegionType, End
<1> HIDE DEF x, n, extended, used, E, ebrs, adjusted
<1>11. Offset <= x.start /\ x.length > 0 /\ End(x) <= DiskLength
  BY <1>3, <1>5, <1>6, <1>7, <1>9, <1>10
<1>12. /\ slot.region \in RegionType /\ slot.region.length > 0
       /\ x.start <= slot.region.start /\ End(slot.region) = End(x)
  BY <1>9, <1>10, <1>11, KeepEndWithin
<1>13. slot.region.start \in Int
  BY <1>12 DEF RegionType
<1>14. /\ Offset <= slot.region.start /\ extended.start <= slot.region.start - NumEbrs
       /\ r.start <= slot.region.start - NumEbrs
       /\ End(slot.region) <= End(extended) /\ End(slot.region) \in Int
  BY <1>3, <1>5, <1>6, <1>7, <1>9, <1>10, <1>11, <1>12, <1>13
<1>15. ASSUME NEW q \in OfType(t, "LOGICAL")
       PROVE  \/ End(t[q].region) < slot.region.start - NumEbrs
              \/ End(slot.region) + NumEbrs < t[q].region.start
  <2> DEFINE u == t[q].region
  <2>1. q \in DOMAIN t /\ u \in used /\ u.length > 0
    BY DEF OfType, used, Regions, Placed
  <2>2. u.start \in Int /\ End(u) \in Int /\ u.start <= End(u)
    BY <1>4, <2>1 DEF RegionType, End
  <2>3. End(u) <= End(extended)
    <3>1. PICK e \in OfType(t, "EXTENDED") : End(u) <= End(t[e].region)
      BY DEF Placed
    <3>2. e = E
      BY <1>3, <3>1 DEF Placed
    <3> QED BY <3>1, <3>2 DEF extended
  <2>4. End(u) < r.start \/ End(r) < u.start
    BY <1>5, <2>1
  <2> HIDE DEF u
  <2>5. CASE End(u) < r.start
    <3>1. End(u) < slot.region.start - NumEbrs
      BY <1>6, <1>7, <1>13, <1>14, <2>2, <2>5
    <3> QED BY <3>1 DEF u
  <2>6. CASE End(r) < u.start
    <3>1. End(r) # End(extended)
      BY <1>7, <2>2, <2>3, <2>6
    <3>2. End(slot.region) = End(r) - NumEbrs
      BY <1>6, <1>7, <1>9, <1>10, <1>12, <3>1
    <3>3. End(slot.region) + NumEbrs < u.start
      BY <1>6, <1>7, <2>2, <2>6, <3>2
    <3> QED BY <3>3 DEF u
  <2> QED BY <2>4, <2>5, <2>6
<1> QED BY <1>1, <1>3, <1>12, <1>14, <1>15 DEF extended

\* A finite set of numbers has a least element.
LEMMA LeastInt ==
  ASSUME NEW S \in SUBSET Int, S # {}, IsFiniteSet(S)
  PROVE  Min(S) \in S /\ \A y \in S : Min(S) <= y
<1> DEFINE N == {- x : x \in S}
           f == [x \in S |-> - x]
<1>1. N \in SUBSET Int /\ N # {}
  <2>1. PICK x \in S : TRUE
    OBVIOUS
  <2>2. - x \in N
    BY <2>1
  <2>3. \A y \in S : - y \in Int
    OBVIOUS
  <2> QED BY <2>2, <2>3
<1>2. IsFiniteSet(N)
  <2>1. f \in Surjection(S, N)
    BY DEF Surjection
  <2> QED BY <2>1, FS_Surjection
<1> HIDE DEF N
<1>3. PICK m \in N : \A y \in N : y <= m
  BY <1>1, <1>2, GreatestInt
<1>4. PICK n \in S : m = - n
  BY DEF N
<1>5. \A y \in S : - y <= m /\ y \in Int
  BY <1>3 DEF N
<1>6. \A y \in S : n <= y
  BY <1>4, <1>5
<1>7. \E x \in S : \A y \in S : x <= y
  BY <1>6
<1>8. Min(S) \in S /\ \A y \in S : Min(S) <= y
  BY <1>7 DEF Min
<1> QED BY <1>8

\* Edits leave the extended partition where it is.
ExtendedKept(L, t) == \A e \in OfType(L, "EXTENDED") \cap DOMAIN t : t[e].region = L[e].region

\* A partition is created apart from all others.
LEMMA CreatePlaced ==
  ASSUME IInv, Edited, Placed(pt, staging), Offset <= UnusableFront(pt), ExtendedKept(system, staging), Create
  PROVE  UNCHANGED <<pt, system>> /\ Placed(pt, staging') /\ ExtendedKept(system, staging')
<1>1. PICK p \in Sid \ (DOMAIN staging \cup DOMAIN system), slot \in UnusedSlots(pt, staging) :
        \E type \in slot.types, region \in Chosen(slot) : \E number \in NumbersFor(slot, type) :
          Edit(CreatePartition(staging, p, type, number, region, p \in Swaps /\ type # "EXTENDED"))
  BY DEF Create
<1>2. PICK type \in slot.types, region \in Chosen(slot) : \E number \in NumbersFor(slot, type) :
        Edit(CreatePartition(staging, p, type, number, region, p \in Swaps /\ type # "EXTENDED"))
  BY <1>1
<1>3. PICK number \in NumbersFor(slot, type) :
        Edit(CreatePartition(staging, p, type, number, region, p \in Swaps /\ type # "EXTENDED"))
  BY <1>2
<1> DEFINE u == CreatePartition(staging, p, type, number, region, p \in Swaps /\ type # "EXTENDED")
<1>4. staging' = u /\ UNCHANGED <<pt, system>>
  BY <1>3 DEF Edit
<1>5. /\ DOMAIN u = DOMAIN staging \cup {p} /\ p \notin DOMAIN staging /\ p \notin DOMAIN system
      /\ u[p].type = type /\ u[p].region = region
      /\ \A q \in DOMAIN staging : u[q] = staging[q]
  BY DEF CreatePartition
<1> HIDE DEF u
<1>6. IsFiniteSet(DOMAIN staging) /\ Regioned(staging)
  BY DEF IInv, Sound, Edited, Regioned, Partition, RegionType
<1>7. First(pt) \in Int /\ UnusableFront(pt) \in Int /\ First(pt) <= UnusableFront(pt) /\ Last(pt) \in Int
      /\ Last(pt) < DiskLength /\ DiskLength \in Int /\ Offset \in Int
      /\ NumEbrs \in Nat \ {0}
  BY UsableType, GeometryAssumption, AlignmentAssumption
<1>10. ExtendedKept(system, u)
  <2>1. \A e \in OfType(system, "EXTENDED") : e \in DOMAIN system
    BY DEF OfType
  <2>2. \A e \in OfType(system, "EXTENDED") \cap DOMAIN u : e \in DOMAIN staging /\ u[e] = staging[e]
    BY <1>5, <2>1
  <2> QED BY <2>2 DEF ExtendedKept
<1>8. CASE slot \in PrimarySlots(pt, staging)
  <2>1. /\ slot.region \in RegionType /\ slot.region.length > 0
        /\ UnusableFront(pt) <= slot.region.start /\ End(slot.region) <= Last(pt)
        /\ type \in {"PRIMARY", "EXTENDED"} /\ (type = "EXTENDED" => ~ HasExtended(staging))
        /\ \A q \in DOMAIN staging : staging[q].type # "LOGICAL" =>
             End(staging[q].region) < slot.region.start \/ End(slot.region) < staging[q].region.start
    BY <1>6, <1>8, PrimarySlotFree
  <2>2. slot.region.start \in Int /\ End(slot.region) \in Int
    BY <2>1 DEF RegionType, End
  <2>3. Offset <= slot.region.start /\ End(slot.region) <= DiskLength
    BY <1>7, <2>1, <2>2
  <2>4. /\ region \in RegionType /\ region.length > 0
        /\ slot.region.start <= region.start /\ End(region) <= End(slot.region)
    BY <2>1, <2>3, ChosenWithin
  <2>5. region.start \in Int /\ End(region) \in Int
    BY <2>4 DEF RegionType, End
  <2>6. First(pt) <= region.start /\ End(region) <= Last(pt)
    BY <1>7, <2>1, <2>2, <2>4, <2>5
  <2>7. ASSUME NEW q \in DOMAIN staging, u[p].type = "LOGICAL" <=> staging[q].type = "LOGICAL"
        PROVE  Apart(u[p], staging[q])
    <3>1. staging[q].type # "LOGICAL" /\ u[p].type # "LOGICAL"
      BY <1>5, <2>1, <2>7
    <3>2. staging[q].region.start \in Int /\ End(staging[q].region) \in Int
      BY <1>6 DEF Regioned, RegionType, End
    <3>3. End(staging[q].region) < region.start \/ End(region) < staging[q].region.start
      BY <2>1, <2>2, <2>4, <2>5, <3>1, <3>2
    <3> QED BY <1>5, <3>1, <3>3 DEF Apart, Low
  <2>8. Regioned(u)
    BY <1>5, <1>6, <2>4 DEF Regioned
  <2>9. u[p].type = "EXTENDED" => OfType(staging, "EXTENDED") = {}
    BY <1>5, <2>1 DEF HasExtended
  <2>10. u[p].type # "LOGICAL"
    BY <1>5, <2>1
  <2>11. Placed(pt, u)
    BY <1>5, <1>6, <2>4, <2>6, <2>7, <2>8, <2>9, <2>10, MorePlaced
  <2> QED BY <1>4, <1>10, <2>11
<1>9. CASE slot \in LogicalSlots(pt, staging)
  <2>1. /\ slot.region \in RegionType /\ slot.region.length > 0 /\ type = "LOGICAL"
        /\ Offset <= slot.region.start
        /\ \A q \in OfType(staging, "LOGICAL") :
             \/ End(staging[q].region) < slot.region.start - NumEbrs
             \/ End(slot.region) + NumEbrs < staging[q].region.start
    BY <1>6, <1>9, LogicalSlotFree
  <2>2. PICK e \in OfType(staging, "EXTENDED") :
          staging[e].region.start <= slot.region.start - NumEbrs /\ End(slot.region) <= End(staging[e].region)
    BY <1>6, <1>9, LogicalSlotFree
  <2>3. /\ staging[e].region.start \in Int /\ End(staging[e].region) \in Int
        /\ slot.region.start \in Int /\ End(slot.region) \in Int
        /\ First(pt) <= staging[e].region.start /\ End(staging[e].region) <= Last(pt)
    BY <1>6, <2>1 DEF RegionType, End, OfType, Placed, Regioned
  <2>4. End(slot.region) <= DiskLength
    BY <1>7, <2>2, <2>3
  <2>5. /\ region \in RegionType /\ region.length > 0
        /\ slot.region.start <= region.start /\ End(region) <= End(slot.region)
    BY <2>1, <2>4, ChosenWithin
  <2>6. region.start \in Int /\ End(region) \in Int
    BY <2>5 DEF RegionType, End
  <2>7. First(pt) <= region.start /\ End(region) <= Last(pt)
    BY <1>7, <2>2, <2>3, <2>5, <2>6
  <2>8. Low(u[p]) = region.start - 1
    BY <1>5, <2>1 DEF Low
  <2>9. ASSUME NEW q \in DOMAIN staging, u[p].type = "LOGICAL" <=> staging[q].type = "LOGICAL"
        PROVE  Apart(u[p], staging[q])
    <3>1. q \in OfType(staging, "LOGICAL") /\ staging[q].type = "LOGICAL"
      BY <1>5, <2>1, <2>9 DEF OfType
    <3>2. staging[q].region.start \in Int /\ End(staging[q].region) \in Int
      BY <1>6 DEF Regioned, RegionType, End
    <3>3. Low(staging[q]) = staging[q].region.start - 1
      BY <3>1 DEF Low
    <3>4. End(staging[q].region) < region.start - 1 \/ End(region) < staging[q].region.start - 1
      BY <1>7, <2>1, <2>3, <2>5, <2>6, <3>1, <3>2
    <3> QED BY <1>5, <2>8, <3>3, <3>4 DEF Apart
  <2>10. Regioned(u)
    BY <1>5, <1>6, <2>5 DEF Regioned
  <2>11. u[p].type = "LOGICAL"
    BY <1>5, <2>1
  <2>12. staging[e].region.start <= Low(u[p]) /\ End(u[p].region) <= End(staging[e].region)
    BY <1>5, <1>7, <2>2, <2>3, <2>5, <2>6, <2>8
  <2>13. Placed(pt, u)
    BY <1>5, <1>6, <2>5, <2>7, <2>9, <2>10, <2>11, <2>12, MorePlaced
  <2> QED BY <1>4, <1>10, <2>13
<1> QED BY <1>8, <1>9 DEF UnusedSlots

\* Partitions that are deleted take what is in them with them.
LEMMA DeletePlaced ==
  ASSUME IInv, Edited, Placed(pt, staging), ExtendedKept(system, staging), Delete
  PROVE  UNCHANGED <<pt, system>> /\ Placed(pt, staging') /\ ExtendedKept(system, staging')
<1>1. PICK p \in DOMAIN staging : Edit(DeletePartition(staging, p, system))
  BY DEF Delete
<1> DEFINE u == DeletePartition(staging, p, system)
<1>2. staging' = u /\ UNCHANGED <<pt, system>>
  BY <1>1 DEF Edit
<1>3. /\ DOMAIN u = DOMAIN staging \ Removed(staging, p)
      /\ \A q \in DOMAIN u : u[q].type = staging[q].type /\ u[q].region = staging[q].region
  <2>1. Sound(pt, staging) /\ \A q \in DOMAIN staging : staging[q] \in Partition
    BY DEF IInv, Edited
  <2>2. /\ DOMAIN u = DOMAIN staging \ Removed(staging, p)
        /\ \A q \in DOMAIN u :
             /\ u[q] \in Partition
             /\ u[q].type = staging[q].type /\ u[q].region = staging[q].region
             /\ u[q].listed = staging[q].listed /\ u[q].active = staging[q].active
             /\ u[q].number <= staging[q].number
             /\ q \in DOMAIN system /\ u[q].type # "LOGICAL" => u[q].number = staging[q].number
        /\ \A q, x \in OfType(staging, "LOGICAL") \cap DOMAIN u :
             staging[q].number < staging[x].number => u[q].number < u[x].number
    BY <2>1, DeleteRenumbers
  <2> QED BY <2>2
<1> HIDE DEF u
<1>4. Regioned(staging) /\ Regioned(u)
  BY <1>3 DEF Edited, Regioned, Partition, RegionType
<1>5. \A q \in DOMAIN u : /\ u[q].region.length > 0 /\ u[q].region.length <= staging[q].region.length
                          /\ q \in DOMAIN staging
  BY <1>3, <1>4 DEF Placed, Regioned, RegionType
<1>6. ASSUME OfType(u, "LOGICAL") # {}, NEW e \in OfType(staging, "EXTENDED")
      PROVE  e \in DOMAIN u
  <2>1. PICK q \in DOMAIN u : u[q].type = "LOGICAL"
    BY <1>6 DEF OfType
  <2>2. q \in OfType(staging, "LOGICAL") /\ q \notin Removed(staging, p)
    BY <1>3, <2>1 DEF OfType
  <2>3. staging[p].type # "EXTENDED"
    BY <2>2 DEF Removed
  <2>4. e # p /\ Removed(staging, p) = {p} /\ e \in DOMAIN staging
    BY <1>6, <2>3 DEF Removed, OfType
  <2> QED BY <1>3, <2>4
<1>7. Placed(pt, u)
  BY <1>3, <1>4, <1>5, <1>6, PrefixPlaced
<1> QED BY <1>2, <1>3, <1>7 DEF ExtendedKept

\* detect_resize_info looks at what is behind a partition.
LEMMA LastSectorBound ==
  ASSUME NEW type, NEW t, IsFiniteSet(DOMAIN t), Regioned(t), Placed(type, t), NEW p \in DOMAIN t,
         NEW x \in Int, x <= LastSector(type, t, p)
  PROVE  /\ x <= Last(type)
         /\ t[p].type = "LOGICAL" => \A e \in OfType(t, "EXTENDED") : x <= End(t[e].region)
         /\ \A q \in DOMAIN t : /\ t[p].type = "LOGICAL" <=> t[q].type = "LOGICAL"
                                /\ t[q].region.start > End(t[p].region)
              => x < t[q].region.start
<1> DEFINE logical == t[p].type = "LOGICAL"
           within == IF logical THEN t[Extended(t)].region
                     ELSE IF HasUsableRegion(type) THEN UsableRegion(type) ELSE t[p].region
           behind == {q \in DOMAIN t : /\ (t[q].type = "LOGICAL") = logical
                                       /\ t[q].region.start > End(t[p].region)}
           B == {t[q].region.start - 1 : q \in behind}
           f == [q \in behind |-> t[q].region.start - 1]
<1>1. LastSector(type, t, p) = Min({End(within)} \cup B)
  BY DEF LastSector
<1>2. \A q \in DOMAIN t : t[q].region.start \in Int /\ End(t[q].region) \in Int
  BY DEF Regioned, RegionType, End
<1>3. logical => /\ Extended(t) \in OfType(t, "EXTENDED") /\ Extended(t) \in DOMAIN t
                 /\ \A e \in OfType(t, "EXTENDED") : e = Extended(t)
  <2>1. logical => OfType(t, "EXTENDED") # {}
    BY DEF Placed, OfType
  <2>2. OfType(t, "EXTENDED") # {} => Extended(t) \in OfType(t, "EXTENDED")
    BY DEF Extended
  <2>3. Extended(t) \in OfType(t, "EXTENDED") => Extended(t) \in DOMAIN t
    BY DEF OfType
  <2> QED BY <2>1, <2>2, <2>3 DEF Placed
<1>4. End(within) \in Int /\ End(within) <= Last(type)
  <2>1. CASE logical
    BY <1>2, <1>3, <2>1 DEF Placed
  <2>2. CASE ~ logical /\ HasUsableRegion(type)
    BY <2>2, UsableType
  <2>3. CASE ~ logical /\ ~ HasUsableRegion(type)
    BY <1>2, <2>3 DEF Placed
  <2> QED BY <2>1, <2>2, <2>3
<1>5. B \in SUBSET Int /\ IsFiniteSet(B)
  <2>1. behind \subseteq DOMAIN t /\ IsFiniteSet(behind)
    BY FS_Subset
  <2>2. f \in Surjection(behind, B)
    BY DEF Surjection
  <2>3. IsFiniteSet(B)
    BY <2>1, <2>2, FS_Surjection
  <2> QED BY <1>2, <2>1, <2>3
<1> DEFINE w == End(within)
           m == Min({w} \cup B)
<1>6. \A q \in DOMAIN t : (logical <=> t[q].type = "LOGICAL") /\ t[q].region.start > End(t[p].region)
                            => t[q].region.start - 1 \in B
  OBVIOUS
<1>7. w \in Int /\ w <= Last(type) /\ (logical => \A e \in OfType(t, "EXTENDED") : w = End(t[e].region))
  BY <1>3, <1>4
<1>8. x <= m
  BY <1>1
<1> HIDE DEF B, w
<1>9. m \in Int /\ \A y \in {w} \cup B : m <= y
  <2>1. {w} \cup B \in SUBSET Int /\ {w} \cup B # {}
    BY <1>5, <1>7
  <2>2. IsFiniteSet({w} \cup B)
    <3>1. {w} \cup B = B \cup {w}
      OBVIOUS
    <3> QED BY <1>5, <3>1, FS_AddElement
  <2> QED BY <2>1, <2>2, LeastInt
<1> HIDE DEF m
<1>10. x <= w /\ \A y \in B : x <= y
  BY <1>5, <1>7, <1>8, <1>9
<1>11. x <= Last(type)
  BY <1>7, <1>10, UsableType
<1>12. \A q \in DOMAIN t : (logical <=> t[q].type = "LOGICAL") /\ t[q].region.start > End(t[p].region)
                             => x < t[q].region.start
  BY <1>2, <1>6, <1>10
<1> QED BY <1>7, <1>10, <1>11, <1>12

\* A partition that grows stays apart from what is behind it.
LEMMA ResizePlaced ==
  ASSUME IInv, Edited, Placed(pt, staging), ExtendedKept(system, staging), Resize
  PROVE  UNCHANGED <<pt, system>> /\ Placed(pt, staging') /\ ExtendedKept(system, staging')
<1>1. PICK p \in DOMAIN staging \ (OfType(staging, "EXTENDED") \cup Listed(staging)), n \in Lengths :
        \E region \in AlignKeepStart([staging[p].region EXCEPT !.length = n]) :
           /\ End(region) <= LastSector(pt, staging, p)
           /\ \A q \in DOMAIN staging : staging[q].region.start # End(region) + 1
           /\ Edit([staging EXCEPT ![p].region = region])
  BY DEF Resize
<1>2. PICK region \in AlignKeepStart([staging[p].region EXCEPT !.length = n]) :
           /\ End(region) <= LastSector(pt, staging, p)
           /\ \A q \in DOMAIN staging : staging[q].region.start # End(region) + 1
           /\ Edit([staging EXCEPT ![p].region = region])
  BY <1>1
<1>3. /\ IsFiniteSet(DOMAIN staging) /\ Regioned(staging) /\ staging[p] \in Partition
      /\ p \in DOMAIN staging /\ staging[p].type # "EXTENDED"
  BY <1>1 DEF IInv, Sound, Edited, Regioned, Partition, RegionType, OfType
<1> DEFINE r == [staging[p].region EXCEPT !.length = n]
<1>4. r \in RegionType /\ r.start = staging[p].region.start
  BY <1>3, ClientAssumption DEF Partition, RegionType
<1>5. region \in RegionType /\ region.start = staging[p].region.start /\ region.length > 0
  <2> HIDE DEF r
  <2>1. region \in AlignKeepStart(r)
    BY DEF r
  <2>2. region \in RegionType
    BY <1>4, <2>1, AlignTyped
  <2>3. PICK e \in AlignEnd(End(r)) : e + 1 > r.start /\ region = Region(r.start, e)
    BY <2>1 DEF AlignKeepStart
  <2>4. region.start = r.start /\ region.length = e - r.start + 1
    BY <2>3 DEF Region
  <2>5. e \in Int
    <3>1. r.start \in Int /\ r.length \in Int /\ End(r) \in Int
      BY <1>4 DEF RegionType, End
    <3>2. Word \in Nat \ {0} /\ Grain \in Nat \ {0} /\ Offset \in Int
      BY GeometryAssumption
    <3>3. \A x \in Int : x % Word \in Int /\ x % Grain \in Int
      BY <3>2
    <3>4. AlignEnd(End(r)) \subseteq Int
      BY <3>1, <3>2, <3>3 DEF AlignEnd
    <3> QED BY <2>3, <3>4
  <2>6. r.start \in Int
    BY <1>4 DEF RegionType
  <2> QED BY <1>4, <2>2, <2>3, <2>4, <2>5, <2>6
<1> HIDE DEF r
<1> DEFINE u == [staging EXCEPT ![p].region = region]
<1>6. staging' = u /\ UNCHANGED <<pt, system>>
  BY <1>2 DEF Edit
<1>7. /\ DOMAIN u = DOMAIN staging /\ u[p].type = staging[p].type /\ u[p].region = region
      /\ \A q \in DOMAIN staging : u[q].type = staging[q].type /\ (q # p => u[q] = staging[q])
  BY <1>3 DEF Partition
<1> HIDE DEF u
<1> DEFINE x == End(region)
<1>8. x \in Int /\ region.start <= x
  BY <1>5 DEF RegionType, End
<1>9. /\ x <= Last(pt)
      /\ staging[p].type = "LOGICAL" => \A e \in OfType(staging, "EXTENDED") : x <= End(staging[e].region)
      /\ \A q \in DOMAIN staging : /\ staging[p].type = "LOGICAL" <=> staging[q].type = "LOGICAL"
                                   /\ staging[q].region.start > End(staging[p].region)
           => x < staging[q].region.start
  BY <1>2, <1>3, <1>8, LastSectorBound
<1>10. ASSUME NEW q \in DOMAIN staging
       PROVE  /\ staging[q].region.start \in Int /\ End(staging[q].region) \in Int
              /\ Low(staging[q]) = IF staging[q].type = "LOGICAL" THEN staging[q].region.start - 1
                                                                  ELSE staging[q].region.start
              /\ staging[q].region.start # x + 1
  BY <1>2, <1>3 DEF Regioned, RegionType, End, Low
<1> HIDE DEF x
<1>11. End(u[p].region) = x /\ Low(u[p]) = Low(staging[p])
  BY <1>5, <1>7 DEF x, Low
<1>12. ASSUME NEW q \in DOMAIN staging, q # p, u[p].type = "LOGICAL" <=> u[q].type = "LOGICAL"
       PROVE  Apart(u[p], u[q]) /\ Apart(u[q], u[p])
  <2>1. Apart(staging[p], staging[q])
    BY <1>3, <1>7, <1>12 DEF Placed
  <2>2. CASE End(staging[p].region) < Low(staging[q])
    <3>1. staging[q].region.start > End(staging[p].region)
      BY <1>3, <1>10, <2>2
    <3>2. x < staging[q].region.start
      BY <1>7, <1>9, <1>12, <3>1
    <3>3. x < Low(staging[q])
      BY <1>8, <1>10, <3>2
    <3> QED BY <1>7, <1>11, <1>12, <3>3 DEF Apart
  <2>3. CASE End(staging[q].region) < Low(staging[p])
    BY <1>7, <1>11, <1>12, <2>3 DEF Apart
  <2> QED BY <2>1, <2>2, <2>3 DEF Apart
<1>13. \A q, s \in DOMAIN u : q # s /\ (u[q].type = "LOGICAL" <=> u[s].type = "LOGICAL") => Apart(u[q], u[s])
  <2>1. ASSUME NEW q \in DOMAIN u, NEW s \in DOMAIN u, q # s, u[q].type = "LOGICAL" <=> u[s].type = "LOGICAL"
        PROVE  Apart(u[q], u[s])
    <3>1. CASE q = p \/ s = p
      BY <1>7, <1>12, <2>1, <3>1
    <3>2. CASE q # p /\ s # p
      BY <1>7, <2>1, <3>2 DEF Placed
    <3> QED BY <3>1, <3>2
  <2> QED BY <2>1
<1>14. \A q, s \in OfType(u, "EXTENDED") : q = s
  BY <1>7 DEF Placed, OfType
<1>15. ASSUME NEW q \in OfType(u, "LOGICAL")
       PROVE  \E e \in OfType(u, "EXTENDED") :
                u[e].region.start <= Low(u[q]) /\ End(u[q].region) <= End(u[e].region)
  <2>1. q \in OfType(staging, "LOGICAL") /\ q \in DOMAIN staging
    BY <1>7 DEF OfType
  <2>2. PICK e \in OfType(staging, "EXTENDED") :
          staging[e].region.start <= Low(staging[q]) /\ End(staging[q].region) <= End(staging[e].region)
    BY <2>1 DEF Placed
  <2>3. e \in DOMAIN staging /\ e # p /\ u[e] = staging[e] /\ e \in OfType(u, "EXTENDED")
    BY <1>3, <1>7, <2>2 DEF OfType
  <2>4. CASE q = p
    <3>1. x <= End(staging[e].region)
      BY <1>9, <2>1, <2>2, <2>4 DEF OfType
    <3> QED BY <1>11, <2>2, <2>3, <2>4, <3>1
  <2>5. CASE q # p
    BY <1>7, <2>1, <2>2, <2>3, <2>5
  <2> QED BY <2>4, <2>5
<1>16. ASSUME NEW q \in DOMAIN u
       PROVE  u[q].region.length > 0 /\ First(pt) <= u[q].region.start /\ End(u[q].region) <= Last(pt)
  <2>1. CASE q = p
    BY <1>3, <1>5, <1>7, <1>9, <1>11, <2>1 DEF Placed
  <2>2. CASE q # p
    BY <1>7, <2>2 DEF Placed
  <2> QED BY <2>1, <2>2
<1>17. Placed(pt, u)
  BY <1>13, <1>14, <1>15, <1>16 DEF Placed
<1>18. ExtendedKept(system, u)
  <2>1. ASSUME NEW e \in OfType(system, "EXTENDED"), e \in DOMAIN u PROVE u[e].region = system[e].region
    <3>1. e \in DOMAIN staging /\ e \in DOMAIN system /\ staging[e].type = "EXTENDED"
      BY <1>7, <2>1 DEF OfType, Edited, Follows
    <3>2. e # p
      BY <1>3, <3>1
    <3> QED BY <1>7, <2>1, <3>1, <3>2 DEF ExtendedKept
  <2> QED BY <2>1 DEF ExtendedKept
<1> QED BY <1>6, <1>17, <1>18

\* swapoff moves nothing.
LEMMA DeactivatePlaced ==
  ASSUME IInv, Edited, Placed(pt, staging), ExtendedKept(system, staging), Deactivate
  PROVE  UNCHANGED <<pt, system>> /\ Placed(pt, staging') /\ ExtendedKept(system, staging')
<1>1. PICK p \in DOMAIN staging : Edit([staging EXCEPT ![p].active = FALSE])
  BY DEF Deactivate, Active
<1> DEFINE u == [staging EXCEPT ![p].active = FALSE]
<1>2. staging' = u /\ UNCHANGED <<pt, system>>
  BY <1>1 DEF Edit
<1>3. \A q \in DOMAIN staging : staging[q] \in Partition
  BY DEF Edited
<1>4. /\ DOMAIN u = DOMAIN staging
      /\ \A q \in DOMAIN staging : u[q].type = staging[q].type /\ u[q].region = staging[q].region
  BY <1>3 DEF Partition
<1> HIDE DEF u
<1>5. Regioned(staging) /\ Regioned(u)
  BY <1>3, <1>4 DEF Regioned, Partition, RegionType
<1>6. /\ \A q \in DOMAIN u : u[q].region.length > 0 /\ u[q].region.length <= staging[q].region.length
      /\ \A e \in OfType(staging, "EXTENDED") : e \in DOMAIN u /\ u[e].region = staging[e].region
  BY <1>4, <1>5 DEF Placed, Regioned, RegionType, OfType
<1>7. Placed(pt, u)
  BY <1>4, <1>5, <1>6, PrefixPlaced
<1> QED BY <1>2, <1>4, <1>7 DEF ExtendedKept

-----------------------------------------------------------------------------
(* Regions from the edits to the end of a commit                           *)

\* Nothing overlaps in the system, in staging and on disk.  Partitions grow after
\* all that shrink have shrunk.
Geometry ==
  /\ Placed(pt, system) /\ Placed(pt, staging) /\ Placed(pt, disk)
  /\ Offset <= UnusableFront(pt)
  /\ ExtendedKept(system, staging)
  /\ phase = "commit" /\ Pending("shrink") # {} =>
       {p \in Stay : staging[p].region.length > system[p].region.length} \subseteq Pending("grow")

\* Tables with the same types and regions are placed alike.
LEMMA SamePlaced ==
  ASSUME NEW type, NEW t, NEW u, Regioned(t), Placed(type, t), DOMAIN u = DOMAIN t,
         \A q \in DOMAIN t : u[q].type = t[q].type /\ u[q].region = t[q].region
  PROVE  Placed(type, u)
<1>1. Regioned(u)
  BY DEF Regioned
<1>2. /\ \A q \in DOMAIN u : u[q].region.length > 0 /\ u[q].region.length <= t[q].region.length
      /\ \A e \in OfType(t, "EXTENDED") : e \in DOMAIN u /\ u[e].region = t[e].region
  BY DEF Placed, Regioned, RegionType, OfType
<1> QED BY <1>1, <1>2, PrefixPlaced

\* The disks are placed at first.
LEMMA InitGeometry == Init => Geometry
<1> SUFFICES ASSUME Init PROVE Geometry
  OBVIOUS
<1>1. PICK d \in Disks :
        /\ pt = d.pt /\ disk = OnDisk(d.partitions) /\ system = d.partitions /\ staging = d.partitions
        /\ phase = "edit"
  BY DEF Init
<1> DEFINE t == d.partitions
<1>2. Regioned(t) /\ Fits(pt, t) /\ Offset <= UnusableFront(pt)
  BY <1>1, DisksAssumption DEF Proper, Regioned, Partition, RegionType
<1>3. Placed(pt, t)
  BY <1>2, FitsPlaced
<1>4. Placed(pt, disk)
  <2>1. DOMAIN disk = DOMAIN t /\ \A q \in DOMAIN t : disk[q].type = t[q].type /\ disk[q].region = t[q].region
    BY <1>1 DEF OnDisk
  <2> QED BY <1>2, <1>3, <2>1, SamePlaced
<1>5. ExtendedKept(system, staging)
  BY <1>1 DEF ExtendedKept
<1> QED BY <1>1, <1>2, <1>3, <1>4, <1>5 DEF Geometry

\* Every edit keeps the partitions apart.
LEMMA EditGeometry ==
  ASSUME IInv, JInv, Geometry, Create \/ Delete \/ Resize \/ Deactivate
  PROVE  Geometry'
<1>1. Edited /\ Placed(pt, staging) /\ Offset <= UnusableFront(pt) /\ ExtendedKept(system, staging)
  BY DEF JInv, Geometry
<1>2. UNCHANGED <<pt, system>> /\ Placed(pt, staging') /\ ExtendedKept(system, staging')
  BY <1>1, CreatePlaced, DeletePlaced, ResizePlaced, DeactivatePlaced
<1>3. phase' = "edit" /\ disk' = disk
  BY DEF Create, Delete, Resize, Deactivate, Edit
<1> QED BY <1>2, <1>3 DEF Geometry

\* At first all is left to grow.
LEMMA ActiongraphGeometry ==
  ASSUME IInv, JInv, Geometry, CalculateActiongraph
  PROVE  Geometry'
<1>1. /\ todo' = Actions(system, staging)
      /\ UNCHANGED <<pt, disk, system, staging>>
  BY DEF CalculateActiongraph
<1>2. Stay' = Stay
  BY <1>1 DEF Stay
<1>3. ASSUME NEW p \in Stay, staging[p].region.length > system[p].region.length
      PROVE  p \in Pending("grow")'
  <2>1. Act("grow", p) \in todo'
    BY <1>1, <1>3 DEF Actions, Stay
  <2>2. p \in Sid
    BY <1>3 DEF JInv, Edited, Stay
  <2> QED BY <2>1, <2>2 DEF Pending, Act
<1>4. ({p \in Stay : staging[p].region.length > system[p].region.length} \subseteq Pending("grow"))'
  BY <1>1, <1>2, <1>3
<1> QED BY <1>1, <1>4 DEF Geometry

\* A step of a commit keeps all if the regions it leaves on disk are apart.
LEMMA CommitGeometry ==
  ASSUME IInv, JInv, Geometry, NEW a \in Ready, NEW t, NEW w, NEW f, Commit(a, t, w, f), Placed(pt, t)
  PROVE  Geometry'
<1>1. phase = "commit"
  BY DEF Commit
<1>2. Progress(a) /\ disk' = t
  BY CommitProgress
<1>3. Edited /\ todo \subseteq Actions(system, staging)
  BY <1>1 DEF JInv
<1>4. a.op = "grow" => Pending("shrink") = {}
  BY <1>3, ReadyOrder
<1>5. /\ UNCHANGED <<pt, system, staging>> /\ Stay' = Stay
      /\ Pending("shrink")' \subseteq Pending("shrink")
      /\ a.op # "grow" => Pending("grow")' = Pending("grow")
  BY <1>2 DEF Progress
<1>6. phase' = "commit" /\ Pending("shrink")' # {} =>
        ({p \in Stay : staging[p].region.length > system[p].region.length} \subseteq Pending("grow"))'
  BY <1>1, <1>4, <1>5 DEF Geometry
<1> QED BY <1>2, <1>5, <1>6 DEF Geometry

\* What parted accepts is apart.
LEMMA ResizeGeometry ==
  ASSUME IInv, JInv, Geometry, NEW a \in Ready, CommitResize(a)
  PROVE  Geometry'
<1>1. PICK q \in Named(a) : Fits(pt, Resized(q, a.sid)) /\ Commit(a, Resized(q, a.sid), swapped, fstab)
  BY DEF CommitResize
<1>2. a.op \in {"shrink", "grow"} /\ phase = "commit"
  BY <1>1 DEF CommitResize, Commit
<1>3. Edited /\ todo \subseteq Actions(system, staging)
  BY <1>2 DEF JInv
<1>4. a.sid \in DOMAIN staging
  BY <1>2, <1>3, ReadyOrder, PendingSorts DEF Stay
<1>5. q \in DOMAIN disk /\ Regioned(disk) /\ staging[a.sid].region \in RegionType
  BY <1>3, <1>4, DiskTyped DEF Named, Numbered, Regioned, Edited, Partition, RegionType
<1> DEFINE r == Region(disk[q].region.start, End(staging[a.sid].region))
           u == Resized(q, a.sid)
<1>6. r \in RegionType
  <2>1. disk[q].region.start \in Int /\ End(staging[a.sid].region) \in Int
    BY <1>5 DEF Regioned, RegionType, End
  <2> QED BY <2>1, RegionTyped
<1>7. disk[q] = [type |-> disk[q].type, number |-> disk[q].number, region |-> disk[q].region]
  BY <1>5, DiskTyped DEF OnDisk
<1>8. DOMAIN u = DOMAIN disk /\ \A x \in DOMAIN disk : u[x].region = IF x = q THEN r ELSE disk[x].region
  BY <1>5, <1>7 DEF Resized
<1> HIDE DEF r, u
<1>9. Regioned(u)
  BY <1>5, <1>6, <1>8 DEF Regioned
<1>10. Placed(pt, u)
  BY <1>1, <1>9, FitsPlaced DEF u
<1> QED BY <1>1, <1>10, CommitGeometry DEF u

\* Likewise what is created.
LEMMA CreateGeometry ==
  ASSUME IInv, JInv, Geometry, NEW a \in Ready, CommitCreate(a)
  PROVE  Geometry'
<1>1. PICK u \in Created(a.sid) : Fits(pt, u) /\ Commit(a, u, swapped, fstab)
  BY DEF CommitCreate
<1>2. a.op = "create" /\ phase = "commit"
  BY <1>1 DEF CommitCreate, Commit
<1>3. Edited /\ a.sid \in DOMAIN staging
  BY <1>2, LowerCreated DEF JInv, Come
<1>4. Regioned(disk) /\ staging[a.sid].region \in RegionType
  BY <1>3, DiskTyped DEF Regioned, Edited, Partition, RegionType
<1>5. PICK S \in SUBSET DOMAIN disk, number \in NextNumbers(staging[a.sid].type, Cardinality(TemporaryNumbers(a.sid))) :
        u = [q \in S \cup {a.sid} |->
               IF q = a.sid THEN [type |-> staging[a.sid].type, number |-> number, region |-> staging[a.sid].region]
                            ELSE disk[q]]
  BY <1>1 DEF Created
<1>6. /\ DOMAIN u \subseteq DOMAIN disk \cup {a.sid}
      /\ \A x \in DOMAIN u : u[x].region = IF x = a.sid THEN staging[x].region ELSE disk[x].region
  BY <1>5
<1>7. Regioned(u)
  BY <1>4, <1>6 DEF Regioned
<1>8. Placed(pt, u)
  BY <1>1, <1>7, FitsPlaced
<1> QED BY <1>1, <1>8, CommitGeometry

\* An extended partition is deleted when it is empty.
LEMMA DeleteGeometry ==
  ASSUME IInv, JInv, Geometry, NEW a \in Ready, CommitDelete(a)
  PROVE  Geometry'
<1> DEFINE p == a.sid
           u == Rm(disk, p)
<1>1. /\ a.op = "delete" /\ phase = "commit"
      /\ \E q \in Named(a) :
           Commit(a, IF disk[q].type = "LOGICAL" THEN ShiftLogicals(Without(disk, Removed(disk, q)), disk[q].number)
                                                 ELSE Without(disk, Removed(disk, q)), swapped, fstab)
  BY DEF CommitDelete, Commit
<1>2. /\ p \in DOMAIN disk
      /\ Commit(a, IF disk[p].type = "LOGICAL" THEN ShiftLogicals(Without(disk, Removed(disk, p)), disk[p].number)
                                               ELSE Without(disk, Removed(disk, p)), swapped, fstab)
  BY <1>1, NamedRight
<1>3. Removed(disk, p) = {p}
  BY <1>1, RemovedAlone DEF JInv
<1>4. Commit(a, u, swapped, fstab)
  BY <1>2, <1>3 DEF Rm
<1>5. /\ Sound(pt, disk) /\ disk = OnDisk(disk) /\ Regioned(disk)
  BY DiskTyped DEF IInv, Regioned
<1>6. Renumbered(disk, p, u)
  BY <1>2, <1>5, RmRenumbers
<1> HIDE DEF u
<1>7. /\ DOMAIN u = DOMAIN disk \ {p}
      /\ \A q \in DOMAIN u : u[q].type = disk[q].type /\ u[q].region = disk[q].region
  BY <1>6 DEF Renumbered
<1>8. Regioned(u)
  BY <1>5, <1>7 DEF Regioned
<1>9. \A q \in DOMAIN u : u[q].region.length > 0 /\ u[q].region.length <= disk[q].region.length
  BY <1>5, <1>7 DEF Geometry, Placed, Regioned, RegionType
<1>10. ASSUME OfType(u, "LOGICAL") # {}, NEW e \in OfType(disk, "EXTENDED")
       PROVE  e \in DOMAIN u /\ u[e].region = disk[e].region
  <2>1. PICK q \in OfType(disk, "LOGICAL") : q # p
    BY <1>7, <1>10 DEF OfType
  <2>2. disk[p].type # "EXTENDED"
    BY <1>3, <2>1 DEF Removed
  <2>3. e \in DOMAIN u
    BY <1>7, <2>2 DEF OfType
  <2> QED BY <1>7, <2>3
<1>11. Placed(pt, u)
  BY <1>5, <1>7, <1>8, <1>9, <1>10, PrefixPlaced DEF Geometry
<1> QED BY <1>4, <1>11, CommitGeometry

\* Probing finds what is on disk.
LEMMA ProbeGeometry ==
  ASSUME IInv, JInv, Geometry, Probe
  PROVE  Geometry'
<1>1. /\ phase' = "edit" /\ system' = staging' /\ disk' = disk /\ pt' = pt
      /\ DOMAIN system' = DOMAIN disk
      /\ \A q \in DOMAIN disk : system'[q].type = disk[q].type /\ system'[q].region = disk[q].region
  BY DEF Probe
<1>2. Regioned(disk)
  BY DiskTyped DEF Regioned
<1>3. Placed(pt, system')
  BY <1>1, <1>2, SamePlaced DEF Geometry
<1>4. ExtendedKept(system, staging)'
  BY <1>1 DEF ExtendedKept
<1> QED BY <1>1, <1>3, <1>4 DEF Geometry

\* Every step keeps what is apart.
LEMMA StepGeometry == IInv /\ JInv /\ Geometry /\ [Next]_vars => Geometry'
<1> SUFFICES ASSUME IInv, JInv, Geometry, [Next]_vars PROVE Geometry'
  OBVIOUS
<1>1. CASE UNCHANGED vars
  <2>1. UNCHANGED <<pt, disk, system, staging, phase, todo>>
    BY <1>1 DEF vars
  <2> QED BY <2>1 DEF Geometry, ExtendedKept, OfType, Pending, Act, Stay
<1>2. ASSUME NEW a \in Ready,
             CommitRename(a) \/ CommitAddFstab(a) \/ CommitRemoveFstab(a) \/ CommitUnmount(a)
      PROVE  Geometry'
  <2>1. \E w, f : Commit(a, disk, w, f)
    BY <1>2 DEF CommitRename, CommitAddFstab, CommitRemoveFstab, CommitUnmount
  <2> QED BY <2>1, CommitGeometry DEF Geometry
<1> QED BY <1>1, <1>2, EditGeometry, ActiongraphGeometry, ResizeGeometry, CreateGeometry, DeleteGeometry,
           ProbeGeometry DEF Next

\* Regions are apart in every state.
LEMMA AheadGeometry == Spec => [](IInv /\ JInv /\ Geometry)
BY InitGeometry, StepGeometry, Ahead, PTL DEF Spec

\* The regions and types of a table, without its numbers, that shrink to those of
\* another: parted accepts them.
LEMMA PrefixFits ==
  ASSUME NEW type, NEW t, NEW u, Regioned(t), Regioned(u), Placed(type, t), DOMAIN u \subseteq DOMAIN t,
         \A q \in DOMAIN u : /\ u[q].type = t[q].type /\ u[q].region.start = t[q].region.start
                             /\ u[q].region.length > 0 /\ u[q].region.length <= t[q].region.length,
         OfType(u, "LOGICAL") # {} =>
           \A e \in OfType(t, "EXTENDED") : e \in DOMAIN u /\ u[e].region = t[e].region
  PROVE  Fits(type, u)
BY PrefixPlaced, FitsPlaced

\* What a command that resizes leaves on disk.
LEMMA ResizedRegions ==
  ASSUME IInv, JInv, phase = "commit", NEW a \in Ready, a.op \in {"shrink", "grow"}
  PROVE  LET u == Resized(a.sid, a.sid)
         IN  /\ a.sid \in DOMAIN disk /\ a.sid \in Stay
             /\ DOMAIN u = DOMAIN disk /\ Regioned(u)
             /\ \A q \in DOMAIN disk : /\ u[q].type = disk[q].type
                                       /\ u[q].region = IF q = a.sid THEN staging[q].region ELSE disk[q].region
<1> DEFINE p == a.sid
           u == Resized(p, p)
<1>1. Edited /\ todo \subseteq Actions(system, staging) /\ DiskAhead
  BY DEF JInv
<1>2. p \in DOMAIN disk
  BY NamedRight
<1>3. p \in Stay /\ p \in Pending(a.op)
  BY <1>1, ReadyOrder, PendingSorts
<1>4. /\ disk[p].region = system[p].region /\ staging[p] \in Partition
      /\ staging[p].region.start = system[p].region.start
  BY <1>1, <1>3 DEF DiskAhead, Edited, Stay
<1>5. Region(disk[p].region.start, End(staging[p].region)) = staging[p].region
  BY <1>4 DEF Region, End, Partition
<1>6. \A q \in DOMAIN disk : disk[q] = [type |-> disk[q].type, number |-> disk[q].number, region |-> disk[q].region]
  BY <1>1 DEF DiskAhead, OnDisk
<1>7. /\ DOMAIN u = DOMAIN disk
      /\ \A q \in DOMAIN disk : u[q] = [type |-> disk[q].type, number |-> disk[q].number,
                                        region |-> IF q = p THEN staging[p].region ELSE disk[q].region]
  BY <1>2, <1>5, <1>6 DEF Resized
<1> HIDE DEF u
<1>8. Regioned(u)
  BY <1>4, <1>7, DiskTyped DEF Regioned, Partition, RegionType
<1>9. \A q \in DOMAIN disk : /\ u[q].type = disk[q].type
                             /\ u[q].region = IF q = p THEN staging[q].region ELSE disk[q].region
  BY <1>7
<1> QED BY <1>2, <1>3, <1>7, <1>8, <1>9 DEF u

\* While partitions shrink, none on disk is longer than in the system.
LEMMA ShrinkFits ==
  ASSUME IInv, JInv, Geometry, phase = "commit", NEW a \in Ready, a.op = "shrink"
  PROVE  Fits(pt, Resized(a.sid, a.sid))
<1> DEFINE p == a.sid
           u == Resized(p, p)
<1>1. Edited /\ todo \subseteq Actions(system, staging) /\ DiskAhead
  BY DEF JInv
<1>2. /\ p \in Stay /\ p \in DOMAIN disk /\ DOMAIN u = DOMAIN disk /\ Regioned(u)
      /\ \A q \in DOMAIN disk : /\ u[q].type = disk[q].type
                                /\ u[q].region = IF q = p THEN staging[q].region ELSE disk[q].region
  BY ResizedRegions
<1> HIDE DEF u
<1>3. p \in Pending("shrink")
  BY <1>1, ReadyOrder, PendingSorts
<1>4. DOMAIN disk = DOMAIN system
  <2>1. Gone = {} /\ Made = {}
    BY <1>1, <1>3 DEF DiskAhead
  <2>2. Pending("delete") = Go
    BY <1>1, <2>1, PendingSorts DEF Gone
  <2> QED BY <1>1, <2>1, <2>2 DEF DiskAhead, Stay, Go
<1>5. ASSUME NEW q \in DOMAIN system
      PROVE  /\ u[q].type = system[q].type /\ u[q].region.start = system[q].region.start
             /\ u[q].region.length > 0 /\ u[q].region.length <= system[q].region.length
  <2>1. u[q].type = system[q].type
    BY <1>1, <1>2, <1>4 DEF DiskAhead, Follows
  <2>2. system[q].region \in RegionType /\ system[q].region.length > 0
    BY <1>1 DEF Edited, Partition, RegionType, Geometry, Placed
  <2>3. CASE u[q].region = system[q].region
    BY <2>1, <2>2, <2>3 DEF RegionType
  <2>4. CASE u[q].region # system[q].region
    <3>1. q \in Stay
      <4>1. q \in Stay \/ q \in Pending("delete")
        BY <1>1, <1>4, PendingSorts DEF Stay, Go, DiskAhead, Made, Come
      <4> QED BY <1>1, <1>2, <1>4, <2>4, <4>1 DEF DiskAhead, Stay
    <3>2. u[q].region = staging[q].region
      BY <1>1, <1>2, <1>4, <2>4, <3>1 DEF DiskAhead
    <3>3. /\ staging[q].region \in RegionType /\ staging[q].region.length > 0
          /\ staging[q].region.start = system[q].region.start
      BY <1>1, <3>1 DEF Edited, Stay, Partition, RegionType, Geometry, Placed
    <3>4. ~ staging[q].region.length > system[q].region.length
      <4>1. SUFFICES ASSUME staging[q].region.length > system[q].region.length PROVE FALSE
        OBVIOUS
      <4>2. q \in Pending("grow")
        BY <1>3, <3>1, <4>1 DEF Geometry
      <4>3. q # p
        BY <1>1, <1>3, <2>2, <3>3, <4>1, PendingSorts DEF RegionType
      <4>4. u[q].region = system[q].region
        BY <1>1, <1>2, <1>4, <3>1, <4>2, <4>3 DEF DiskAhead
      <4> QED BY <2>4, <4>4
    <3> QED BY <2>1, <2>2, <3>2, <3>3, <3>4 DEF RegionType
  <2> QED BY <2>3, <2>4
<1>6. ASSUME NEW e \in OfType(system, "EXTENDED")
      PROVE  e \in DOMAIN u /\ u[e].region = system[e].region
  <2>1. e \in DOMAIN system /\ e \in DOMAIN u
    BY <1>2, <1>4 DEF OfType
  <2>2. e \in Stay => staging[e].region = system[e].region
    BY DEF Geometry, ExtendedKept, Stay
  <2>3. e \in Stay \/ e \in Pending("delete")
    BY <1>1, <1>4, <2>1 DEF DiskAhead, Made, Come
  <2>4. e \in Stay => disk[e].region = system[e].region
    BY <1>1, <2>2 DEF DiskAhead
  <2>5. e \in Pending("delete") => disk[e].region = system[e].region
    BY <1>1 DEF DiskAhead
  <2> QED BY <1>2, <2>1, <2>2, <2>3, <2>4, <2>5
<1>7. Regioned(system) /\ Placed(pt, system)
  BY <1>1 DEF Edited, Regioned, Partition, RegionType, Geometry
<1>8. Fits(pt, u)
  BY <1>2, <1>4, <1>5, <1>6, <1>7, PrefixFits
<1> QED BY <1>8 DEF u

\* When all are created, none on disk is longer than in staging.
LEMMA GrowFits ==
  ASSUME IInv, JInv, Geometry, phase = "commit", NEW a \in Ready, a.op = "grow"
  PROVE  Fits(pt, Resized(a.sid, a.sid))
<1> DEFINE p == a.sid
           u == Resized(p, p)
<1>1. Edited /\ todo \subseteq Actions(system, staging) /\ DiskAhead
  BY DEF JInv
<1>2. /\ p \in Stay /\ p \in DOMAIN disk /\ DOMAIN u = DOMAIN disk /\ Regioned(u)
      /\ \A q \in DOMAIN disk : /\ u[q].type = disk[q].type
                                /\ u[q].region = IF q = p THEN staging[q].region ELSE disk[q].region
  BY ResizedRegions
<1> HIDE DEF u
<1>3. Pending("shrink") = {} /\ Pending("delete") = {} /\ Pending("create") = {}
  BY <1>1, ReadyOrder
<1>4. DOMAIN disk = DOMAIN staging /\ Made = Come
  BY <1>1, <1>3 DEF DiskAhead, Stay, Made, Come
<1>5. ASSUME NEW q \in DOMAIN staging
      PROVE  /\ u[q].type = staging[q].type /\ u[q].region.start = staging[q].region.start
             /\ u[q].region.length > 0 /\ u[q].region.length <= staging[q].region.length
  <2>1. u[q].type = staging[q].type
    BY <1>1, <1>2, <1>3, <1>4, StagingNumber
  <2>2. staging[q].region \in RegionType /\ staging[q].region.length > 0
    BY <1>1 DEF Edited, Partition, RegionType, Geometry, Placed
  <2>3. CASE u[q].region = staging[q].region
    BY <2>1, <2>2, <2>3 DEF RegionType
  <2>4. CASE u[q].region # staging[q].region
    <3>1. q \in Stay
      BY <1>1, <1>2, <1>4, <2>4 DEF DiskAhead, Stay, Come
    <3>2. q \in Pending("grow") /\ u[q].region = system[q].region
      BY <1>1, <1>2, <1>3, <1>4, <2>4, <3>1 DEF DiskAhead
    <3>3. /\ system[q].region \in RegionType /\ system[q].region.length > 0
          /\ staging[q].region.start = system[q].region.start
          /\ staging[q].region.length > system[q].region.length
      BY <1>1, <3>1, <3>2, PendingSorts DEF Edited, Stay, Partition, RegionType, Geometry, Placed
    <3> QED BY <2>1, <2>2, <3>2, <3>3 DEF RegionType
  <2> QED BY <2>3, <2>4
<1>6. ASSUME NEW e \in OfType(staging, "EXTENDED")
      PROVE  e \in DOMAIN u /\ u[e].region = staging[e].region
  <2>1. e \in DOMAIN staging /\ e \in DOMAIN u /\ staging[e].type = "EXTENDED"
    BY <1>2, <1>4 DEF OfType
  <2>2. CASE e \in Come
    BY <1>1, <1>2, <1>4, <2>1, <2>2 DEF DiskAhead
  <2>3. CASE e \in Stay
    <3>1. e \in OfType(system, "EXTENDED")
      BY <1>1, <2>1, <2>3 DEF Edited, Follows, Stay, OfType
    <3>2. staging[e].region = system[e].region
      BY <2>1, <3>1 DEF Geometry, ExtendedKept
    <3> QED BY <1>1, <1>2, <1>4, <2>1, <2>3, <3>2 DEF DiskAhead
  <2> QED BY <2>1, <2>2, <2>3 DEF Come, Stay
<1>7. Regioned(staging) /\ Placed(pt, staging)
  BY <1>1 DEF Edited, Regioned, Partition, RegionType, Geometry
<1>8. Fits(pt, u)
  BY <1>2, <1>4, <1>5, <1>6, <1>7, PrefixFits
<1> QED BY <1>8 DEF u

\* When all that is to go is gone, there is room for what comes, and a logical partition
\* comes after the extended one.
LEMMA CreateFits ==
  ASSUME IInv, JInv, Geometry, phase = "commit", NEW a \in Ready, a.op = "create"
  PROVE  \E u \in Created(a.sid) : Fits(pt, u)
<1> DEFINE p == a.sid
           u == [q \in DOMAIN disk \cup {p} |->
                   IF q = p THEN [type |-> staging[p].type, number |-> staging[p].number, region |-> staging[p].region]
                            ELSE disk[q]]
<1>1. Edited /\ todo \subseteq Actions(system, staging) /\ DiskAhead
  BY DEF JInv
<1>2. /\ p \in Come /\ p \notin DOMAIN disk /\ Pending("delete") = {} /\ p \in DOMAIN staging
      /\ \A q \in DOMAIN disk : q \in DOMAIN staging /\ disk[q].type = staging[q].type
      /\ \A q \in DOMAIN staging : staging[q].number < staging[p].number => q \in DOMAIN disk
  BY LowerCreated DEF Come
<1>3. Pending("shrink") = {}
  BY <1>1, ReadyOrder
<1>4. u \in Created(p)
  <2> HIDE DEF u
  <2>1. {q \in DOMAIN disk : disk[q].number \notin TemporaryNumbers(p)} = DOMAIN disk
    BY CreatedNumber
  <2>2. staging[p].number \in NextNumbers(staging[p].type, Cardinality(TemporaryNumbers(p)))
    BY CreatedNumber
  <2>3. u = [q \in {q \in DOMAIN disk : disk[q].number \notin TemporaryNumbers(p)} \cup {p} |->
               IF q = p THEN [type |-> staging[p].type, number |-> staging[p].number, region |-> staging[p].region]
                        ELSE disk[q]]
    BY <2>1 DEF u
  <2> QED BY <2>2, <2>3 DEF Created
<1>5. /\ DOMAIN u = DOMAIN disk \cup {p} /\ u[p].type = staging[p].type /\ u[p].region = staging[p].region
      /\ \A q \in DOMAIN disk : u[q] = disk[q]
  BY <1>2
<1> HIDE DEF u
<1>6. DOMAIN u \subseteq DOMAIN staging
  BY <1>2, <1>5
<1>7. ASSUME NEW q \in DOMAIN u
      PROVE  /\ u[q].type = staging[q].type /\ u[q].region.start = staging[q].region.start
             /\ u[q].region \in RegionType
             /\ u[q].region.length > 0 /\ u[q].region.length <= staging[q].region.length
  <2>1. u[q].type = staging[q].type /\ q \in DOMAIN staging
    BY <1>2, <1>5
  <2>2. staging[q].region \in RegionType /\ staging[q].region.length > 0
    BY <1>1, <2>1 DEF Edited, Partition, RegionType, Geometry, Placed
  <2>3. CASE u[q].region = staging[q].region
    BY <2>1, <2>2, <2>3 DEF RegionType
  <2>4. CASE u[q].region # staging[q].region
    <3>1. q \in DOMAIN disk /\ q # p
      BY <1>5, <2>4
    <3>2. q \in Stay
      BY <1>1, <1>2, <1>5, <2>4, <3>1 DEF DiskAhead
    <3>3. q \in Pending("grow") /\ u[q].region = system[q].region
      BY <1>1, <1>3, <1>5, <2>4, <3>1, <3>2 DEF DiskAhead
    <3>4. /\ system[q].region \in RegionType /\ system[q].region.length > 0
          /\ staging[q].region.start = system[q].region.start
          /\ staging[q].region.length > system[q].region.length
      BY <1>1, <3>2, <3>3, PendingSorts DEF Edited, Stay, Partition, RegionType, Geometry, Placed
    <3> QED BY <2>1, <2>2, <3>3, <3>4 DEF RegionType
  <2> QED BY <2>3, <2>4
<1>8. ASSUME NEW x \in OfType(u, "LOGICAL"), NEW e \in OfType(staging, "EXTENDED")
      PROVE  e \in DOMAIN u /\ u[e].region = staging[e].region
  <2>1. e \in DOMAIN staging /\ staging[e].type = "EXTENDED" /\ x \in DOMAIN u /\ u[x].type = "LOGICAL"
    BY DEF OfType
  <2>2. e \in DOMAIN u
    <3>1. CASE x = p
      <4>1. p \in OfType(staging, "LOGICAL")
        BY <1>2, <1>5, <2>1, <3>1 DEF OfType
      <4>2. staging[e].number < staging[p].number
        BY <2>1, <4>1, PrimariesFirst DEF IInv
      <4> QED BY <1>2, <1>5, <2>1, <4>2
    <3>2. CASE x # p
      <4>1. x \in OfType(disk, "LOGICAL")
        BY <1>5, <2>1, <3>2 DEF OfType
      <4>2. PICK d \in OfType(disk, "EXTENDED") : TRUE
        BY <4>1 DEF Geometry, Placed
      <4>3. d \in OfType(staging, "EXTENDED") /\ d \in DOMAIN disk
        BY <1>2, <4>2 DEF OfType
      <4>4. d = e
        BY <4>3 DEF Geometry, Placed
      <4> QED BY <1>5, <4>3, <4>4
    <3> QED BY <3>1, <3>2
  <2>3. CASE e = p
    BY <1>5, <2>2, <2>3
  <2>4. CASE e # p
    <3>1. e \in DOMAIN disk /\ u[e] = disk[e]
      BY <1>5, <2>2, <2>4
    <3>2. CASE e \in Stay
      <4>1. e \in OfType(system, "EXTENDED")
        BY <1>1, <2>1, <3>2 DEF Edited, Follows, Stay, OfType
      <4>2. staging[e].region = system[e].region
        BY <2>1, <4>1 DEF Geometry, ExtendedKept
      <4> QED BY <1>1, <2>2, <3>1, <3>2, <4>2 DEF DiskAhead
    <3>3. CASE e \notin Stay
      <4>1. e \in Made
        BY <1>1, <1>2, <3>1, <3>3 DEF DiskAhead
      <4> QED BY <1>1, <2>2, <3>1, <4>1 DEF DiskAhead
    <3> QED BY <3>2, <3>3
  <2> QED BY <2>2, <2>3, <2>4
<1>9. Regioned(staging) /\ Placed(pt, staging) /\ Regioned(u)
  BY <1>1, <1>7 DEF Edited, Regioned, Partition, RegionType, Geometry
<1>10. Fits(pt, u)
  BY <1>6, <1>7, <1>8, <1>9, PrefixFits
<1> QED BY <1>4, <1>10

\* Every command of a commit names the partition it is meant for and parted can do it,
\* in every order of the actions and however much of the commit is done.
THEOREM CommandsAccepted == Spec => []RightPartition
<1>1. ASSUME IInv, JInv, Geometry PROVE RightPartition
  <2> SUFFICES ASSUME phase = "commit", NEW a \in Ready
               PROVE  /\ a.op \in {"delete", "shrink", "grow", "unmount"} => Named(a) = {a.sid}
                      /\ a.op \in {"shrink", "grow"} => Fits(pt, Resized(a.sid, a.sid))
                      /\ a.op = "create" => CreationOK(a.sid) \/ TooSmall(a.sid)
    BY DEF RightPartition
  <2> QED BY <1>1, NamedRight, ShrinkFits, GrowFits, CreateFits DEF CreationOK
<1>2. IInv /\ JInv /\ Geometry => RightPartition
  BY <1>1
<1> QED BY <1>2, AheadGeometry, PTL

-----------------------------------------------------------------------------
(* Slots: all the free space, and nothing else                             *)

\* Free sectors, at least two, are in a gap that is reported.
LEMMA UnusedFound ==
  ASSUME NEW region \in RegionType, NEW used \in SUBSET RegionType, IsFiniteSet(used),
         NEW a \in Int, NEW b \in Int, a < b, region.start <= a, b <= End(region),
         \A u \in used : End(u) < a \/ b < u.start
  PROVE  \E r \in UnusedRegions(region, used) : r.start <= a /\ b <= End(r)
<1> DEFINE inside == {u \in used : End(u) >= region.start /\ u.start <= End(region)}
           behind(S) == Max({region.start} \cup {End(u) + 1 : u \in S})
           front(u) == {v \in inside : v.start < u.start}
           gaps == {Region(behind(front(u)), u.start - 1) : u \in inside}
           last == Region(behind(inside), End(region))
           beyond == {u \in inside : b < u.start}
<1>1. /\ region.start \in Int /\ End(region) \in Int
      /\ \A u \in used : u.start \in Int /\ u.length \in Int /\ End(u) = u.start + u.length - 1
  BY DEF RegionType, End
<1>2. ASSUME NEW S \in SUBSET used, \A u \in S : End(u) < a
      PROVE  behind(S) \in Int /\ behind(S) <= a
  <2> DEFINE E == {End(u) + 1 : u \in S}
             f == [u \in S |-> End(u) + 1]
  <2>1. IsFiniteSet(S)
    BY <1>2, FS_Subset
  <2>2. f \in Surjection(S, E)
    BY DEF Surjection
  <2>3. IsFiniteSet(E)
    BY <2>1, <2>2, FS_Surjection
  <2>4. E \subseteq Int /\ \A e \in E : e <= a
    <3>1. \A u \in S : End(u) + 1 \in Int /\ End(u) + 1 <= a
      BY <1>1, <1>2
    <3> QED BY <3>1
  <2>5. behind(S) = Max({region.start} \cup E)
    OBVIOUS
  <2> HIDE DEF E, behind
  <2>6. IsFiniteSet({region.start} \cup E)
    <3>1. {region.start} \cup E = E \cup {region.start}
      OBVIOUS
    <3> QED BY <2>3, <3>1, FS_AddElement
  <2>7. {region.start} \cup E \in SUBSET Int /\ {region.start} \cup E # {}
    BY <1>1, <2>4
  <2>8. Max({region.start} \cup E) \in {region.start} \cup E
    BY <2>6, <2>7, GreatestInt
  <2> QED BY <1>1, <2>4, <2>5, <2>8
<1>3. UnusedRegions(region, used) = {r \in gaps : r.length > 0} \cup {r \in {last} : r.length > 1}
  BY DEF UnusedRegions
<1> HIDE DEF behind
<1>4. CASE beyond = {}
  <2>1. inside \in SUBSET used /\ \A u \in inside : End(u) < a
    BY <1>4
  <2>2. behind(inside) \in Int /\ behind(inside) <= a
    BY <1>2, <2>1
  <2> HIDE DEF inside
  <2>3. last.start = behind(inside) /\ End(last) = End(region) /\ last.length = End(region) - behind(inside) + 1
    BY <1>1, <2>2, RegionTyped DEF Region
  <2> HIDE DEF last
  <2>4. last.length > 1 /\ last.start <= a /\ b <= End(last)
    BY <1>1, <2>2, <2>3
  <2> QED BY <1>3, <2>4
<1>5. CASE beyond # {}
  <2> DEFINE B == {u.start : u \in beyond}
             f == [u \in beyond |-> u.start]
  <2>1. B \in SUBSET Int /\ B # {}
    BY <1>1, <1>5
  <2>2. IsFiniteSet(B)
    <3>1. beyond \in SUBSET used
      OBVIOUS
    <3>2. IsFiniteSet(beyond)
      <4> HIDE DEF beyond
      <4> QED BY <3>1, FS_Subset
    <3>3. f \in Surjection(beyond, B)
      BY DEF Surjection
    <3> QED BY <3>2, <3>3, FS_Surjection
  <2>3. PICK m \in B : \A y \in B : m <= y
    <3> HIDE DEF B
    <3> QED BY <2>1, <2>2, LeastInt
  <2>4. PICK w \in beyond : w.start = m
    BY <2>3
  <2>5. w \in inside /\ w \in used /\ b < w.start /\ \A u \in beyond : w.start <= u.start
    BY <2>3, <2>4
  <2>6. ASSUME NEW u \in front(w) PROVE u \in used /\ End(u) < a
    <3>1. u \in inside /\ u \in used /\ u.start < w.start
      OBVIOUS
    <3>2. ~ b < u.start
      BY <1>1, <2>5, <3>1
    <3> QED BY <3>1, <3>2
  <2>7. behind(front(w)) \in Int /\ behind(front(w)) <= a
    BY <1>2, <2>6
  <2> DEFINE n == behind(front(w))
             r == Region(n, w.start - 1)
  <2>8. r \in gaps
    BY <2>5
  <2>9. n \in Int /\ n <= a /\ w.start \in Int
    BY <1>1, <2>5, <2>7
  <2> HIDE DEF n, gaps
  <2>10. r.start = n /\ End(r) = w.start - 1 /\ r.length = w.start - 1 - n + 1
    BY <2>9, RegionTyped DEF Region
  <2> HIDE DEF r
  <2>11. r.length > 0 /\ r.start <= a /\ b <= End(r)
    BY <2>5, <2>9, <2>10
  <2> QED BY <1>3, <2>8, <2>11
<1> QED BY <1>4, <1>5

\* Aligning a gap keeps the sectors that are aligned.
LEMMA KeepEndFound ==
  ASSUME NEW r \in RegionType, Offset <= r.start, End(r) <= DiskLength, NEW x \in Int,
         r.start <= x, x <= End(r), AlignStart(x) = x
  PROVE  \E s \in AlignKeepEnd(r) : x \in Sectors(s)
<1>1. /\ r.start \in Int /\ r.length \in Int /\ End(r) = r.start + r.length - 1
      /\ DiskLength \in Int /\ Offset \in Int
  BY GeometryAssumption DEF RegionType, End
<1> DEFINE a == AlignStart(r.start)
<1>2. x <= DiskLength /\ r.start <= DiskLength
  BY <1>1
<1>3. a \in Int /\ r.start <= a /\ a <= x
  BY <1>1, <1>2, AlignUp, AlignLeast
<1> HIDE DEF a
<1> DEFINE s == Region(a, End(r))
<1>4. s \in AlignKeepEnd(r)
  <2>1. ~ r.length <= a - r.start
    BY <1>1, <1>3
  <2> QED BY <2>1 DEF AlignKeepEnd, a
<1>5. s.start = a /\ End(s) = End(r)
  BY <1>1, <1>3, RegionTyped
<1> HIDE DEF s
<1>6. x \in Sectors(s)
  BY <1>1, <1>3, <1>5 DEF Sectors
<1> QED BY <1>4, <1>6

\* The sectors that partitions take.
Taken(t, S) == UNION {Sectors(t[p].region) : p \in S}

\* A slot for a primary or extended partition.
LEMMA PrimarySlotRight ==
  ASSUME NEW type, NEW t, Sound(type, t), Regioned(t), Placed(type, t), Offset <= UnusableFront(type),
         NEW s \in PrimarySlots(type, t)
  PROVE  /\ Sectors(s.region) \subseteq Sectors(UsableRegion(type)) \ Taken(t, DOMAIN t \ OfType(t, "LOGICAL"))
         /\ s.number \notin Numbers(t)
         /\ s.types # {} => s.number <= MaxPrimary(type)
<1>1. IsFiniteSet(DOMAIN t)
  BY DEF Sound
<1>2. /\ s.region \in RegionType /\ s.region.length > 0
      /\ UnusableFront(type) <= s.region.start /\ End(s.region) <= Last(type)
      /\ \A q \in DOMAIN t : t[q].type # "LOGICAL" =>
           End(t[q].region) < s.region.start \/ End(s.region) < t[q].region.start
  BY <1>1, PrimarySlotFree
<1>3. /\ s.region.start \in Int /\ End(s.region) \in Int /\ UnusableFront(type) \in Int /\ Last(type) \in Int
      /\ UsableRegion(type).start = UnusableFront(type) /\ End(UsableRegion(type)) = Last(type)
  BY <1>2, UsableType DEF RegionType, End
<1>4. ASSUME NEW x \in Sectors(s.region)
      PROVE  x \in Sectors(UsableRegion(type)) /\ x \notin Taken(t, DOMAIN t \ OfType(t, "LOGICAL"))
  <2>1. x \in Int /\ s.region.start <= x /\ x <= End(s.region)
    BY <1>3 DEF Sectors
  <2>2. x \in Sectors(UsableRegion(type))
    BY <1>2, <1>3, <2>1 DEF Sectors
  <2>3. ASSUME NEW q \in DOMAIN t \ OfType(t, "LOGICAL") PROVE x \notin Sectors(t[q].region)
    <3>1. t[q].region.start \in Int /\ End(t[q].region) \in Int /\ q \in DOMAIN t /\ t[q].type # "LOGICAL"
      BY DEF Regioned, RegionType, End, OfType
    <3>2. End(t[q].region) < s.region.start \/ End(s.region) < t[q].region.start
      BY <1>2, <3>1
    <3> QED BY <1>3, <2>1, <3>1, <3>2 DEF Sectors
  <2> QED BY <2>2, <2>3 DEF Taken
<1>5. s.number = FirstMissing(Numbers(t)) /\ (s.types # {} => PrimaryPossible(type, t))
  BY DEF PrimarySlots
<1>6. s.number \notin Numbers(t)
  <2> DEFINE k == MaxPrimary(type) + NumLogical(t) + 1
  <2>1. /\ IsFiniteSet(Numbers(t)) /\ k \in Nat \ {0}
        /\ MaxPrimary(type) + NumLogical(t) \in Int
        /\ \A n \in Numbers(t) : n \in Nat \ {0} /\ n <= MaxPrimary(type) + NumLogical(t)
    BY NumbersFinite, MaxPrimaryType
  <2>2. k \notin Numbers(t)
    BY <2>1
  <2> HIDE DEF k
  <2> QED BY <1>5, <2>1, <2>2, FirstMissingSound
<1>7. s.types # {} => s.number <= MaxPrimary(type)
  <2>1. MaxPrimary(type) \in Int
    BY MaxPrimaryType
  <2> QED BY <1>5, <2>1, PrimaryNumber
<1> QED BY <1>4, <1>6, <1>7

\* No free sector where a primary partition could start is missing.
LEMMA PrimarySlotsFound ==
  ASSUME NEW type, NEW t, Sound(type, t), Regioned(t), Placed(type, t), Offset <= UnusableFront(type),
         NEW x \in Sectors(UsableRegion(type)) \ Taken(t, DOMAIN t \ OfType(t, "LOGICAL")),
         x + 1 \in Sectors(UsableRegion(type)) \ Taken(t, DOMAIN t \ OfType(t, "LOGICAL")),
         AlignStart(x) = x
  PROVE  \E s \in PrimarySlots(type, t) : x \in Sectors(s.region)
<1> DEFINE P == DOMAIN t \ OfType(t, "LOGICAL")
           others == Regions(t, P)
           types == IF ~ PrimaryPossible(type, t) THEN {}
                    ELSE {"PRIMARY"} \cup IF type = "MSDOS" /\ ~ HasExtended(t) THEN {"EXTENDED"} ELSE {}
<1>1. others \in SUBSET RegionType /\ IsFiniteSet(others)
  <2>1. IsFiniteSet(P) /\ P \subseteq DOMAIN t
    BY FS_Subset DEF Sound
  <2> QED BY <2>1, RegionsFinite DEF Regions, Regioned
<1>2. /\ UsableRegion(type) \in RegionType /\ UsableRegion(type).start = UnusableFront(type)
      /\ End(UsableRegion(type)) = Last(type) /\ Last(type) \in Int /\ Last(type) < DiskLength
      /\ UnusableFront(type) \in Int /\ DiskLength \in Int /\ Offset \in Int
  BY UsableType, GeometryAssumption
<1>3. /\ x \in Int /\ UnusableFront(type) <= x /\ x + 1 <= Last(type)
  BY <1>2 DEF Sectors
<1>4. ASSUME NEW u \in others PROVE End(u) < x \/ x + 1 < u.start
  <2>1. PICK p \in P : u = t[p].region
    BY DEF Regions
  <2>2. u \in RegionType /\ u.length > 0
    BY <2>1 DEF Regioned, Placed
  <2>3. x \notin Sectors(u) /\ x + 1 \notin Sectors(u)
    BY <2>1 DEF Taken
  <2>4. u.start \in Int /\ End(u) \in Int /\ u.start <= End(u)
    BY <2>2 DEF RegionType, End
  <2> QED BY <1>3, <2>3, <2>4 DEF Sectors
<1> HIDE DEF others
<1>5. PICK r \in UnusedRegions(UsableRegion(type), others) : r.start <= x /\ x + 1 <= End(r)
  BY <1>1, <1>2, <1>3, <1>4, UnusedFound
<1>6. r \in RegionType /\ UnusableFront(type) <= r.start /\ End(r) <= Last(type)
  BY <1>1, <1>2, UnusedFree
<1>7. r.start \in Int /\ End(r) \in Int
  BY <1>6 DEF RegionType, End
<1>8. PICK y \in AlignKeepEnd(r) : x \in Sectors(y)
  <2>1. Offset <= r.start /\ End(r) <= DiskLength /\ r.start <= x /\ x <= End(r)
    BY <1>2, <1>3, <1>5, <1>6, <1>7
  <2> QED BY <1>3, <1>6, <2>1, KeepEndFound
<1>9. HasUsableRegion(type)
  <2>1. UnusableFront(type) < Last(type)
    BY <1>2, <1>3
  <2>2. UnusableBack(type) \in Int
    BY UsableType
  <2> QED BY <1>2, <2>1, <2>2 DEF HasUsableRegion, Last
<1> DEFINE s == [region |-> y, number |-> FirstMissing(Numbers(t)), types |-> types]
<1>10. PrimarySlots(type, t) =
         [region : UNION {AlignKeepEnd(z) : z \in UnusedRegions(UsableRegion(type), others)},
          number : {FirstMissing(Numbers(t))}, types : {types}]
  BY <1>9 DEF PrimarySlots, others
<1> HIDE DEF types
<1>11. s \in PrimarySlots(type, t)
  BY <1>5, <1>8, <1>10
<1> QED BY <1>8, <1>11

\* A slot for a logical partition.  There is one if a disk has more than five device
\* nodes; otherwise max_logical() - max_primary() wraps.
LEMMA LogicalSlotRight ==
  ASSUME NEW type, NEW t, Sound(type, t), Regioned(t), Placed(type, t), DeviceRange > 5, Word > 256,
         NEW s \in LogicalSlots(type, t)
  PROVE  LET outer == Sectors(t[Extended(t)].region)
         IN  /\ (s.region.start - NumEbrs .. End(s.region) + NumEbrs) \cap outer
                  \subseteq outer \ Taken(t, OfType(t, "LOGICAL"))
             /\ s.region.start - NumEbrs \in outer
             /\ s.number \notin Numbers(t)
             /\ s.types # {} => s.number <= MaxLogical(type)
<1> DEFINE E == Extended(t)
           ext == t[E].region
<1>1. HasExtended(t) /\ s.number = MaxPrimary(type) + NumLogical(t) + 1
      /\ (s.types # {} => LogicalPossible(type, t))
  BY DEF LogicalSlots
<1>2. /\ E \in OfType(t, "EXTENDED") /\ E \in DOMAIN t /\ t[E].type = "EXTENDED"
      /\ \A e \in OfType(t, "EXTENDED") : e = E
  BY <1>1 DEF HasExtended, Extended, OfType, Placed
<1>3. /\ ext.start \in Int /\ End(ext) \in Int /\ NumEbrs \in Nat
  BY <1>2, GeometryAssumption DEF Regioned, RegionType, End
<1>4. IsFiniteSet(DOMAIN t)
  BY DEF Sound
<1>5. /\ s.region \in RegionType /\ s.region.length > 0
      /\ \A q \in OfType(t, "LOGICAL") :
           \/ End(t[q].region) < s.region.start - NumEbrs
           \/ End(s.region) + NumEbrs < t[q].region.start
  BY <1>4, LogicalSlotFree
<1>6. ext.start <= s.region.start - NumEbrs /\ End(s.region) <= End(ext)
  BY <1>2, <1>4, LogicalSlotFree
<1>7. s.region.start \in Int /\ End(s.region) \in Int /\ s.region.start <= End(s.region)
  BY <1>5 DEF RegionType, End
<1>8. s.region.start - NumEbrs \in Sectors(ext)
  BY <1>3, <1>6, <1>7 DEF Sectors
<1>9. ASSUME NEW x \in s.region.start - NumEbrs .. End(s.region) + NumEbrs
      PROVE  x \notin Taken(t, OfType(t, "LOGICAL"))
  <2>1. ASSUME NEW q \in OfType(t, "LOGICAL") PROVE x \notin Sectors(t[q].region)
    <3>1. t[q].region.start \in Int /\ End(t[q].region) \in Int
      BY DEF Regioned, RegionType, End, OfType
    <3>2. x \in Int /\ s.region.start - NumEbrs <= x /\ x <= End(s.region) + NumEbrs
      BY <1>3, <1>7
    <3>3. End(t[q].region) < s.region.start - NumEbrs \/ End(s.region) + NumEbrs < t[q].region.start
      BY <1>5
    <3> QED BY <1>3, <1>7, <3>1, <3>2, <3>3 DEF Sectors
  <2> QED BY <2>1 DEF Taken
<1>10. s.number \notin Numbers(t)
  <2>1. MaxPrimary(type) + NumLogical(t) \in Int
    BY NumbersFinite, MaxPrimaryType
  <2> QED BY <1>1, <2>1, NumbersFinite
<1>11. s.types # {} => s.number <= MaxLogical(type)
  <2>1. type = "MSDOS" /\ MaxPrimary(type) = 4
    <3>1. type = "MSDOS"
      BY <1>2 DEF Sound
    <3> QED BY <3>1, MaxPrimaryType, GeometryAssumption
  <2>2. Min({256, DeviceRange}) \in {256, DeviceRange} /\ Min({256, DeviceRange}) <= 256 /\ DeviceRange \in Int
    <3>1. DeviceRange \in Int /\ 256 \in Int
      BY GeometryAssumption
    <3> QED BY <3>1, MinOfTwo
  <2>3. MaxLogical(type) = Min({256, DeviceRange}) - 1 /\ Min({256, DeviceRange}) \in 6 .. 256
    BY <2>1, <2>2 DEF MaxLogical
  <2>4. LogicalRoom(type) = MaxLogical(type) - 4
    <3>1. MaxLogical(type) - 4 \in 0 .. Word - 1 /\ Word \in Nat \ {0}
      BY <2>3, GeometryAssumption
    <3> QED BY <2>1, <3>1, Remainder DEF LogicalRoom
  <2>5. NumLogical(t) \in Int
    BY NumbersFinite
  <2> QED BY <1>1, <2>1, <2>3, <2>4, <2>5 DEF LogicalPossible
<1> QED BY <1>8, <1>9, <1>10, <1>11

\* No free sector where a logical partition could start, with room for the EBRs in front
\* and behind, is missing.
LEMMA LogicalSlotsFound ==
  ASSUME NEW type, NEW t, Sound(type, t), Regioned(t), Placed(type, t), HasExtended(t), NEW x,
         AlignStart(x) = x,
         x \in Sectors(t[Extended(t)].region), x + 1 \in Sectors(t[Extended(t)].region),
         x - NumEbrs .. x \subseteq Sectors(t[Extended(t)].region) \ Taken(t, OfType(t, "LOGICAL")),
         x + 1 \notin Taken(t, OfType(t, "LOGICAL")),
         (x + 1 .. x + 1 + NumEbrs) \cap Sectors(t[Extended(t)].region)
           \subseteq Sectors(t[Extended(t)].region) \ Taken(t, OfType(t, "LOGICAL"))
  PROVE  \E s \in LogicalSlots(type, t) : x \in Sectors(s.region)
<1> DEFINE E == Extended(t)
           ext == t[E].region
           L == OfType(t, "LOGICAL")
           used == Regions(t, L)
           n == NumEbrs
           ebrs(r) == NumEbrs * IF End(r) = End(ext) THEN 1 ELSE 2
           adjusted(r) == [start |-> r.start + NumEbrs, length |-> r.length - ebrs(r)]
           types == IF LogicalPossible(type, t) THEN {"LOGICAL"} ELSE {}
           number == MaxPrimary(type) + NumLogical(t) + 1
<1>1. E \in OfType(t, "EXTENDED") /\ E \in DOMAIN t
  BY DEF HasExtended, Extended, OfType
<1>2. /\ ext \in RegionType /\ First(type) <= ext.start /\ End(ext) <= Last(type)
      /\ ext.start \in Int /\ End(ext) \in Int
  BY <1>1 DEF Regioned, Placed, RegionType, End
<1>3. /\ First(type) \in Nat \ {0} /\ Last(type) \in Int /\ Last(type) < DiskLength
      /\ DiskLength \in Int /\ Offset \in Int /\ n \in Nat \ {0} /\ Offset <= n
  BY UsableType, GeometryAssumption, AlignmentAssumption
<1>4. used \in SUBSET RegionType /\ IsFiniteSet(used)
  <2>1. L \subseteq DOMAIN t
    BY DEF OfType
  <2>2. IsFiniteSet(L)
    BY <2>1, FS_Subset DEF Sound
  <2> QED BY <2>1, <2>2, RegionsFinite DEF Regions, Regioned
<1>5. x \in Int /\ ext.start <= x /\ x + 1 <= End(ext)
  BY <1>2 DEF Sectors
<1> DEFINE a == x - n
           b == IF x + 1 + n <= End(ext) THEN x + 1 + n ELSE End(ext)
<1>6. a \in Int /\ b \in Int /\ a < b /\ ext.start <= a /\ b <= End(ext) /\ x + 1 <= b /\ a <= x
  <2>1. x - NumEbrs \in x - NumEbrs .. x
    BY <1>3, <1>5
  <2>2. ext.start <= a
    BY <1>2, <1>3, <1>5, <2>1 DEF Sectors
  <2> QED BY <1>2, <1>3, <1>5, <2>2
<1>7. ASSUME NEW y \in a .. b PROVE y \notin Taken(t, L)
  <2>1. CASE y <= x
    <3>1. y \in x - NumEbrs .. x
      BY <1>3, <1>5, <1>6, <2>1
    <3> QED BY <3>1
  <2>2. CASE ~ y <= x
    <3>1. y \in (x + 1 .. x + 1 + NumEbrs) \cap Sectors(ext)
      BY <1>2, <1>3, <1>5, <1>6, <2>2 DEF Sectors
    <3> QED BY <3>1
  <2> QED BY <2>1, <2>2
<1> HIDE DEF a, b
<1>8. ASSUME NEW u \in used PROVE End(u) < a \/ b < u.start
  <2>1. PICK p \in L : u = t[p].region
    BY DEF Regions
  <2>2. u \in RegionType /\ u.length > 0
    BY <2>1 DEF Regioned, Placed, OfType
  <2>3. u.start \in Int /\ End(u) \in Int /\ u.start <= End(u)
    BY <2>2 DEF RegionType, End
  <2>4. \A y \in a .. b : y \notin Sectors(u)
    BY <1>7, <2>1 DEF Taken
  <2>5. SUFFICES ASSUME ~ End(u) < a, ~ b < u.start PROVE FALSE
    OBVIOUS
  <2>6. CASE a <= u.start
    <3>1. u.start \in a .. b /\ u.start \in Sectors(u)
      BY <1>6, <2>3, <2>5, <2>6 DEF Sectors
    <3> QED BY <2>4, <3>1
  <2>7. CASE ~ a <= u.start
    <3>1. a \in a .. b /\ a \in Sectors(u)
      BY <1>6, <2>3, <2>5, <2>7 DEF Sectors
    <3> QED BY <2>4, <3>1
  <2> QED BY <2>6, <2>7
<1> HIDE DEF used, ext, L, E
<1>9. PICK r \in UnusedRegions(ext, used) : r.start <= a /\ b <= End(r)
  BY <1>2, <1>4, <1>6, <1>8, UnusedFound
<1>10. r \in RegionType /\ ext.start <= r.start /\ End(r) <= End(ext)
  BY <1>2, <1>4, UnusedFree
<1>11. r.start \in Int /\ r.length \in Int /\ End(r) \in Int /\ End(r) = r.start + r.length - 1
  BY <1>10 DEF RegionType, End
<1>12. ebrs(r) = IF End(r) = End(ext) THEN n ELSE n + n
  BY <1>3
<1> DEFINE z == adjusted(r)
           m == ebrs(r)
<1>13. m = IF End(r) = End(ext) THEN n ELSE n + n
  BY <1>12
<1>14. z = [start |-> r.start + n, length |-> r.length - m]
  OBVIOUS
<1>15. End(r) = End(ext) \/ x + 1 + n <= End(r)
  BY <1>2, <1>3, <1>5, <1>6, <1>9, <1>10, <1>11 DEF b
<1>16. r.start + n <= x
  BY <1>3, <1>5, <1>6, <1>9, <1>11 DEF a
<1>17. x + 1 <= End(r)
  BY <1>5, <1>6, <1>9, <1>11
<1> HIDE DEF m, z, n
<1>18. m \in Int /\ m < r.length /\ z \in RegionType /\ z.start = r.start + n /\ End(z) = End(r) + n - m
  <2>1. m \in Int
    BY <1>3, <1>13
  <2>2. m < r.length
    BY <1>3, <1>5, <1>11, <1>13, <1>15, <1>16, <1>17
  <2> QED BY <1>3, <1>11, <1>14, <2>1, <2>2 DEF RegionType, End
<1>19. Offset <= z.start /\ End(z) <= DiskLength /\ z.start <= x /\ x <= End(z)
  BY <1>2, <1>3, <1>5, <1>10, <1>11, <1>13, <1>15, <1>16, <1>17, <1>18
<1>20. PICK y \in AlignKeepEnd(z) : x \in Sectors(y)
  BY <1>5, <1>18, <1>19, KeepEndFound
<1>21. r \in {w \in UnusedRegions(ext, used) : w.length > ebrs(w)}
  BY <1>9, <1>18 DEF m
<1> DEFINE s == [region |-> y, number |-> number, types |-> types]
<1>22. LogicalSlots(type, t) =
         [region : UNION {AlignKeepEnd(adjusted(w)) : w \in {w \in UnusedRegions(ext, used) : w.length > ebrs(w)}},
          number : {number}, types : {types}]
  BY DEF LogicalSlots, ext, used, E, L
<1>23. y \in AlignKeepEnd(adjusted(r))
  BY <1>20 DEF z
<1> HIDE DEF types, number, ebrs, adjusted
<1>24. s \in LogicalSlots(type, t)
  BY <1>21, <1>22, <1>23
<1> QED BY <1>20, <1>24

\* What is offered to a client is free, with a number that is free, and all that is free
\* and aligned is offered, after any edits of any disk that has a device node for a
\* logical partition.
THEOREM SlotsAreFree ==
  ASSUME DeviceRange > 5, Word > 256
  PROVE  Spec => []SlotsSound
<1>1. ASSUME IInv, JInv, Geometry PROVE SlotsSound
  <2>1. /\ Sound(pt, staging) /\ Regioned(staging) /\ Placed(pt, staging) /\ Offset <= UnusableFront(pt)
    BY <1>1 DEF IInv, JInv, Edited, Geometry, Regioned, Partition, RegionType
  <2> DEFINE primaries == DOMAIN staging \ OfType(staging, "LOGICAL")
             logicals == OfType(staging, "LOGICAL")
             freeP == Sectors(UsableRegion(pt)) \ Taken(staging, primaries)
             outer == Sectors(staging[Extended(staging)].region)
             freeL == outer \ Taken(staging, logicals)
             found(slots) == UNION {Sectors(s.region) : s \in slots}
  <2>2. \A s \in PrimarySlots(pt, staging) :
          /\ Sectors(s.region) \subseteq freeP
          /\ s.number \notin Numbers(staging)
          /\ s.types # {} => s.number <= MaxPrimary(pt)
    BY <2>1, PrimarySlotRight
  <2>3. \A s \in LogicalSlots(pt, staging) :
          /\ (s.region.start - NumEbrs .. End(s.region) + NumEbrs) \cap outer \subseteq freeL
          /\ s.region.start - NumEbrs \in outer
          /\ s.number \notin Numbers(staging)
          /\ s.types # {} => s.number <= MaxLogical(pt)
    BY <2>1, LogicalSlotRight
  <2>4. {x \in freeP : AlignStart(x) = x /\ x + 1 \in freeP} \subseteq found(PrimarySlots(pt, staging))
    <3>1. ASSUME NEW x \in freeP, AlignStart(x) = x, x + 1 \in freeP
          PROVE  \E s \in PrimarySlots(pt, staging) : x \in Sectors(s.region)
      BY <2>1, <3>1, PrimarySlotsFound
    <3> HIDE DEF freeP
    <3> QED BY <3>1
  <2>5. ASSUME HasExtended(staging), NEW x \in freeL, AlignStart(x) = x, x + 1 \in freeL,
               x - NumEbrs .. x \subseteq freeL, (x + 1 .. x + 1 + NumEbrs) \cap outer \subseteq freeL
        PROVE  x \in found(LogicalSlots(pt, staging))
    <3>1. \E s \in LogicalSlots(pt, staging) : x \in Sectors(s.region)
      BY <2>1, <2>5, LogicalSlotsFound
    <3> QED BY <3>1
  <2> QED BY <2>2, <2>3, <2>4, <2>5 DEF SlotsSound, Taken
<1>2. IInv /\ JInv /\ Geometry => SlotsSound
  BY <1>1
<1> QED BY <1>2, AheadGeometry, PTL

-----------------------------------------------------------------------------
(* The pool                                                                *)

\* An aligned start stays where it is.
LEMMA AlignedAgain ==
  ASSUME NEW b \in Int, Offset <= b, b <= DiskLength, AlignStart(b) <= DiskLength
  PROVE  AlignStart(AlignStart(b)) = AlignStart(b)
<1> DEFINE a == AlignStart(b)
           rest(x) == (x - Offset) % Grain
<1>1. Grain \in Nat \ {0} /\ Offset \in Nat /\ DiskLength \in Nat
  BY GeometryAssumption
<1>2. a \in Int /\ b <= a
  BY AlignUp
<1>3. Offset <= a
  BY <1>1, <1>2
<1>4. /\ rest(b) \in 0 .. Grain - 1 /\ a = IF rest(b) = 0 THEN b ELSE b + Grain - rest(b)
      /\ rest(a) \in 0 .. Grain - 1 /\ AlignStart(a) = IF rest(a) = 0 THEN a ELSE a + Grain - rest(a)
  <2> HIDE DEF a
  <2>1. rest(a) \in 0 .. Grain - 1 /\ AlignStart(a) = IF rest(a) = 0 THEN a ELSE a + Grain - rest(a)
    BY <1>2, <1>3, AlignValue DEF a
  <2> QED BY <2>1, AlignValue DEF a
<1>5. CASE rest(b) = 0
  BY <1>4, <1>5
<1>6. CASE rest(b) # 0
  <2>1. ASSUME NEW x \in Int PROVE x = Grain * (x \div Grain) + (x % Grain) /\ x \div Grain \in Int
    BY <1>1
  <2>2. ASSUME NEW x \in Int, NEW y \in Int, x >= y PROVE Grain * x >= Grain * y
    BY <1>1, <2>2
  <2> DEFINE p == (b - Offset) \div Grain
             q == (a - Offset) \div Grain
  <2>3. b - Offset = Grain * p + rest(b) /\ p \in Int /\ a - Offset = Grain * q + rest(a) /\ q \in Int
    BY <1>1, <1>2, <2>1
  <2>4. a = b + Grain - rest(b)
    BY <1>4, <1>6
  <2> HIDE DEF p, q, a, rest
  <2>5. Grain * (p + 1) = Grain * p + Grain /\ Grain * p \in Int /\ Grain * q \in Int
    BY <1>1, <2>3
  <2>6. Grain * (p + 1) = Grain * q + rest(a)
    <3> DEFINE u == Grain * p
               v == Grain * q
               w == Grain * (p + 1)
    <3>1. u \in Int /\ v \in Int /\ w = u + Grain /\ b - Offset = u + rest(b) /\ a - Offset = v + rest(a)
      BY <2>3, <2>5
    <3>2. rest(a) \in Int /\ rest(b) \in Int
      BY <1>1, <1>4
    <3> HIDE DEF u, v, w
    <3>3. w = v + rest(a)
      BY <1>1, <1>2, <2>4, <3>1, <3>2
    <3> QED BY <3>3 DEF w, v
  <2>7. ~ q >= p + 1 + 1
    <3>1. SUFFICES ASSUME q >= p + 2 PROVE FALSE
      BY <2>3
    <3>2. Grain * q >= Grain * (p + 2) /\ Grain * (p + 2) = Grain * (p + 1) + Grain
      BY <1>1, <2>2, <2>3, <3>1
    <3> QED BY <1>1, <1>4, <2>3, <2>6, <3>2
  <2>8. ~ p >= q
    <3>1. SUFFICES ASSUME p >= q PROVE FALSE
      BY <2>3
    <3>2. Grain * p >= Grain * q
      BY <2>2, <2>3, <3>1
    <3> QED BY <1>1, <1>4, <2>3, <2>5, <2>6, <3>2
  <2>9. q = p + 1
    BY <2>3, <2>7, <2>8
  <2>10. rest(a) = 0
    BY <1>1, <1>4, <2>3, <2>6, <2>9
  <2>11. AlignStart(a) = a
    BY <1>4, <2>10
  <2> QED BY <2>11 DEF a
<1> QED BY <1>5, <1>6

\* A region that begins where it may and has a grain at least can be aligned: it loses
\* less than a grain.
LEMMA AlignFits ==
  ASSUME NEW r \in RegionType, Offset <= r.start, AlignStart(r.start) = r.start, End(r) < DiskLength,
         Grain <= r.length
  PROVE  /\ Align(r) # {}
         /\ \A x \in Align(r) : /\ x \in RegionType /\ x.start = r.start /\ End(x) <= End(r)
                                /\ x.length \in r.length - Grain + 1 .. r.length
<1> DEFINE b == End(r)
           rest == (b - Offset + 1) % Grain
<1>1. /\ Offset \in Nat /\ Grain \in Nat \ {0} /\ Word \in Nat \ {0} /\ DiskLength \in Nat
      /\ DiskLength + Grain <= Word
      /\ r.start \in Int /\ r.length \in Int /\ b = r.start + r.length - 1
  BY GeometryAssumption, AlignmentAssumption DEF RegionType, End
<1> HIDE DEF b
<1>2. b \in Int /\ b - Offset \in 0 .. Word - 1 /\ b - Offset + 1 \in 0 .. Word - 1 /\ Grain - 1 <= b - Offset
  <2>1. b < DiskLength
    BY DEF b
  <2> QED BY <1>1, <2>1
<1>3. (b - Offset) % Word = b - Offset /\ (b - Offset + 1) % Word = b - Offset + 1
  BY <1>1, <1>2, Remainder
<1>4. rest \in 0 .. Grain - 1
  <2>1. b - Offset + 1 \in Int
    BY <1>2
  <2> QED BY <1>1, <2>1, Remainder
<1>5. AlignEnd(b) = IF rest > b - Offset THEN {} ELSE {(b - Offset - rest + Offset) % Word}
  BY <1>3 DEF AlignEnd
<1> HIDE DEF rest
<1>6. b - Offset - rest + Offset = b - rest /\ b - rest \in 0 .. Word - 1 /\ ~ rest > b - Offset
  <2>1. b < DiskLength
    BY DEF b
  <2> QED BY <1>1, <1>2, <1>4, <2>1
<1>7. AlignEnd(b) = {b - rest}
  BY <1>1, <1>5, <1>6, Remainder
<1>8. b - rest + 1 > r.start /\ b - rest \in Int
  BY <1>1, <1>2, <1>4
<1>9. Align(r) = {Region(r.start, b - rest)}
  <2>1. Align(r) = {Region(r.start, e) : e \in {x \in AlignEnd(b) : x + 1 > r.start}}
    BY DEF Align, b
  <2>2. {x \in AlignEnd(b) : x + 1 > r.start} = {b - rest}
    BY <1>7, <1>8
  <2> QED BY <2>1, <2>2
<1>10. /\ Region(r.start, b - rest) \in RegionType /\ Region(r.start, b - rest).start = r.start
       /\ End(Region(r.start, b - rest)) = b - rest /\ Region(r.start, b - rest).length = b - rest - r.start + 1
  BY <1>1, <1>8, RegionTyped DEF Region
<1>11. b - rest <= b /\ b - rest - r.start + 1 \in r.length - Grain + 1 .. r.length
  BY <1>1, <1>2, <1>4
<1> QED BY <1>9, <1>10, <1>11 DEF b

\* The start of a slot is aligned.
LEMMA KeepEndAligned ==
  ASSUME NEW r \in RegionType, Offset <= r.start, End(r) <= DiskLength, r.length > 0, NEW s \in AlignKeepEnd(r)
  PROVE  AlignStart(s.start) = s.start
<1> DEFINE a == AlignStart(r.start)
<1>1. /\ s \in RegionType /\ s.length > 0 /\ r.start <= s.start /\ End(s) = End(r)
  BY KeepEndWithin
<1>2. /\ r.start \in Int /\ r.length \in Int /\ End(r) = r.start + r.length - 1
      /\ s.start \in Int /\ s.length \in Int /\ End(s) = s.start + s.length - 1
      /\ Offset \in Int /\ DiskLength \in Int
  BY <1>1, GeometryAssumption DEF RegionType, End
<1>3. s.start = a
  BY DEF AlignKeepEnd, Region
<1>4. s.start <= DiskLength /\ r.start <= DiskLength
  BY <1>1, <1>2
<1> QED BY <1>2, <1>3, <1>4, AlignedAgain

\* A disk as the pool needs it.
Offering(d) == /\ Sound(d.pt, d.partitions) /\ Regioned(d.partitions) /\ Placed(d.pt, d.partitions)
               /\ Offset <= UnusableFront(d.pt)

\* A slot where a partition is possible.
LEMMA PossibleSlot ==
  ASSUME NEW d, Offering(d), NEW s \in PossibleSlots(d)
  PROVE  /\ s.region \in RegionType /\ s.region.length > 0
         /\ Offset <= s.region.start /\ AlignStart(s.region.start) = s.region.start
         /\ End(s.region) < DiskLength
         /\ \/ s \in PrimarySlots(d.pt, d.partitions) /\ "PRIMARY" \in s.types
            \/ s \in LogicalSlots(d.pt, d.partitions) /\ "PRIMARY" \notin s.types /\ s.types # {}
<1> DEFINE t == d.partitions
           type == d.pt
<1>1. IsFiniteSet(DOMAIN t) /\ Regioned(t) /\ Placed(type, t) /\ Offset <= UnusableFront(type)
  BY DEF Offering, Sound
<1>2. /\ Last(type) \in Int /\ Last(type) < DiskLength /\ UnusableFront(type) \in Int
      /\ First(type) \in Nat \ {0} /\ Offset \in Nat /\ DiskLength \in Nat
      /\ NumEbrs \in Nat \ {0} /\ Offset <= NumEbrs
  BY UsableType, GeometryAssumption, AlignmentAssumption
<1>3. s.types \cap {"PRIMARY", "LOGICAL"} # {} /\ s \in PrimarySlots(type, t) \cup LogicalSlots(type, t)
  BY DEF PossibleSlots, UnusedSlots
<1>4. CASE s \in PrimarySlots(type, t)
  <2> DEFINE others == Regions(t, DOMAIN t \ OfType(t, "LOGICAL"))
  <2>1. /\ s.region \in RegionType /\ s.region.length > 0 /\ UnusableFront(type) <= s.region.start /\ End(s.region) <= Last(type)
        /\ s.types \subseteq {"PRIMARY", "EXTENDED"}
    BY <1>1, <1>4, PrimarySlotFree
  <2>2. "PRIMARY" \in s.types
    BY <1>3, <2>1
  <2>3. s.region.start \in Int /\ End(s.region) \in Int
    BY <2>1 DEF RegionType, End
  <2>4. others \in SUBSET RegionType /\ IsFiniteSet(others)
    <3>1. IsFiniteSet(DOMAIN t \ OfType(t, "LOGICAL")) /\ DOMAIN t \ OfType(t, "LOGICAL") \subseteq DOMAIN t
      BY <1>1, FS_Subset
    <3> QED BY <1>1, <3>1, RegionsFinite DEF Regions, Regioned
  <2>5. s.region \in UNION {AlignKeepEnd(r) : r \in UnusedRegions(UsableRegion(type), others)}
    BY <1>4 DEF PrimarySlots
  <2> HIDE DEF others
  <2>6. PICK r \in UnusedRegions(UsableRegion(type), others) : s.region \in AlignKeepEnd(r)
    BY <2>5
  <2>7. /\ UsableRegion(type) \in RegionType /\ UsableRegion(type).start = UnusableFront(type)
        /\ End(UsableRegion(type)) = Last(type)
    BY UsableType
  <2>8. r \in RegionType /\ r.length > 0 /\ UnusableFront(type) <= r.start /\ End(r) <= Last(type)
    BY <2>4, <2>7, UnusedFree
  <2>9. r.start \in Int /\ End(r) \in Int
    BY <2>8 DEF RegionType, End
  <2>10. Offset <= r.start /\ End(r) <= DiskLength
    BY <1>1, <1>2, <2>8, <2>9
  <2>11. AlignStart(s.region.start) = s.region.start
    BY <2>6, <2>8, <2>10, KeepEndAligned
  <2> QED BY <1>1, <1>2, <1>4, <2>1, <2>2, <2>3, <2>11
<1>5. CASE s \in LogicalSlots(type, t)
  <2> DEFINE E == Extended(t)
             extended == t[E].region
             used == Regions(t, OfType(t, "LOGICAL"))
             ebrs(r) == NumEbrs * IF End(r) = End(extended) THEN 1 ELSE 2
             adjusted(r) == [start |-> r.start + NumEbrs, length |-> r.length - ebrs(r)]
  <2>1. /\ s.region \in RegionType /\ s.region.length > 0 /\ s.types \subseteq {"LOGICAL"} /\ Offset <= s.region.start
        /\ \E e \in OfType(t, "EXTENDED") : End(s.region) <= End(t[e].region)
    BY <1>1, <1>5, LogicalSlotFree
  <2>2. "PRIMARY" \notin s.types /\ s.types # {}
    BY <1>3, <2>1
  <2>3. End(s.region) < DiskLength
    <3>1. PICK e \in OfType(t, "EXTENDED") : End(s.region) <= End(t[e].region)
      BY <2>1
    <3>2. e \in DOMAIN t /\ t[e].region \in RegionType /\ End(t[e].region) <= Last(type)
      BY <1>1 DEF OfType, Placed, Regioned
    <3>3. End(t[e].region) \in Int /\ End(s.region) \in Int
      BY <2>1, <3>2 DEF RegionType, End
    <3> QED BY <1>2, <3>1, <3>2, <3>3
  <2>4. /\ HasExtended(t)
        /\ \E r \in {x \in UnusedRegions(extended, used) : x.length > ebrs(x)} : s.region \in AlignKeepEnd(adjusted(r))
    BY <1>5 DEF LogicalSlots
  <2>5. PICK r \in UnusedRegions(extended, used) : r.length > ebrs(r) /\ s.region \in AlignKeepEnd(adjusted(r))
    BY <2>4
  <2>6. /\ extended \in RegionType /\ First(type) <= extended.start /\ End(extended) <= Last(type)
    BY <1>1, <2>4 DEF HasExtended, Extended, OfType, Regioned, Placed
  <2>7. used \in SUBSET RegionType /\ IsFiniteSet(used)
    <3>1. IsFiniteSet(OfType(t, "LOGICAL")) /\ OfType(t, "LOGICAL") \subseteq DOMAIN t
      <4>1. OfType(t, "LOGICAL") \subseteq DOMAIN t
        BY DEF OfType
      <4> QED BY <1>1, <4>1, FS_Subset
    <3> QED BY <1>1, <3>1, RegionsFinite DEF Regions, Regioned
  <2>8. r \in RegionType /\ extended.start <= r.start /\ End(r) <= End(extended)
    <3> HIDE DEF used, extended
    <3> QED BY <2>6, <2>7, UnusedFree
  <2>9. /\ r.start \in Int /\ r.length \in Int /\ End(r) = r.start + r.length - 1
        /\ extended.start \in Int /\ End(extended) \in Int
    BY <2>6, <2>8 DEF RegionType, End
  <2>10. ebrs(r) \in Int /\ ebrs(r) >= NumEbrs
    BY <1>2
  <2> DEFINE n == ebrs(r)
             x == adjusted(r)
  <2>11. x \in RegionType /\ x.start = r.start + NumEbrs /\ x.length = r.length - n /\ s.region \in AlignKeepEnd(x)
    <3>1. n \in Int /\ x = [start |-> r.start + NumEbrs, length |-> r.length - n]
      BY <2>10
    <3>2. s.region \in AlignKeepEnd(x)
      BY <2>5
    <3> HIDE DEF n, x
    <3> QED BY <1>2, <2>9, <3>1, <3>2 DEF RegionType
  <2>12. n \in Int /\ n >= NumEbrs /\ r.length > n
    BY <2>5, <2>10
  <2> HIDE DEF n, x, extended, used, E, ebrs, adjusted
  <2>13. Offset <= x.start /\ x.length > 0 /\ End(x) <= DiskLength
    BY <1>2, <2>6, <2>8, <2>9, <2>11, <2>12 DEF End
  <2>14. AlignStart(s.region.start) = s.region.start
    BY <2>11, <2>13, KeepEndAligned
  <2> QED BY <1>5, <2>1, <2>2, <2>3, <2>14
<1> QED BY <1>3, <1>4, <1>5

\* A partition in a slot that is large enough.
LEMMA PartitionedRight ==
  ASSUME DeviceRange > 5, Word > 256, NEW d, Offering(d), NEW s \in PossibleSlots(d),
         NEW size \in Int, Grain <= size, size <= s.region.length
  PROVE  /\ Partitioned(d, s, size) # {}
         /\ \A p \in Partitioned(d, s, size) : Right(p, size) /\ p.disk = d
<1> DEFINE t == d.partitions
           type == d.pt
           r == [s.region EXCEPT !.length = size]
<1>1. /\ s.region \in RegionType
      /\ Offset <= s.region.start /\ AlignStart(s.region.start) = s.region.start
      /\ End(s.region) < DiskLength
      /\ \/ s \in PrimarySlots(type, t) /\ "PRIMARY" \in s.types
         \/ s \in LogicalSlots(type, t) /\ "PRIMARY" \notin s.types /\ s.types # {}
  BY PossibleSlot
<1>2. Grain \in Nat \ {0} /\ NumEbrs \in Nat /\ DiskLength \in Nat
  BY GeometryAssumption
<1>3. /\ s.region.start \in Int /\ s.region.length \in Int
      /\ End(s.region) = s.region.start + s.region.length - 1
  BY <1>1 DEF RegionType, End
<1>4. r \in RegionType /\ r.start = s.region.start /\ r.length = size /\ End(r) = s.region.start + size - 1
  BY <1>1 DEF RegionType, End
<1> HIDE DEF r
<1>5. End(r) <= End(s.region) /\ End(r) < DiskLength
  BY <1>1, <1>2, <1>3, <1>4
<1>6. /\ Align(r) # {}
      /\ \A x \in Align(r) : /\ x \in RegionType /\ x.start = r.start /\ End(x) <= End(r)
                             /\ x.length \in size - Grain + 1 .. size
  BY <1>1, <1>4, <1>5, AlignFits
<1>7. Sound(type, t) /\ Regioned(t) /\ Placed(type, t) /\ Offset <= UnusableFront(type) /\ IsFiniteSet(DOMAIN t)
  BY DEF Offering, Sound
<1> DEFINE Type == IF "PRIMARY" \in s.types THEN "PRIMARY" ELSE "LOGICAL"
           Given(x) == [disk |-> d, region |-> x, number |-> s.number, type |-> Type]
<1>8. Partitioned(d, s, size) = {Given(x) : x \in Align(r)}
  BY DEF Partitioned, r
<1>9. ASSUME NEW x \in Align(r) PROVE Right(Given(x), size)
  <2>1. /\ x \in RegionType /\ x.start = s.region.start /\ End(x) <= End(s.region)
        /\ x.length \in size - Grain + 1 .. size
    <3>1. x \in RegionType /\ x.start = r.start /\ End(x) <= End(r)
      BY <1>6
    <3>2. End(x) \in Int /\ End(r) \in Int /\ End(s.region) \in Int
      BY <1>1, <1>4, <3>1 DEF RegionType, End
    <3> QED BY <1>4, <1>5, <1>6, <3>1, <3>2
  <2>2. x.start \in Int /\ End(x) \in Int /\ End(s.region) \in Int
    BY <1>3, <2>1 DEF RegionType, End
  <2>3. Sectors(x) \subseteq Sectors(s.region)
    BY <1>3, <2>1, <2>2 DEF Sectors
  <2>4. CASE s \in PrimarySlots(type, t) /\ "PRIMARY" \in s.types
    <3>1. Type = "PRIMARY" /\ Type # "LOGICAL"
      BY <2>4
    <3>2. /\ Sectors(s.region) \subseteq Sectors(UsableRegion(type)) \ Taken(t, DOMAIN t \ OfType(t, "LOGICAL"))
          /\ s.number \notin Numbers(t)
          /\ s.number <= MaxPrimary(type)
      BY <1>7, <2>4, PrimarySlotRight
    <3>3. ASSUME NEW q \in DOMAIN t, t[q].type # "LOGICAL" PROVE Sectors(x) \cap Sectors(t[q].region) = {}
      <4>1. q \in DOMAIN t \ OfType(t, "LOGICAL")
        BY <3>3 DEF OfType
      <4>2. Sectors(t[q].region) \subseteq Taken(t, DOMAIN t \ OfType(t, "LOGICAL"))
        BY <4>1 DEF Taken
      <4> QED BY <2>3, <3>2, <4>2
    <3>4. Sectors(x) \subseteq Sectors(UsableRegion(type))
      BY <2>3, <3>2
    <3> HIDE DEF Type, t, type
    <3> QED BY <2>1, <3>1, <3>2, <3>3, <3>4 DEF Right, t, type
  <2>5. CASE s \in LogicalSlots(type, t) /\ "PRIMARY" \notin s.types /\ s.types # {}
    <3>1. Type = "LOGICAL"
      BY <2>5
    <3>2. s.number \notin Numbers(t) /\ s.number <= MaxLogical(type)
      BY <1>7, <2>5, LogicalSlotRight
    <3>3. /\ \E e \in OfType(t, "EXTENDED") :
               t[e].region.start <= s.region.start - NumEbrs /\ End(s.region) <= End(t[e].region)
          /\ \A q \in OfType(t, "LOGICAL") :
               \/ End(t[q].region) < s.region.start - NumEbrs
               \/ End(s.region) + NumEbrs < t[q].region.start
      BY <1>7, <2>5, LogicalSlotFree
    <3>4. Sectors(x) \subseteq Sectors(t[Extended(t)].region)
      <4>1. PICK e \in OfType(t, "EXTENDED") :
               t[e].region.start <= s.region.start - NumEbrs /\ End(s.region) <= End(t[e].region)
        BY <3>3
      <4>2. Extended(t) = e
        <5>1. Extended(t) \in OfType(t, "EXTENDED")
          BY <4>1 DEF Extended
        <5> QED BY <1>7, <4>1, <5>1 DEF Placed
      <4>3. t[e].region.start \in Int /\ End(t[e].region) \in Int
        BY <1>7, <4>1 DEF OfType, Regioned, RegionType, End
      <4>4. t[e].region.start <= x.start /\ End(x) <= End(t[e].region)
        BY <1>2, <1>3, <2>1, <2>2, <4>1, <4>3
      <4> HIDE DEF t
      <4> QED BY <2>2, <4>2, <4>3, <4>4 DEF Sectors
    <3>5. ASSUME NEW q \in DOMAIN t, t[q].type = "LOGICAL"
          PROVE  (x.start - NumEbrs .. End(x) + NumEbrs) \cap Sectors(t[q].region) = {}
      <4>1. q \in OfType(t, "LOGICAL")
        BY <3>5 DEF OfType
      <4>2. t[q].region.start \in Int /\ End(t[q].region) \in Int
        BY <1>7, <3>5 DEF Regioned, RegionType, End
      <4>3. End(t[q].region) < x.start - NumEbrs \/ End(x) + NumEbrs < t[q].region.start
        BY <1>2, <1>3, <2>1, <2>2, <3>3, <4>1, <4>2
      <4> HIDE DEF t
      <4> QED BY <1>2, <2>2, <4>2, <4>3 DEF Sectors
    <3> HIDE DEF Type, t, type
    <3> QED BY <2>1, <3>1, <3>2, <3>4, <3>5 DEF Right, t, type
  <2> QED BY <1>1, <2>4, <2>5
<1>10. \A x \in Align(r) : Given(x).disk = d
  OBVIOUS
<1> HIDE DEF Given
<1> QED BY <1>6, <1>8, <1>9, <1>10

\* Of slots one is the last and one the first.
LEMMA SlotsBounded ==
  ASSUME NEW d, Offering(d), NEW S \in SUBSET PossibleSlots(d), S # {}
  PROVE  Biggest(S) # {} /\ Smallest(S) # {}
<1> DEFINE T == {s.region.start : s \in S}
<1>1. ASSUME NEW s \in S PROVE s.region.start \in 0 .. DiskLength
  <2>1. /\ s.region \in RegionType /\ s.region.length > 0 /\ Offset <= s.region.start
        /\ End(s.region) < DiskLength
    BY PossibleSlot
  <2>2. /\ s.region.start \in Int /\ s.region.length \in Int
        /\ End(s.region) = s.region.start + s.region.length - 1
    BY <2>1 DEF RegionType, End
  <2> QED BY <2>1, <2>2, GeometryAssumption
<1>2. T \in SUBSET Int /\ IsFiniteSet(T) /\ T # {}
  <2>1. T \subseteq 0 .. DiskLength /\ DiskLength \in Int
    BY <1>1, GeometryAssumption
  <2>2. IsFiniteSet(0 .. DiskLength) /\ 0 .. DiskLength \subseteq Int
    BY <2>1, FS_Interval
  <2> HIDE DEF T
  <2>3. IsFiniteSet(T) /\ T \subseteq Int
    BY <2>1, <2>2, FS_Subset
  <2> QED BY <2>3 DEF T
<1>3. PICK m \in T : \A y \in T : y <= m
  <2> HIDE DEF T
  <2> QED BY <1>2, GreatestInt
<1>4. PICK n \in T : \A y \in T : n <= y
  <2> HIDE DEF T
  <2> QED BY <1>2, LeastInt
<1>5. \E s \in S : m = s.region.start
  OBVIOUS
<1>6. \E s \in S : n = s.region.start
  OBVIOUS
<1> QED BY <1>3, <1>4, <1>5, <1>6 DEF Biggest, Smallest

\* Two different things are two.
LEMMA PairCardinality ==
  ASSUME NEW x, NEW y, x # y
  PROVE  IsFiniteSet({x, y}) /\ Cardinality({x, y}) = 2
<1>1. IsFiniteSet({x}) /\ Cardinality({x}) = 1
  BY FS_Singleton
<1>2. {x, y} = {x} \cup {y} /\ y \notin {x}
  OBVIOUS
<1>3. IsFiniteSet({x} \cup {y}) /\ Cardinality({x} \cup {y}) = Cardinality({x}) + 1
  BY <1>1, <1>2, FS_AddElement
<1> QED BY <1>1, <1>2, <1>3

\* The first n of at least n candidates.
LEMMA FirstTaken ==
  ASSUME NEW U \in SUBSET (1 .. 2), NEW n \in 1 .. 2, Cardinality(U) >= n
  PROVE  LET T == {i \in U : Cardinality({j \in U : j < i}) < n}
         IN  (n = 1 => \E k \in U : T = {k}) /\ (n = 2 => T = {1, 2} /\ U = {1, 2})
<1> DEFINE before(i) == {j \in U : j < i}
<1>1. Cardinality({}) = 0 /\ Cardinality({1}) = 1 /\ Cardinality({2}) = 1 /\ Cardinality({1, 2}) = 2
  <2>1. 1 # 2
    OBVIOUS
  <2>2. Cardinality({1, 2}) = 2
    BY <2>1, PairCardinality
  <2> QED BY <2>2, FS_EmptySet, FS_Singleton
<1>2. U = {} \/ U = {1} \/ U = {2} \/ U = {1, 2}
  <2>1. 1 .. 2 = {1, 2}
    OBVIOUS
  <2> QED BY <2>1
<1>3. CASE U = {}
  BY <1>1, <1>3
<1>4. CASE U = {1}
  <2>1. before(1) = {}
    BY <1>4
  <2> QED BY <1>1, <1>4, <2>1
<1>5. CASE U = {2}
  <2>1. before(2) = {}
    BY <1>5
  <2> QED BY <1>1, <1>5, <2>1
<1>6. CASE U = {1, 2}
  <2>1. before(1) = {} /\ before(2) = {1}
    BY <1>6
  <2> QED BY <1>1, <1>6, <2>1
<1> QED BY <1>2, <1>3, <1>4, <1>5, <1>6

\* Both disks of the pool are as it needs them, after any edits.
LEMMA CandidatesOffer ==
  ASSUME IInv, JInv, Geometry
  PROVE  /\ DOMAIN Candidates = 1 .. 2
         /\ Candidates[1].name # Candidates[2].name
         /\ \A i \in 1 .. 2 : Offering(Candidates[i])
<1> DEFINE edited == [name |-> "edited", pt |-> pt, partitions |-> staging]
           other == [name |-> "other", pt |-> OtherDisk.pt, partitions |-> OtherDisk.partitions]
<1>1. Candidates = <<other, edited>> \/ Candidates = <<edited, other>>
  BY DEF Candidates
<1>2. Offering(edited)
  BY DEF IInv, JInv, Edited, Geometry, Regioned, Partition, RegionType, Offering
<1>3. Offering(other)
  <2>1. Proper(OtherDisk)
    BY OtherDiskAssumption
  <2>2. Regioned(OtherDisk.partitions)
    BY <2>1 DEF Proper, Regioned, Partition, RegionType
  <2>3. Placed(OtherDisk.pt, OtherDisk.partitions)
    BY <2>1, <2>2, FitsPlaced DEF Proper
  <2> QED BY <2>1, <2>2, <2>3 DEF Proper, Offering
<1> HIDE DEF Offering
<1>4. edited.name # other.name
  OBVIOUS
<1> HIDE DEF edited, other
<1> QED BY <1>1, <1>2, <1>3, <1>4

\* What the pool offers it can create, after any edits of its disks, for any sizes and
\* alignments.
THEOREM PoolKeepsOffers ==
  ASSUME DeviceRange > 5, Word > 256
  PROVE  Spec => []PoolKept
<1>1. ASSUME IInv, JInv, Geometry,
             NEW number \in 1 .. 2, NEW max \in MaxPartitionSize(number),
             NEW size \in ({max} \cup Lengths) \cap Grain .. max
      PROVE  \E ps \in CreatePartitions(number, size) :
                /\ \A i \in DOMAIN ps : Right(ps[i], size)
                /\ Cardinality({ps[i].disk.name : i \in DOMAIN ps}) = number
  <2> DEFINE disks == Candidates
             offering == {i \in DOMAIN disks : PossibleSlots(disks[i]) # {}}
             largest == [i \in offering |-> (CHOOSE s \in Biggest(PossibleSlots(disks[i])) : TRUE).region.length]
             fitting == [i \in DOMAIN disks |-> Fitting(disks[i], size)]
             usable == {i \in DOMAIN disks : fitting[i] # {}}
             taken == {i \in usable : Cardinality({j \in usable : j < i}) < number}
             created == [i \in taken |-> Partitioned(disks[i], CHOOSE s \in Smallest(fitting[i]) : TRUE, size)]
  <2>1. /\ DOMAIN disks = 1 .. 2 /\ disks[1].name # disks[2].name
        /\ \A i \in 1 .. 2 : Offering(disks[i])
    BY <1>1, CandidatesOffer
  <2>2. /\ max \in {largest[i] : i \in offering}
        /\ Cardinality({i \in offering : largest[i] >= max}) >= number
    BY DEF MaxPartitionSize
  <2>3. IF Cardinality(usable) < number THEN CreatePartitions(number, size) = {}
        ELSE CreatePartitions(number, size) =
               {ps \in [taken -> UNION {created[i] : i \in taken}] : \A i \in taken : ps[i] \in created[i]}
    BY DEF CreatePartitions
  <2> HIDE DEF disks
  <2>4. ASSUME NEW i \in offering
        PROVE  /\ largest[i] \in Int
               /\ \E s \in PossibleSlots(disks[i]) : s.region.length = largest[i]
    <3> DEFINE s == CHOOSE x \in Biggest(PossibleSlots(disks[i])) : TRUE
    <3>1. Offering(disks[i]) /\ PossibleSlots(disks[i]) # {}
      BY <2>1
    <3>2. Biggest(PossibleSlots(disks[i])) # {}
      BY <3>1, SlotsBounded
    <3>3. s \in PossibleSlots(disks[i])
      BY <3>2 DEF Biggest
    <3>4. largest[i] = s.region.length
      OBVIOUS
    <3> HIDE DEF s
    <3>5. s.region.length \in Int
      BY <3>1, <3>3, PossibleSlot DEF RegionType
    <3> QED BY <3>3, <3>4, <3>5
  <2>5. max \in Int /\ size \in Int /\ Grain <= size /\ size <= max
    <3>1. PICK i \in offering : max = largest[i]
      BY <2>2
    <3> HIDE DEF offering, largest
    <3>2. max \in Int /\ Grain \in Int
      BY <2>4, <3>1, GeometryAssumption
    <3> QED BY <3>2
  <2>6. Cardinality(usable) >= number /\ usable \in SUBSET (1 .. 2) /\ IsFiniteSet(usable)
    <3> DEFINE large == {i \in offering : largest[i] >= max}
    <3>1. ASSUME NEW i \in large PROVE i \in usable
      <4>1. i \in offering /\ largest[i] >= max
        OBVIOUS
      <4>2. PICK s \in PossibleSlots(disks[i]) : s.region.length = largest[i]
        BY <2>4, <4>1
      <4>3. s.region.length >= size
        <5> HIDE DEF offering, largest
        <5>1. largest[i] \in Int
          BY <2>4, <4>1
        <5> QED BY <2>5, <4>1, <4>2, <5>1
      <4>4. s \in Fitting(disks[i], size)
        BY <4>2, <4>3 DEF Fitting
      <4> QED BY <4>1, <4>4
    <3>2. large \subseteq usable /\ usable \subseteq 1 .. 2
      BY <2>1, <3>1
    <3>3. IsFiniteSet(1 .. 2)
      <4>1. 1 \in Int /\ 2 \in Int
        OBVIOUS
      <4> QED BY <4>1, FS_Interval
    <3> HIDE DEF large, usable
    <3>4. IsFiniteSet(usable)
      BY <3>2, <3>3, FS_Subset
    <3>5. Cardinality(large) <= Cardinality(usable) /\ Cardinality(large) \in Nat /\ Cardinality(usable) \in Nat
      BY <3>2, <3>4, FS_Subset, FS_CardinalityType
    <3> QED BY <2>2, <3>2, <3>4, <3>5 DEF large
  <2>7. ASSUME NEW i \in taken
        PROVE  /\ created[i] # {} /\ i \in 1 .. 2
               /\ \A p \in created[i] : Right(p, size) /\ p.disk = disks[i]
    <3> DEFINE s == CHOOSE x \in Smallest(fitting[i]) : TRUE
    <3>1. i \in 1 .. 2 /\ Offering(disks[i]) /\ fitting[i] = Fitting(disks[i], size) /\ fitting[i] # {}
      BY <2>1
    <3>2. Fitting(disks[i], size) \subseteq PossibleSlots(disks[i])
      BY DEF Fitting
    <3>3. Smallest(fitting[i]) # {}
      BY <3>1, <3>2, SlotsBounded
    <3>4. s \in fitting[i]
      BY <3>3 DEF Smallest
    <3>5. created[i] = Partitioned(disks[i], s, size)
      OBVIOUS
    <3> HIDE DEF s
    <3>6. s \in PossibleSlots(disks[i]) /\ s.region.length >= size
      BY <3>1, <3>4 DEF Fitting
    <3>7. s.region.length \in Int
      BY <3>1, <3>6, PossibleSlot DEF RegionType
    <3> HIDE DEF created, taken
    <3> QED BY <1>1, <2>5, <3>1, <3>5, <3>6, <3>7, PartitionedRight
  <2>8. /\ number = 1 => \E k \in 1 .. 2 : taken = {k}
        /\ number = 2 => taken = {1, 2}
    <3> HIDE DEF usable
    <3> QED BY <2>6, FirstTaken
  <2> DEFINE ps == [i \in taken |-> CHOOSE p \in created[i] : TRUE]
  <2>9. ps \in CreatePartitions(number, size)
    <3>1. \A i \in taken : ps[i] \in created[i]
      BY <2>7
    <3>2. ~ Cardinality(usable) < number
      <4>1. Cardinality(usable) \in Nat
        BY <2>6, FS_CardinalityType
      <4> HIDE DEF usable
      <4> QED BY <2>6, <4>1
    <3> HIDE DEF created, taken, usable
    <3>3. ps \in [taken -> UNION {created[i] : i \in taken}]
      BY <3>1
    <3> HIDE DEF ps
    <3> QED BY <2>3, <3>1, <3>2, <3>3
  <2>10. \A i \in DOMAIN ps : Right(ps[i], size) /\ ps[i].disk = disks[i] /\ i \in taken
    <3>1. DOMAIN ps = taken /\ \A i \in taken : ps[i] = CHOOSE p \in created[i] : TRUE
      OBVIOUS
    <3> HIDE DEF created, taken, ps
    <3> QED BY <2>7, <3>1
  <2>11. Cardinality({ps[i].disk.name : i \in DOMAIN ps}) = number
    <3>1. DOMAIN ps = taken
      OBVIOUS
    <3> HIDE DEF ps, taken
    <3>2. {ps[i].disk.name : i \in DOMAIN ps} = {disks[i].name : i \in taken}
      BY <2>10, <3>1
    <3>3. CASE number = 1
      <4>1. PICK k : taken = {k}
        BY <2>8, <3>3
      <4>2. {disks[i].name : i \in taken} = {disks[k].name}
        BY <4>1
      <4> QED BY <3>2, <3>3, <4>2, FS_Singleton
    <3>4. CASE number = 2
      <4>1. {disks[i].name : i \in taken} = {disks[1].name, disks[2].name}
        BY <2>8, <3>4
      <4>2. Cardinality({disks[1].name, disks[2].name}) = 2
        BY <2>1, PairCardinality
      <4> QED BY <3>2, <3>4, <4>1, <4>2
    <3> QED BY <3>3, <3>4
  <2> HIDE DEF ps
  <2> QED BY <2>9, <2>10, <2>11
<1>2. IInv /\ JInv /\ Geometry => PoolKept
  BY <1>1 DEF PoolKept
<1> QED BY <1>2, AheadGeometry, PTL
=============================================================================
