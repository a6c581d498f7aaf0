--------------------------- MODULE ActivationProofs ---------------------------
(* Theorems about Activation, for stacks of any depth and width: the cache   *)
(* of passwords, what deactivate reports, and that activate leaves nothing   *)
(* out.  Then theorems about Prober: that what is active is found.           *)
EXTENDS Prober, FiniteSetTheorems, TLAPS

\* What is to be opened is a LUKS that is closed.
TodoClosed == at = "open" => todo \subseteq Luks \ active

\* Subsystems that were found deactivated stay so until deactivate returns.
StatusKept == at \in {"luks", "lvm_lv", "deactivated"} =>
                 \A s \in status : active \cap Subsystem[s] = {}

\* All logical volumes are active after vgchange, and there were some that were
\* not before.
LvsDone == /\ at \in {"vgchange", "recount"} => before # 0
           /\ at = "recount" => Inactive(Lv) = {}

\* A round that activated nothing so far has found no inactive logical volume and
\* only canceled LUKSes.
QuietRound ==
  /\ at \in {"lukses", "open"} /\ ~ again => Inactive(Lv) = {}
  /\ at = "open" /\ ~ again => \A l \in Inactive(Luks) \ todo : cached[Uuid[l]] = Canceled
  /\ at = "activated" => /\ Inactive(Lv) = {}
                         /\ \A l \in Inactive(Luks) : cached[Uuid[l]] = Canceled

\* The inductive invariant.
IInv == /\ TypeOK
        /\ TodoClosed
        /\ StatusKept
        /\ errors \in Nat
        /\ errors = 0 /\ NoLvOnLv => LvsDone /\ QuietRound

-----------------------------------------------------------------------------

\* The numbers of inactive logical volumes.
LEMMA CountInactive ==
  ASSUME TypeOK
  PROVE  /\ Cardinality(Inactive(Lv)) \in 0 .. Cardinality(Lv)
         /\ Cardinality(Inactive(Lv)) = 0 <=> Inactive(Lv) = {}
<1>1. Inactive(Lv) \subseteq Lv /\ IsFiniteSet(Lv)
  BY ActivationAssumption DEF Inactive
<1>2. IsFiniteSet(Inactive(Lv)) /\ Cardinality(Inactive(Lv)) <= Cardinality(Lv)
  BY <1>1, FS_Subset
<1>3. Cardinality(Inactive(Lv)) \in Nat /\ Cardinality(Lv) \in Nat
  BY <1>1, <1>2, FS_CardinalityType
<1> QED BY <1>2, <1>3, FS_EmptySet

\* A cached password or cancellation is one of the values of the cache.
LEMMA CacheType ==
  ASSUME TypeOK, NEW l \in Luks, NEW v \in Password \cup {NotAsked, Canceled}
  PROVE  [cached EXCEPT ![Uuid[l]] = v] \in [Uuids -> Password \cup {NotAsked, Canceled}]
BY DEF TypeOK, Uuids

\* The counter of attempts stays in its bounds.
LEMMA NextAttempt ==
  ASSUME TypeOK
  PROVE  1 \in 1 .. MaxAttempts /\ (WrongPassword => attempt' \in 1 .. MaxAttempts)
BY ActivationAssumption DEF TypeOK, WrongPassword

LEMMA InitIInv == Init => IInv
<1> SUFFICES ASSUME Init PROVE IInv
  OBVIOUS
<1>1. TypeOK
  <2>1. Cardinality(Lv) \in Nat
    BY ActivationAssumption, FS_CardinalityType
  <2>2. cached \in [Uuids -> Password \cup {NotAsked, Canceled}]
    BY DEF Init
  <2>3. before \in 0 .. Cardinality(Lv) /\ attempt \in 1 .. MaxAttempts
    BY <2>1, ActivationAssumption DEF Init
  <2>4. again \in BOOLEAN
    BY Zenon DEF Init
  <2>7. round \in 0 .. Rounds
    BY DEF Init, Rounds
  <2>5. active \subseteq Device /\ todo \subseteq Device
    BY DEF Init
  <2>6. at = "idle" /\ status = {}
    BY DEF Init
  <2> QED BY <2>2, <2>3, <2>4, <2>5, <2>6, <2>7 DEF TypeOK
<1> QED BY <1>1 DEF Init, IInv, TodoClosed, StatusKept, LvsDone, QuietRound

\* Every step keeps the types.
LEMMA StepType == TypeOK /\ [Next]_vars => TypeOK'
<1> SUFFICES ASSUME TypeOK, [Next]_vars PROVE TypeOK'
  OBVIOUS
<1> USE DEF TypeOK
<1>0. CASE UNCHANGED vars
  BY <1>0 DEF vars
<1>1. CASE Activate
  BY <1>1 DEF Activate
<1>2. CASE CountLvs
  BY <1>2, CountInactive DEF CountLvs
<1>3. CASE ActivateLvs
  BY <1>3 DEF ActivateLvs, Error, Inactive, Device
<1>4. CASE RecountLvs
  BY <1>4 DEF RecountLvs
<1>5. CASE ListLukses
  BY <1>5, ActivationAssumption DEF ListLukses, Inactive, Device
<1>6. ASSUME NEW l \in Luks, Cancel(l) PROVE TypeOK'
  BY <1>6, CacheType, ActivationAssumption DEF Cancel, Visit, Visited
<1>7. ASSUME NEW l \in Luks, OpenCached(l) PROVE TypeOK'
  <2>1. again' \in BOOLEAN
    BY <1>7, Zenon DEF OpenCached
  <2>2. attempt' \in 1 .. MaxAttempts
    BY <1>7, NextAttempt DEF OpenCached, Visited
  <2>3. active' \subseteq Device /\ todo' \subseteq Device
    BY <1>7 DEF OpenCached, Visited, Device
  <2> QED BY <1>7, <2>1, <2>2, <2>3 DEF OpenCached
<1>8. ASSUME NEW l \in Luks, SkipCanceled(l) PROVE TypeOK'
  BY <1>8, ActivationAssumption DEF SkipCanceled, Visit, Visited
<1>9. ASSUME NEW l \in Luks, OpenFails(l) PROVE TypeOK'
  BY <1>9, ActivationAssumption DEF OpenFails, Visit, Visited, Error
<1>10. ASSUME NEW l \in Luks, NEW password \in Password, OpenAsked(l, password) PROVE TypeOK'
  <2>1. again' \in BOOLEAN
    BY <1>10, Zenon DEF OpenAsked
  <2>2. attempt' \in 1 .. MaxAttempts
    BY <1>10, NextAttempt DEF OpenAsked, Visited
  <2>3. active' \subseteq Device /\ todo' \subseteq Device
    BY <1>10 DEF OpenAsked, Visited, Device
  <2>4. cached' \in [Uuids -> Password \cup {NotAsked, Canceled}]
    BY <1>10, CacheType DEF OpenAsked
  <2> QED BY <1>10, <2>1, <2>2, <2>3, <2>4 DEF OpenAsked
<1>11. CASE EndRound
  BY <1>11 DEF EndRound
<1>12. CASE Return
  BY <1>12 DEF Return
<1>13. ASSUME NEW d \in Device, Close(d) PROVE TypeOK'
  BY <1>13 DEF Close
<1>14. CASE EndLukses
  BY <1>14 DEF EndLukses
<1>15. CASE EndLvs
  BY <1>15 DEF EndLvs, Rounds
<1>16. ASSUME NEW lv \in Lv, AutoActivate(lv) PROVE TypeOK'
  BY <1>16 DEF AutoActivate, Device
<1>17. CASE Deactivate
  BY <1>17 DEF Deactivate, Rounds
<1> QED BY <1>0, <1>1, <1>2, <1>3, <1>4, <1>5, <1>6, <1>7, <1>8, <1>9, <1>10, <1>11, <1>12,
           <1>13, <1>14, <1>15, <1>16, <1>17 DEF Next, Step

\* A LUKS is to be opened only until it is.
LEMMA StepTodoClosed == TypeOK /\ TodoClosed /\ [Next]_vars => TodoClosed'
<1> SUFFICES ASSUME TypeOK, TodoClosed, [Next]_vars PROVE TodoClosed'
  OBVIOUS
<1> USE DEF TodoClosed
<1>0. CASE UNCHANGED vars
  BY <1>0 DEF vars
<1>1. CASE ListLukses
  BY <1>1 DEF ListLukses, Inactive
<1>2. ASSUME NEW l \in Luks, Cancel(l) \/ OpenCached(l) \/ SkipCanceled(l) \/ OpenFails(l)
      PROVE  TodoClosed'
  BY <1>2 DEF Cancel, OpenCached, SkipCanceled, OpenFails, Visit, Visited, Error
<1>3. ASSUME NEW l \in Luks, NEW password \in Password, OpenAsked(l, password) PROVE TodoClosed'
  BY <1>3 DEF OpenAsked, Visit, Visited
<1>4. ASSUME NEW lv \in Lv, AutoActivate(lv) PROVE TodoClosed'
  BY <1>4, ActivationAssumption DEF AutoActivate
<1>5. CASE Activate \/ CountLvs \/ ActivateLvs \/ RecountLvs \/ EndRound \/ Return
  BY <1>5 DEF Activate, CountLvs, ActivateLvs, Error, RecountLvs, EndRound, Return
<1>6. CASE Deactivate \/ EndLukses \/ EndLvs
  BY <1>6 DEF Deactivate, EndLukses, EndLvs
<1>7. ASSUME NEW d \in Device, Close(d) PROVE TodoClosed'
  BY <1>7 DEF Close, Closing
<1> QED BY <1>0, <1>1, <1>2, <1>3, <1>4, <1>5, <1>6, <1>7 DEF Next, Step

\* What is closed stays closed until deactivate returns.
LEMMA StepStatusKept == TypeOK /\ StatusKept /\ [Next]_vars => StatusKept'
<1> SUFFICES ASSUME TypeOK, StatusKept, [Next]_vars PROVE StatusKept'
  OBVIOUS
<1> USE DEF StatusKept
<1>0. CASE UNCHANGED vars
  BY <1>0 DEF vars
<1>1. CASE Deactivate
  BY <1>1 DEF Deactivate
<1>2. ASSUME NEW d \in Device, Close(d) PROVE StatusKept'
  <2>1. active' \subseteq active /\ status' = status /\ at' = at
    BY <1>2 DEF Close
  <2> QED BY <2>1
<1>3. CASE EndLukses
  BY <1>3 DEF EndLukses, Deactivated
<1>4. CASE EndLvs
  BY <1>4 DEF EndLvs, Deactivated
<1>5. CASE Activate \/ CountLvs \/ ActivateLvs \/ RecountLvs \/ ListLukses \/ EndRound \/ Return
  BY <1>5 DEF Activate, CountLvs, ActivateLvs, Error, RecountLvs, ListLukses, EndRound, Return
<1>6. ASSUME NEW l \in Luks, Cancel(l) \/ OpenCached(l) \/ SkipCanceled(l) \/ OpenFails(l)
      PROVE  StatusKept'
  BY <1>6 DEF Cancel, OpenCached, SkipCanceled, OpenFails, Visit, Error
<1>7. ASSUME NEW l \in Luks, NEW password \in Password, OpenAsked(l, password) PROVE StatusKept'
  BY <1>7 DEF OpenAsked, Visit
<1>8. ASSUME NEW lv \in Lv, AutoActivate(lv) PROVE StatusKept'
  BY <1>8 DEF AutoActivate
<1> QED BY <1>0, <1>1, <1>2, <1>3, <1>4, <1>5, <1>6, <1>7, <1>8 DEF Next, Step

\* Errors are only counted up.
LEMMA StepErrors ==
  ASSUME errors \in Nat, [Next]_vars
  PROVE  errors' \in Nat /\ (errors' = 0 => errors = 0)
<1>1. errors' = errors \/ errors' = errors + 1
  BY DEF vars, Next, Step, Activate, Deactivate, CountLvs, ActivateLvs, RecountLvs, ListLukses,
         Cancel, OpenCached, SkipCanceled, OpenFails, OpenAsked, EndRound, Return, Close,
         EndLukses, EndLvs, AutoActivate, Error
<1> QED BY <1>1

\* vgchange activates all logical volumes if none is on another one.
LEMMA AllLvsActive ==
  ASSUME NoLvOnLv, TypeOK, active' = active \cup Inactive(Lv)
  PROVE  Inactive(Lv)' = {}
<1> SUFFICES ASSUME NEW lv \in Lv, On[lv] \subseteq active', lv \notin active' PROVE FALSE
  BY DEF Inactive, Visible
<1>1. On[lv] \cap Inactive(Lv) = {}
  BY DEF NoLvOnLv, Inactive
<1>2. On[lv] \subseteq active
  BY <1>1
<1> QED BY <1>2 DEF Inactive, Visible

\* The argument why nothing is left out: activate ends after a round in which
\* nothing was found and nothing was opened.
LEMMA StepRounds ==
  ASSUME TypeOK, NoLvOnLv, errors = 0, errors' = 0, LvsDone, QuietRound, [Next]_vars
  PROVE  LvsDone' /\ QuietRound'
<1> USE DEF LvsDone, QuietRound
<1>0. CASE UNCHANGED vars
  BY <1>0 DEF vars, Inactive, Visible
<1>1. CASE Activate
  BY <1>1 DEF Activate
<1>2. CASE CountLvs
  <2>1. before' = 0 <=> Inactive(Lv) = {}
    BY <1>2, CountInactive DEF CountLvs
  <2>2. Inactive(Lv)' = Inactive(Lv)
    BY <1>2 DEF CountLvs, Inactive, Visible
  <2> QED BY <1>2, <2>1, <2>2 DEF CountLvs
<1>3. CASE ActivateLvs
  <2>1. active' = active \cup Inactive(Lv) /\ at' = "recount" /\ before' = before
    BY <1>3 DEF ActivateLvs, Error
  <2> QED BY <1>3, <2>1, AllLvsActive DEF ActivateLvs
<1>4. CASE RecountLvs
  <2>1. Inactive(Lv)' = Inactive(Lv)
    BY <1>4 DEF RecountLvs, Inactive, Visible
  <2> QED BY <1>4, <2>1 DEF RecountLvs
<1>5. CASE ListLukses
  <2>1. Inactive(Lv)' = Inactive(Lv) /\ Inactive(Luks)' = Inactive(Luks)
    BY <1>5 DEF ListLukses, Inactive, Visible
  <2> QED BY <1>5, <2>1 DEF ListLukses
<1>6. ASSUME NEW l \in Luks, Cancel(l) PROVE LvsDone' /\ QuietRound'
  <2>1. Inactive(Lv)' = Inactive(Lv) /\ Inactive(Luks)' = Inactive(Luks)
    BY <1>6 DEF Cancel, Inactive, Visible
  <2>2. Uuid[l] \in Uuids /\ \A k \in Luks : Uuid[k] \in Uuids
    BY DEF Uuids
  <2>3. \A k \in Luks : k = l \/ cached[Uuid[k]] = Canceled => cached'[Uuid[k]] = Canceled
    BY <1>6, <2>2 DEF Cancel, TypeOK
  <2>4. Inactive(Luks) \subseteq Luks
    BY DEF Inactive
  <2> QED BY <1>6, <2>1, <2>3, <2>4 DEF Cancel, Visit, Visited
<1>7. ASSUME NEW l \in Luks, OpenCached(l) PROVE LvsDone' /\ QuietRound'
  <2>1. CASE cached[Uuid[l]] = Key[l]
    BY <1>7, <2>1 DEF OpenCached, Visit
  <2>2. CASE cached[Uuid[l]] # Key[l]
    <3>1. Inactive(Lv)' = Inactive(Lv) /\ Inactive(Luks)' = Inactive(Luks)
      BY <1>7, <2>2 DEF OpenCached, Inactive, Visible
    <3> QED BY <1>7, <2>2, <3>1 DEF OpenCached, Visit
  <2> QED BY <2>1, <2>2
<1>8. ASSUME NEW l \in Luks, SkipCanceled(l) PROVE LvsDone' /\ QuietRound'
  <2>1. Inactive(Lv)' = Inactive(Lv) /\ Inactive(Luks)' = Inactive(Luks)
    BY <1>8 DEF SkipCanceled, Inactive, Visible
  <2> QED BY <1>8, <2>1 DEF SkipCanceled, Visit, Visited
<1>9. ASSUME NEW l \in Luks, OpenFails(l) PROVE LvsDone' /\ QuietRound'
  BY <1>9 DEF OpenFails, Error
<1>10. ASSUME NEW l \in Luks, NEW password \in Password, OpenAsked(l, password)
       PROVE  LvsDone' /\ QuietRound'
  <2>1. CASE password = Key[l]
    BY <1>10, <2>1 DEF OpenAsked, Visit
  <2>2. CASE password # Key[l]
    <3>1. Inactive(Lv)' = Inactive(Lv) /\ Inactive(Luks)' = Inactive(Luks)
      BY <1>10, <2>2 DEF OpenAsked, Inactive, Visible
    <3> QED BY <1>10, <2>2, <3>1 DEF OpenAsked, Visit
  <2> QED BY <2>1, <2>2
<1>11. CASE EndRound
  <2>1. Inactive(Lv)' = Inactive(Lv) /\ Inactive(Luks)' = Inactive(Luks)
    BY <1>11 DEF EndRound, Inactive, Visible
  <2> QED BY <1>11, <2>1 DEF EndRound
<1>12. CASE Return \/ Deactivate \/ EndLukses \/ EndLvs
  BY <1>12 DEF Return, Deactivate, EndLukses, EndLvs
<1>13. ASSUME NEW d \in Device, Close(d) PROVE LvsDone' /\ QuietRound'
  BY <1>13 DEF Close, Closing
<1>14. ASSUME NEW lv \in Lv, AutoActivate(lv) PROVE LvsDone' /\ QuietRound'
  BY <1>14 DEF AutoActivate
<1> QED BY <1>0, <1>1, <1>2, <1>3, <1>4, <1>5, <1>6, <1>7, <1>8, <1>9, <1>10, <1>11, <1>12,
           <1>13, <1>14 DEF Next, Step

LEMMA StepIInv == IInv /\ [Next]_vars => IInv'
<1> SUFFICES ASSUME IInv, [Next]_vars PROVE IInv'
  OBVIOUS
<1>1. TypeOK' /\ TodoClosed' /\ StatusKept'
  BY StepType, StepTodoClosed, StepStatusKept DEF IInv
<1>2. errors' \in Nat /\ (errors' = 0 => errors = 0)
  BY StepErrors DEF IInv
<1>3. errors' = 0 /\ NoLvOnLv => LvsDone' /\ QuietRound'
  BY <1>2, StepRounds DEF IInv
<1> QED BY <1>1, <1>2, <1>3 DEF IInv, NoLvOnLv

THEOREM Invariance == Spec => []IInv
BY InitIInv, StepIInv, PTL DEF Spec

-----------------------------------------------------------------------------

\* The values of the state, in particular of the cache of passwords.
THEOREM TypeCorrect == Spec => []TypeOK
<1>1. IInv => TypeOK
  BY DEF IInv
<1> QED BY <1>1, Invariance, PTL

\* What deactivate() reports is true when it returns.
THEOREM StatusReported == Spec => []StatusTrue
<1>1. IInv => StatusTrue
  BY DEF IInv, StatusKept, StatusTrue
<1> QED BY <1>1, Invariance, PTL

\* When activate() returns without an error only LUKSes the user canceled, and
\* what is on them, are left, however LUKSes and logical volumes are stacked.
THEOREM NothingLeftOut == Spec => []ActivatesAllFlat
<1>1. IInv => ActivatesAllFlat
  <2> SUFFICES ASSUME IInv, NoLvOnLv, at = "activated", errors = 0,
                      NEW d \in Inactive(Device)
               PROVE  d \in Luks /\ cached[Uuid[d]] = Canceled
    BY DEF ActivatesAllFlat, ActivatesAll
  <2>1. d \in Inactive(Lv) \/ d \in Inactive(Luks)
    BY DEF Inactive, Device
  <2> QED BY <2>1 DEF IInv, QuietRound, Inactive
<1> QED BY <1>1, Invariance, PTL

\* A cached answer stays for the life of the program, and a password is cached
\* only when it opened a LUKS with the uuid.
THEOREM CacheSound == Spec => CacheKept
<1> DEFINE Kept == \A u \in Uuids :
                      /\ cached[u] # NotAsked => cached'[u] = cached[u]
                      /\ cached'[u] \in Password \ {cached[u]} =>
                            \E l \in active' \ active : Uuid[l] = u /\ Key[l] = cached'[u]
<1>1. ASSUME IInv, [Next]_vars PROVE Kept
  <2>0. CASE cached' = cached
    BY <2>0
  <2>1. ASSUME NEW l \in Luks, Cancel(l) PROVE Kept
    BY <1>1, <2>1, ActivationAssumption DEF Cancel, IInv, TypeOK
  <2>2. ASSUME NEW l \in Luks, NEW password \in Password, OpenAsked(l, password) PROVE Kept
    <3>1. l \notin active
      <4>1. TodoClosed /\ Visit(l)
        BY <1>1, <2>2 DEF OpenAsked, IInv
      <4> QED BY <4>1 DEF TodoClosed, Visit
    <3>2. CASE password = Key[l]
      <4>1. /\ active' = active \cup {l}
            /\ cached' = [cached EXCEPT ![Uuid[l]] = Key[l]]
            /\ cached[Uuid[l]] = NotAsked
        BY <2>2, <3>2 DEF OpenAsked
      <4> QED BY <1>1, <3>1, <4>1 DEF IInv, TypeOK
    <3> QED BY <2>2, <3>2, <2>0 DEF OpenAsked
  <2> QED BY <1>1, <2>0, <2>1, <2>2
          DEF vars, Next, Step, Activate, Deactivate, CountLvs, ActivateLvs, RecountLvs,
              ListLukses, OpenCached, SkipCanceled, OpenFails, EndRound, Return, Close,
              EndLukses, EndLvs, AutoActivate
<1>2. IInv /\ [Next]_vars => [Kept]_vars
  BY <1>1
<1> QED BY <1>2, Invariance, PTL DEF Spec, CacheKept
-----------------------------------------------------------------------------

\* In which of the 2 * Rounds functions that deactivate calls, for LUKS and LVM in
\* turn, a device can be closed: after all devices on it, whatever the order in the
\* list of a function.
Schedule(turn) == /\ turn \in [Device -> 1 .. 2 * Rounds]
                  /\ \A l \in Luks : turn[l] \in {1, 3, 5}
                  /\ \A lv \in Lv : turn[lv] \in {2, 4, 6}
                  /\ \A c \in Device : \A d \in On[c] : turn[c] < turn[d]

InUse(d) == d \in Busy \/ Held(d)

\* The devices whose turn was are closed or in use.
Settled(turn, n) == \A d \in active : turn[d] <= n => InUse(d)

\* The devices whose turn is are too, or they are still listed.
Settling(turn, n) == /\ Settled(turn, n - 1)
                     /\ \A d \in active : turn[d] = n => d \in todo \/ InUse(d)

Descent(turn) == /\ at = "luks" => Settling(turn, 2 * round - 1)
                 /\ at = "lvm_lv" => Settling(turn, 2 * round)
                 /\ at = "deactivated" => \A d \in active : InUse(d)

\* What is in use stays so: what is on it had its turn, and is in use itself.
LEMMA CloseSettles ==
  ASSUME TypeOK, NEW turn, Schedule(turn), NEW n \in Int, Settling(turn, n),
         NEW d \in Device, Close(d)
  PROVE  Settling(turn, n)'
<1>1. /\ todo' = todo \ {d}
      /\ active' = IF InUse(d) THEN active ELSE active \ {d}
  BY DEF Close, InUse
<1>2. active' \subseteq active /\ active \subseteq Device
  BY <1>1 DEF TypeOK
<1>3. ASSUME NEW x \in active', turn[x] <= n, InUse(x) PROVE InUse(x)'
  <2>1. CASE x \in Busy
    BY <2>1 DEF InUse
  <2>2. CASE Held(x)
    <3>1. PICK c \in active : x \in On[c]
      BY <2>2 DEF Held
    <3>2. c \in Device /\ x \in Device
      BY <1>2
    <3>3. turn[c] \in Int /\ turn[x] \in Int /\ turn[c] < turn[x]
      BY <3>1, <3>2 DEF Schedule
    <3>4. turn[c] <= n - 1
      BY <1>3, <3>3
    <3>5. InUse(c)
      BY <3>4 DEF Settling, Settled
    <3>6. c \in active'
      BY <1>1, <3>5
    <3> QED BY <3>1, <3>6 DEF InUse, Held
  <2> QED BY <1>3, <2>1, <2>2 DEF InUse
<1>4. ASSUME NEW x \in active', turn[x] <= n - 1 PROVE InUse(x)'
  <2>1. x \in Device /\ turn[x] \in Int
    BY <1>2 DEF Schedule
  <2>2. turn[x] <= n
    BY <1>4, <2>1
  <2>3. InUse(x)
    BY <1>2, <1>4 DEF Settling, Settled
  <2> QED BY <1>3, <2>2, <2>3
<1>5. ASSUME NEW x \in active', turn[x] = n, x \notin todo' PROVE InUse(x)'
  <2>1. InUse(x)
    <3>1. CASE x = d
      BY <1>1, <3>1
    <3>2. CASE x # d
      BY <1>1, <1>2, <1>5, <3>2 DEF Settling
    <3> QED BY <3>1, <3>2
  <2> QED BY <1>3, <1>5, <2>1
<1>6. Settled(turn, n - 1)'
  BY <1>4 DEF Settled
<1> QED BY <1>5, <1>6 DEF Settling

\* A function that has closed what it can ends, and the other one lists its
\* devices, unless there are none left.
LEMMA NextSettles ==
  ASSUME TypeOK, NEW turn, Schedule(turn), NEW n \in Int, Settling(turn, n), todo = {},
         active' = active, NEW S \in SUBSET Device,
         \A d \in Device : turn[d] = n + 1 => d \in S,
         todo' = active \cap S \/ active \cap S = {}
  PROVE  Settling(turn, n + 1)'
<1>1. active \subseteq Device
  BY DEF TypeOK
<1>2. ASSUME NEW x \in active, turn[x] <= n PROVE InUse(x)'
  <2>1. turn[x] \in Int
    BY <1>1 DEF Schedule
  <2>2. turn[x] <= n - 1 \/ turn[x] = n
    BY <1>2, <2>1
  <2>3. InUse(x)
    BY <2>2 DEF Settling, Settled
  <2> QED BY <2>3 DEF InUse, Held
<1>3. Settled(turn, n)'
  BY <1>2 DEF Settled
<1>4. n + 1 - 1 = n
  OBVIOUS
<1>5. ASSUME NEW x \in active', turn[x] = n + 1 PROVE x \in todo'
  BY <1>1, <1>5
<1> QED BY <1>3, <1>4, <1>5 DEF Settling

\* The last function leaves only what is in use.
LEMMA AllSettled ==
  ASSUME TypeOK, NEW turn, Schedule(turn), Settling(turn, 2 * Rounds), todo = {}
  PROVE  \A d \in active : InUse(d)
<1> SUFFICES ASSUME NEW d \in active PROVE InUse(d)
  OBVIOUS
<1>1. turn[d] \in 1 .. 6
  BY DEF TypeOK, Schedule, Rounds
<1>2. turn[d] <= 2 * Rounds - 1 \/ turn[d] = 2 * Rounds
  BY <1>1 DEF Rounds
<1> QED BY <1>2 DEF Settling, Settled

\* Every step keeps the descent.
LEMMA StepDescent ==
  ASSUME NEW turn, Schedule(turn), IInv, Descent(turn), [Next]_vars
  PROVE  Descent(turn)'
<1> USE DEF Descent
<1>t. TypeOK /\ TypeOK' /\ StatusKept'
  BY StepIInv DEF IInv
<1>r. round \in Int /\ round' \in Int
  BY <1>t DEF TypeOK, Rounds
<1>0. CASE UNCHANGED vars
  BY <1>0 DEF vars, Settling, Settled, InUse, Held
<1>1. CASE Deactivate
  <2>1. at' = "luks" /\ round' = 1 /\ active' = active /\ todo' = active \cap Luks
    BY <1>1 DEF Deactivate
  <2>2. ASSUME NEW d \in active PROVE turn[d] \in Int /\ turn[d] >= 1
    BY <1>t DEF TypeOK, Schedule, Rounds
  <2>3. Settled(turn, 0)'
    BY <2>1, <2>2 DEF Settled
  <2>4. ASSUME NEW d \in active, turn[d] = 1 PROVE d \in Luks
    BY <1>t, <2>4 DEF TypeOK, Schedule, Device
  <2>5. Settling(turn, 1)'
    BY <2>1, <2>3, <2>4 DEF Settling
  <2>6. 2 * 1 - 1 = 1
    OBVIOUS
  <2> QED BY <2>1, <2>5, <2>6
<1>2. ASSUME NEW d \in Device, Close(d) PROVE Descent(turn)'
  <2>1. at' = at /\ round' = round /\ at \in {"luks", "lvm_lv"}
    BY <1>2 DEF Close, Closing
  <2>2. PICK n \in Int : n = IF at = "luks" THEN 2 * round - 1 ELSE 2 * round
    BY <1>r
  <2>3. CASE at = "luks"
    <3>1. Settling(turn, n)
      BY <2>2, <2>3
    <3>2. Settling(turn, n)'
      BY <1>t, <1>2, <3>1, CloseSettles
    <3> QED BY <2>1, <2>2, <2>3, <3>2
  <2>4. CASE at = "lvm_lv"
    <3>1. Settling(turn, n)
      BY <2>2, <2>4
    <3>2. Settling(turn, n)'
      BY <1>t, <1>2, <3>1, CloseSettles
    <3> QED BY <2>1, <2>2, <2>4, <3>2
  <2> QED BY <2>1, <2>3, <2>4
<1>3. CASE EndLukses
  <2>1. /\ at = "luks" /\ at' = "lvm_lv" /\ todo = {}
        /\ active' = active /\ round' = round
        /\ todo' = IF "lvm_lv" \in status THEN {} ELSE active \cap Lv
        /\ status \subseteq status'
    BY <1>3 DEF EndLukses
  <2>2. todo' = active \cap Lv \/ active \cap Lv = {}
    BY <1>t, <2>1 DEF StatusKept, Subsystem
  <2>3. PICK n \in Int : n = 2 * round - 1
    BY <1>r
  <2>4. Settling(turn, n + 1)'
    <3>1. \A d \in Device : turn[d] = n + 1 => d \in Lv
      BY <1>r, <2>3 DEF Schedule, Device
    <3>2. Settling(turn, n) /\ Lv \in SUBSET Device
      BY <2>1, <2>3 DEF Device
    <3> QED BY <1>t, <2>1, <2>2, <3>1, <3>2, NextSettles
  <2>5. n + 1 = 2 * round'
    BY <1>r, <2>1, <2>3
  <2> QED BY <2>1, <2>4, <2>5
<1>4. CASE EndLvs
  <2>1. /\ at = "lvm_lv" /\ todo = {} /\ active' = active
        /\ IF status' = {"luks", "lvm_lv"} \/ round = Rounds
           THEN at' = "deactivated"
           ELSE /\ at' = "luks"
                /\ round' = round + 1
                /\ todo' = IF "luks" \in status' THEN {} ELSE active \cap Luks
    BY <1>4 DEF EndLvs
  <2>2. Settling(turn, 2 * round)
    BY <2>1
  <2>3. CASE status' = {"luks", "lvm_lv"}
    <3>1. active \cap Luks = {} /\ active \cap Lv = {} /\ at' = "deactivated"
      BY <1>t, <2>1, <2>3 DEF StatusKept, Subsystem
    <3>2. active = {}
      BY <1>t, <3>1 DEF TypeOK, Device
    <3> QED BY <2>1, <3>1, <3>2
  <2>4. CASE round = Rounds /\ at' = "deactivated"
    <3>1. \A d \in active : InUse(d)
      BY <1>t, <2>1, <2>2, <2>4, AllSettled
    <3> QED BY <2>1, <2>4, <3>1 DEF InUse, Held
  <2>5. CASE at' = "luks" /\ round' = round + 1
    <3>1. todo' = active \cap Luks \/ active \cap Luks = {}
      BY <1>t, <2>1, <2>5 DEF StatusKept, Subsystem
    <3>2. PICK n \in Int : n = 2 * round
      BY <1>r
    <3>3. Settling(turn, n + 1)'
      <4>1. \A d \in Device : turn[d] = n + 1 => d \in Luks
        BY <1>r, <3>2 DEF Schedule, Device
      <4>2. Settling(turn, n) /\ Luks \in SUBSET Device
        BY <2>2, <3>2 DEF Device
      <4> QED BY <1>t, <2>1, <3>1, <4>1, <4>2, NextSettles
    <3>4. n + 1 = 2 * round' - 1
      BY <1>r, <2>5, <3>2
    <3> QED BY <2>5, <3>3, <3>4
  <2> QED BY <2>1, <2>3, <2>4, <2>5
<1>5. CASE Activate \/ CountLvs \/ ActivateLvs \/ RecountLvs \/ ListLukses \/ EndRound \/ Return
  BY <1>5 DEF Activate, CountLvs, ActivateLvs, Error, RecountLvs, ListLukses, EndRound, Return
<1>6. ASSUME NEW l \in Luks, Cancel(l) \/ OpenCached(l) \/ SkipCanceled(l) \/ OpenFails(l)
      PROVE  Descent(turn)'
  BY <1>6 DEF Cancel, OpenCached, SkipCanceled, OpenFails, Visit, Error
<1>7. ASSUME NEW l \in Luks, NEW password \in Password, OpenAsked(l, password)
      PROVE  Descent(turn)'
  BY <1>7 DEF OpenAsked, Visit
<1>8. ASSUME NEW lv \in Lv, AutoActivate(lv) PROVE Descent(turn)'
  BY <1>8 DEF AutoActivate
<1> QED BY <1>0, <1>1, <1>2, <1>3, <1>4, <1>5, <1>6, <1>7, <1>8 DEF Next, Step

\* The three rounds of deactivate() take down every stack whose devices have their
\* turns in them: stacks of five alternating devices, for example, and all stacks of
\* up to three devices.  Only what is in use, and what is beneath it, is left.
THEOREM TakenDown ==
  ASSUME NEW turn, Schedule(turn)
  PROVE  Spec => []DeactivatesAll
<1>1. Init => Descent(turn)
  BY DEF Init, Descent
<1>2. IInv /\ Descent(turn) /\ [Next]_vars => Descent(turn)'
  BY StepDescent
<1>3. Descent(turn) => DeactivatesAll
  BY DEF Descent, DeactivatesAll, InUse
<1> QED BY <1>1, <1>2, <1>3, Invariance, PTL DEF Spec

-----------------------------------------------------------------------------
(* Probing (Prober.tla).  Base and Cone are recursive; what their recursion    *)
(* says holds for any stack: the least relation closed under it is a solution. *)

\* What Base collects of f below d.
BaseStep(f, d) == UNION {IF b \in Device THEN {b} ELSE f[b] : b \in Beneath[d]}

\* P has every pair that Base makes of P.
BaseClosed(P) ==
  \A d \in Everything : \A b \in Beneath[d] :
     /\ b \in Device => <<d, b>> \in P
     /\ b \notin Device => \A x \in Device : <<b, x>> \in P => <<d, x>> \in P

\* The recursion of Base as an equation.
LEMMA BaseOf == \A d \in Everything : Base[d] = BaseStep(Base, d)
<1> DEFINE Least(d) == {x \in Device : \A P \in SUBSET (Everything \X Device) : BaseClosed(P) => <<d, x>> \in P}
           f == [d \in Everything |-> Least(d)]
<1>1. \A d \in Everything : Beneath[d] \subseteq Everything
  BY ProberAssumption
<1>2. ASSUME NEW d \in Everything, NEW x \in BaseStep(f, d) PROVE x \in Least(d)
  <2>1. PICK b \in Beneath[d] : x \in IF b \in Device THEN {b} ELSE f[b]
    BY <1>2 DEF BaseStep
  <2>2. b \in Everything
    BY <1>1
  <2>3. CASE b \in Device
    BY <2>1, <2>3 DEF BaseClosed
  <2>4. CASE b \notin Device
    <3>1. x \in Least(b)
      BY <2>1, <2>2, <2>4
    <3> QED BY <2>4, <3>1 DEF BaseClosed
  <2> QED BY <2>3, <2>4
<1>3. ASSUME NEW d \in Everything, NEW x \in Least(d) PROVE x \in BaseStep(f, d)
  <2> DEFINE P == {p \in Everything \X Device : p[2] \in BaseStep(f, p[1])}
  <2>1. BaseClosed(P)
    <3> SUFFICES ASSUME NEW c \in Everything, NEW b \in Beneath[c]
                 PROVE  /\ b \in Device => <<c, b>> \in P
                        /\ b \notin Device => \A y \in Device : <<b, y>> \in P => <<c, y>> \in P
      BY DEF BaseClosed
    <3>1. b \in Everything
      BY <1>1
    <3>2. ASSUME b \in Device PROVE <<c, b>> \in P
      BY <3>2 DEF BaseStep
    <3>3. ASSUME b \notin Device, NEW y \in Device, <<b, y>> \in P PROVE <<c, y>> \in P
      <4>1. y \in f[b]
        BY <1>2, <3>1, <3>3
      <4>2. y \in BaseStep(f, c)
        <5> HIDE DEF f
        <5> QED BY <3>3, <4>1 DEF BaseStep
      <4> QED BY <3>3, <4>2
    <3> QED BY <3>2, <3>3
  <2>2. P \in SUBSET (Everything \X Device)
    OBVIOUS
  <2>3. <<d, x>> \in P
    <3> HIDE DEF P
    <3> QED BY <2>1, <2>2
  <2> QED BY <2>3
<1>4. f = [d \in Everything |-> BaseStep(f, d)]
  <2>1. \A d \in Everything : f[d] = BaseStep(f, d)
    <3> SUFFICES ASSUME NEW d \in Everything PROVE Least(d) = BaseStep(f, d)
      OBVIOUS
    <3> HIDE DEF f, Least
    <3> QED BY <1>2, <1>3
  <2>2. f = [d \in Everything |-> f[d]]
    OBVIOUS
  <2> HIDE DEF f
  <2> QED BY <2>1, <2>2
<1> DEFINE Q(g) == g = [d \in Everything |-> UNION {IF b \in Device THEN {b} ELSE g[b] : b \in Beneath[d]}]
<1>5. Q(f)
  <2> HIDE DEF f
  <2> QED BY <1>4 DEF BaseStep
<1>6. Q(CHOOSE g : Q(g))
  <2> HIDE DEF Q
  <2> QED BY <1>5
<1>7. Base = CHOOSE g : Q(g)
  BY DEF Base
<1>8. Q(Base)
  <2> HIDE DEF Q
  <2> QED BY <1>6, <1>7
<1> QED BY <1>8 DEF BaseStep

\* What Cone collects of f below d.
ConeStep(f, d) == {d} \cup UNION {f[b] : b \in Beneath[d]}

\* P has every pair that Cone makes of P.
ConeClosed(P) ==
  \A d \in Everything : /\ <<d, d>> \in P
                        /\ \A b \in Beneath[d], x \in Everything : <<b, x>> \in P => <<d, x>> \in P

\* The recursion of Cone as an equation.
LEMMA ConeOf == \A d \in Everything : Cone[d] = ConeStep(Cone, d)
<1> DEFINE Least(d) == {x \in Everything : \A P \in SUBSET (Everything \X Everything) : ConeClosed(P) => <<d, x>> \in P}
           f == [d \in Everything |-> Least(d)]
<1>1. \A d \in Everything : Beneath[d] \subseteq Everything
  BY ProberAssumption
<1>2. ASSUME NEW d \in Everything, NEW x \in ConeStep(f, d) PROVE x \in Least(d)
  <2>1. CASE x = d
    BY <2>1 DEF ConeClosed
  <2>2. ASSUME NEW b \in Beneath[d], x \in f[b] PROVE x \in Least(d)
    <3>1. x \in Least(b)
      BY <1>1, <2>2
    <3> QED BY <3>1 DEF ConeClosed
  <2> QED BY <2>1, <2>2 DEF ConeStep
<1>3. ASSUME NEW d \in Everything, NEW x \in Least(d) PROVE x \in ConeStep(f, d)
  <2> DEFINE P == {p \in Everything \X Everything : p[2] \in ConeStep(f, p[1])}
  <2>1. ConeClosed(P)
    <3> SUFFICES ASSUME NEW c \in Everything
                 PROVE  /\ <<c, c>> \in P
                        /\ \A b \in Beneath[c], y \in Everything : <<b, y>> \in P => <<c, y>> \in P
      BY DEF ConeClosed
    <3>1. <<c, c>> \in P
      BY DEF ConeStep
    <3>2. ASSUME NEW b \in Beneath[c], NEW y \in Everything, <<b, y>> \in P PROVE <<c, y>> \in P
      <4>1. y \in f[b]
        BY <1>1, <1>2, <3>2
      <4>2. y \in ConeStep(f, c)
        <5> HIDE DEF f
        <5> QED BY <4>1 DEF ConeStep
      <4> QED BY <4>2
    <3> QED BY <3>1, <3>2
  <2>2. P \in SUBSET (Everything \X Everything)
    OBVIOUS
  <2>3. <<d, x>> \in P
    <3> HIDE DEF P
    <3> QED BY <2>1, <2>2
  <2> QED BY <2>3
<1>4. f = [d \in Everything |-> ConeStep(f, d)]
  <2>1. \A d \in Everything : f[d] = ConeStep(f, d)
    <3> SUFFICES ASSUME NEW d \in Everything PROVE Least(d) = ConeStep(f, d)
      OBVIOUS
    <3> HIDE DEF f, Least
    <3> QED BY <1>2, <1>3
  <2>2. f = [d \in Everything |-> f[d]]
    OBVIOUS
  <2> HIDE DEF f
  <2> QED BY <2>1, <2>2
<1> DEFINE Q(g) == g = [d \in Everything |-> {d} \cup UNION {g[b] : b \in Beneath[d]}]
<1>5. Q(f)
  <2> HIDE DEF f
  <2> QED BY <1>4 DEF ConeStep
<1>6. Q(CHOOSE g : Q(g))
  <2> HIDE DEF Q
  <2> QED BY <1>5
<1>7. Cone = CHOOSE g : Q(g)
  BY DEF Cone
<1>8. Q(Cone)
  <2> HIDE DEF Q
  <2> QED BY <1>6, <1>7
<1> QED BY <1>8 DEF ConeStep

-----------------------------------------------------------------------------
(* The passes and what they have found.                                        *)

Pos == [idle |-> 0, disk |-> 1, multipath |-> 2, md |-> 3, vg |-> 4, pv |-> 5, lv |-> 6, bcache |-> 7,
        cset |-> 8, holders |-> 9, partitions |-> 10, luks |-> 11, flush |-> 12, roles |-> 13,
        filesystems |-> 14, btrfs |-> 15, done |-> 16]

\* The loop of pass p has been over v.
Over(p, v) == Pos[p] < Pos[pass] \/ (p = pass /\ v \notin visit)

\* No error was about d or anything beneath it.
Clean(d) == Cone[d] \cap complaints = {}

\* What pass 1a finds, and for which of it pass 1b looks what it is on.
Simple == Disk \cup Multipath \cup Md \cup Vg \cup Pv \cup Lv \cup Bcache \cup Cset
Holding == Multipath \cup Md \cup Pv \cup Bcache \cup Cset

\* What is found on one device, and the pass that does it.
Content == Table \cup Luks \cup Filesystem
PassOf(d) == IF d \in Table THEN "partitions" ELSE IF d \in Luks THEN "luks" ELSE "filesystems"

\* A pass has only devices to visit that are known.
Visits ==
  /\ pass \in DOMAIN Kind => visit \subseteq Kind[pass] \cap reported
  /\ pass = "holders" => visit \subseteq known \cap Holding
  /\ pass = "partitions" => visit \subseteq known \cap Partitionable
  /\ pass \in {"luks", "filesystems"} => visit \subseteq known \cap BlkDevice
  /\ pass = "flush" => visit \subseteq pending
  /\ pass = "roles" => visit \subseteq known \cap Md
  /\ pass = "btrfs" => visit \subseteq Btrfs \cap reported

\* Pass 1a finds what it has been over, but for what it complained about.
KnownSimple ==
  /\ known \subseteq reported
  /\ \A k \in DOMAIN Kind : \A d \in Kind[k] \cap reported :
        /\ d \in known => Over(k, d)
        /\ Over(k, d) /\ d \notin complaints => d \in known \cap named \cap sized

\* The later ones find what is clean.
KnownContent ==
  \A d \in Content \cap reported : \A x \in Beneath[d] :
     Clean(d) /\ Over(PassOf(d), x) => d \in known /\ <<x, d>> \in holders

KnownPartitions ==
  \A d \in Partition \cap reported : \A t \in Beneath[d] : \A x \in Beneath[t] :
     Clean(d) /\ Over("partitions", x) => d \in known /\ <<t, d>> \in holders

KnownBtrfs ==
  \A d \in Btrfs \cap reported :
     Clean(d) /\ Over("btrfs", d) => d \in known /\ \A x \in Beneath[d] : <<x, d>> \in holders

\* Edges made by pass 1a.
HeldVgs ==
  /\ \A d \in Vg \cap reported : \A pv \in Beneath[d] : Over("pv", pv) => <<pv, d>> \in holders
  /\ \A d \in Lv \cap reported : \A v \in Beneath[d] : Over("lv", d) => <<v, d>> \in holders

\* Edges that pass 1b asked for are made or pending, at once if the device of that
\* name was known.
HeldCalls ==
  \A d \in known \cap Holding : Over("holders", d) =>
     \A c \in Calls(d) :
        /\ Clean(c.edge[2]) => c.edge \in holders \/ (c \in pending /\ ~ Over("flush", c))
        /\ c.name \in known \cap Simple => c.edge \in holders

\* Only edges that should be there are pending.
Pendings ==
  \A c \in pending : /\ c.edge \in RealHolders
                     /\ c.name \in reported \cap (Simple \cup BlkDevice)
                     /\ c.edge[2] \in Holding

\* The content of a RAID or multipath that was not found is taken for that of x.
Spurious(x, d) == /\ d \in Content
                  /\ Pos[pass] > Pos["holders"]
                  /\ \E m \in Mirrors : m[1] = x /\ m[2] \in Beneath[d] /\ m[2] \in complaints \ known

\* No other edges are invented, and none is made before its pass.
HoldersReal ==
  \A e \in holders : /\ e \in RealHolders \/ Spurious(e[1], e[2])
                     /\ e[2] \in Content /\ e[1] \in Beneath[e[2]] => Over(PassOf(e[2]), e[1])
                     /\ e[2] \in Btrfs => Over("btrfs", e[2])

\* As long as errors were about single devices.
Local == pass # "failed" /\ complaints \subseteq Everything

Found == /\ Visits
         /\ KnownSimple
         /\ KnownContent
         /\ KnownPartitions
         /\ KnownBtrfs
         /\ HeldVgs
         /\ HeldCalls
         /\ Pendings
         /\ HoldersReal
         /\ roles \subseteq Md \cap reported

\* Without faults there is nothing to complain about.
Unfailing == faults = 0 => /\ pass # "failed"
                           /\ complaints = {}
                           /\ \A m \in Md \cap reported : Over("roles", m) => m \in roles

\* What is active is on what is active.
Standing == active \subseteq Device /\ \A d \in active : On[d] \subseteq active

\* Between two probes nothing is left of the first one.
Idle == {reported, visit, known, holders, pending, named, sized, roles, complaints} = {{}}

\* A LUKS is opened while what it is on is active.
Opening == at = "open" => todo \subseteq Luks /\ \A l \in todo : Visible(l)

ProberInv == /\ pass \in DOMAIN Pos \cup {"failed"}
             /\ faults \in Nat
             /\ pass = "idle" => Idle
             /\ pass # "idle" => reported = Reported
             /\ Standing
             /\ Opening
             /\ Unfailing
             /\ pass # "idle" /\ Local => Found

\* No device is of two classes.
LEMMA Apart ==
  /\ Disk \cap (Multipath \cup Md \cup Bcache \cup Cset \cup Pv \cup Vg \cup Table \cup Partition \cup Lv \cup Luks \cup Filesystem \cup Btrfs) = {}
  /\ Multipath \cap (Md \cup Bcache \cup Cset \cup Pv \cup Vg \cup Table \cup Partition \cup Lv \cup Luks \cup Filesystem \cup Btrfs) = {}
  /\ Md \cap (Bcache \cup Cset \cup Pv \cup Vg \cup Table \cup Partition \cup Lv \cup Luks \cup Filesystem \cup Btrfs) = {}
  /\ Bcache \cap (Cset \cup Pv \cup Vg \cup Table \cup Partition \cup Lv \cup Luks \cup Filesystem \cup Btrfs) = {}
  /\ Cset \cap (Pv \cup Vg \cup Table \cup Partition \cup Lv \cup Luks \cup Filesystem \cup Btrfs) = {}
  /\ Pv \cap (Vg \cup Table \cup Partition \cup Lv \cup Luks \cup Filesystem \cup Btrfs) = {}
  /\ Vg \cap (Table \cup Partition \cup Lv \cup Luks \cup Filesystem \cup Btrfs) = {}
  /\ Table \cap (Partition \cup Lv \cup Luks \cup Filesystem \cup Btrfs) = {}
  /\ Partition \cap (Lv \cup Luks \cup Filesystem \cup Btrfs) = {}
  /\ Lv \cap (Luks \cup Filesystem \cup Btrfs) = {}
  /\ Luks \cap (Filesystem \cup Btrfs) = {}
  /\ Filesystem \cap Btrfs = {}
<1>1. \A i, j \in 1 .. 13 : i # j => Classes[i] \cap Classes[j] = {}
  BY StackAssumption DEF Classes
<1>2. /\ Classes[1] = Disk /\ Classes[2] = Multipath /\ Classes[3] = Md /\ Classes[4] = Bcache
      /\ Classes[5] = Cset /\ Classes[6] = Pv /\ Classes[7] = Vg /\ Classes[8] = Table
      /\ Classes[9] = Partition /\ Classes[10] = Lv /\ Classes[11] = Luks /\ Classes[12] = Filesystem
      /\ Classes[13] = Btrfs
  BY DEF Classes
<1>3. \A i \in 1 .. 12 : \A j \in (i + 1) .. 13 : Classes[i] \cap Classes[j] = {}
  BY <1>1
<1>4. \A j \in 2 .. 13 : Disk \cap Classes[j] = {}
  BY <1>2, <1>3
<1>5. \A j \in 3 .. 13 : Multipath \cap Classes[j] = {}
  BY <1>2, <1>3
<1>6. \A j \in 4 .. 13 : Md \cap Classes[j] = {}
  BY <1>2, <1>3
<1>7. \A j \in 5 .. 13 : Bcache \cap Classes[j] = {}
  BY <1>2, <1>3
<1>8. \A j \in 6 .. 13 : Cset \cap Classes[j] = {}
  BY <1>2, <1>3
<1>9. \A j \in 7 .. 13 : Pv \cap Classes[j] = {}
  BY <1>2, <1>3
<1>10. \A j \in 8 .. 13 : Vg \cap Classes[j] = {}
  BY <1>2, <1>3
<1>11. \A j \in 9 .. 13 : Table \cap Classes[j] = {}
  BY <1>2, <1>3
<1>12. \A j \in 10 .. 13 : Partition \cap Classes[j] = {}
  BY <1>2, <1>3
<1>13. \A j \in 11 .. 13 : Lv \cap Classes[j] = {}
  BY <1>2, <1>3
<1>14. \A j \in 12 .. 13 : Luks \cap Classes[j] = {}
  BY <1>2, <1>3
<1>15. Filesystem \cap Btrfs = {}
  BY <1>2, <1>3
<1> QED
  <2>1. Disk \cap (Multipath \cup Md \cup Bcache \cup Cset \cup Pv \cup Vg \cup Table \cup Partition \cup Lv \cup Luks \cup Filesystem \cup Btrfs) = {}
    BY <1>2, <1>4
  <2>2. Multipath \cap (Md \cup Bcache \cup Cset \cup Pv \cup Vg \cup Table \cup Partition \cup Lv \cup Luks \cup Filesystem \cup Btrfs) = {}
    BY <1>2, <1>5
  <2>3. Md \cap (Bcache \cup Cset \cup Pv \cup Vg \cup Table \cup Partition \cup Lv \cup Luks \cup Filesystem \cup Btrfs) = {}
    BY <1>2, <1>6
  <2>4. Bcache \cap (Cset \cup Pv \cup Vg \cup Table \cup Partition \cup Lv \cup Luks \cup Filesystem \cup Btrfs) = {}
    BY <1>2, <1>7
  <2>5. Cset \cap (Pv \cup Vg \cup Table \cup Partition \cup Lv \cup Luks \cup Filesystem \cup Btrfs) = {}
    BY <1>2, <1>8
  <2>6. Pv \cap (Vg \cup Table \cup Partition \cup Lv \cup Luks \cup Filesystem \cup Btrfs) = {}
    BY <1>2, <1>9
  <2>7. Vg \cap (Table \cup Partition \cup Lv \cup Luks \cup Filesystem \cup Btrfs) = {}
    BY <1>2, <1>10
  <2>8. Table \cap (Partition \cup Lv \cup Luks \cup Filesystem \cup Btrfs) = {}
    BY <1>2, <1>11
  <2>9. Partition \cap (Lv \cup Luks \cup Filesystem \cup Btrfs) = {}
    BY <1>2, <1>12
  <2>10. Lv \cap (Luks \cup Filesystem \cup Btrfs) = {}
    BY <1>2, <1>13
  <2>11. Luks \cap (Filesystem \cup Btrfs) = {}
    BY <1>2, <1>14
  <2> QED BY <1>15, <2>1, <2>2, <2>3, <2>4, <2>5, <2>6, <2>7, <2>8, <2>9, <2>10, <2>11

\* What a device is on is of the classes it can be on.
LEMMA Everythings ==
  /\ \A d \in Everything : Beneath[d] \subseteq Everything
  /\ Everything = Simple \cup Content \cup Partition \cup Btrfs
  /\ BlkDevice \subseteq Everything /\ Device \subseteq BlkDevice
BY ProberAssumption DEF Everything, BlkDevice, Partitionable, Simple, Content, Device

\* What is beneath a device that is there is there, and active if it can be.
LEMMA ThereBeneath ==
  ASSUME Standing, NEW d \in Everything, There(d), NEW b \in Beneath[d]
  PROVE  There(b) /\ is_active(b)
<1>1. b \in Everything /\ Base[d] = BaseStep(Base, d) /\ Base[d] \subseteq active
  BY BaseOf, Everythings DEF There
<1>2. CASE b \in Device
  <2>1. b \in Base[d]
    BY <1>1, <1>2 DEF BaseStep
  <2>2. b \in active /\ On[b] \subseteq active
    BY <1>1, <2>1 DEF Standing
  <2>3. On[b] = Base[b]
    BY <1>2, ProberAssumption
  <2> QED BY <2>2, <2>3 DEF There, is_active
<1>3. CASE b \notin Device
  <2>1. Base[b] \subseteq Base[d]
    BY <1>1, <1>3 DEF BaseStep
  <2> QED BY <1>1, <1>3, <2>1 DEF There, is_active
<1> QED BY <1>2, <1>3

\* What is there is reported, and what is reported is there unless it is of LVM.
LEMMA ReportedThere ==
  ASSUME Standing
  PROVE  /\ Reported \subseteq Everything
         /\ \A d \in Everything : There(d) => d \in Reported
         /\ \A d \in Reported \ (Vg \cup Pv \cup Lv) : There(d)
         /\ Disk \subseteq Reported
<1> DEFINE vgs == {v \in Vg : \E pv \in Beneath[v] : There(pv)}
<1>1. Reported = {d \in Everything \ (Vg \cup Pv \cup Lv) : There(d)}
                   \cup vgs \cup {pv \in Pv : There(pv) \/ \E v \in vgs : pv \in Beneath[v]}
                   \cup {lv \in Lv : Beneath[lv] \subseteq vgs}
  BY DEF Reported
<1>2. Vg \subseteq Everything /\ Pv \subseteq Everything /\ Lv \subseteq Everything
  BY Everythings DEF Simple
<1>3. vgs \subseteq Vg
  OBVIOUS
<1>4. ASSUME NEW v \in Vg, There(v) PROVE v \in vgs
  <2>1. PICK pv : pv \in Beneath[v]
    BY StackAssumption
  <2>2. There(pv)
    BY <1>2, <1>4, <2>1, ThereBeneath
  <2> QED BY <2>1, <2>2
<1>5. ASSUME NEW d \in Everything, There(d) PROVE d \in Reported
  <2>1. CASE d \in Vg
    BY <1>1, <1>4, <1>5, <2>1
  <2>2. CASE d \in Lv
    <3>1. PICK v \in Vg : Beneath[d] = {v}
      BY <2>2, StackAssumption
    <3>2. v \in vgs
      BY <1>4, <1>5, <3>1, ThereBeneath
    <3> HIDE DEF vgs
    <3> QED BY <1>1, <2>2, <3>1, <3>2
  <2> HIDE DEF vgs
  <2> QED BY <1>1, <1>5, <2>1, <2>2
<1>6. \A d \in Reported \ (Vg \cup Pv \cup Lv) : There(d)
  <2> HIDE DEF vgs
  <2> QED BY <1>1, <1>3
<1>7. ASSUME NEW d \in Disk PROVE There(d)
  <2>1. d \in Everything /\ Beneath[d] = {}
    BY StackAssumption, Everythings DEF Simple
  <2>2. Base[d] = {}
    BY <2>1, BaseOf DEF BaseStep
  <2> QED BY <2>2 DEF There
<1>8. Disk \subseteq Everything
  BY Everythings DEF Simple
<1>9. Reported \subseteq Everything
  <2> HIDE DEF vgs
  <2> QED BY <1>1, <1>2, <1>3
<1> QED BY <1>5, <1>6, <1>7, <1>8, <1>9

\* What a reported device is named to be on is reported.
LEMMA NamedReported ==
  ASSUME Standing, NEW d \in Reported, NEW b \in Named(d)
  PROVE  b \in Reported /\ b \in Beneath[d]
<1> DEFINE vgs == {v \in Vg : \E pv \in Beneath[v] : There(pv)}
<1>1. Reported = {x \in Everything \ (Vg \cup Pv \cup Lv) : There(x)}
                   \cup vgs \cup {pv \in Pv : There(pv) \/ \E v \in vgs : pv \in Beneath[v]}
                   \cup {lv \in Lv : Beneath[lv] \subseteq vgs}
  BY DEF Reported
<1>2. b \in Beneath[d] /\ (d \in Pv => There(d)) /\ d \in Everything
  BY ReportedThere DEF Named
<1>3. CASE d \in Vg
  <2>1. b \in Pv
    BY <1>2, <1>3, StackAssumption
  <2>2. d \in vgs
    BY <1>1, <1>3, Apart
  <2> HIDE DEF vgs
  <2> QED BY <1>1, <1>2, <2>1, <2>2
<1>4. CASE d \in Lv
  <2>1. vgs \subseteq Vg
    OBVIOUS
  <2> HIDE DEF vgs
  <2> QED BY <1>1, <1>2, <1>4, <2>1, Apart
<1>5. CASE d \notin Vg \cup Lv
  <2>1. There(d)
    BY <1>2, <1>5, ReportedThere
  <2>2. b \in Everything /\ There(b)
    BY <1>2, <2>1, ThereBeneath, Everythings
  <2> QED BY <1>2, <2>2, ReportedThere
<1> QED BY <1>3, <1>4, <1>5

\* Outside of LVM a reported device is on what is there, and is told to be.
LEMMA ReportedOn ==
  ASSUME Standing, NEW d \in Reported \ (Vg \cup Pv \cup Lv), NEW b \in Beneath[d]
  PROVE  There(b) /\ is_active(b) /\ b \in Reported /\ <<b, d>> \in RealHolders
<1>1. There(d) /\ d \in Everything
  BY ReportedThere
<1>2. There(b) /\ is_active(b) /\ b \in Everything
  BY <1>1, ThereBeneath, Everythings
<1>3. b \in Named(d)
  BY DEF Named
<1> QED BY <1>2, <1>3, ReportedThere DEF RealHolders

\* A table, LUKS or filesystem is on one device, and it is all that is on it.
LEMMA ContentOn ==
  /\ \A d \in Content : \E x \in BlkDevice : Beneath[d] = {x}
  /\ \A t \in Table : \E x \in Partitionable : Beneath[t] = {x}
  /\ \A l \in Luks : \E x \in BlkDevice \ Luks : Beneath[l] = {x}
  /\ \A p \in Partition : \E t \in Table : Beneath[p] = {t}
  /\ Partitionable \subseteq BlkDevice
BY StackAssumption DEF Content, BlkDevice

\* A device has one user.
LEMMA OneUser ==
  ASSUME NEW x \in BlkDevice \cup Pv, NEW d \in Everything, NEW e \in Everything,
         x \in Beneath[d], x \in Beneath[e]
  PROVE  d = e
BY StackAssumption

\* What is seen on x is on it, or on something that x is part of.
LEMMA SeenIs ==
  ASSUME NEW x, NEW d \in SeenOn(x)
  PROVE  /\ d \in reported /\ d \in Content
         /\ x \in Beneath[d] \/ \E m \in Mirrors : m[1] = x /\ m[2] \in Beneath[d]
BY DEF SeenOn, Content

\* What is on x is seen.
LEMMA SeenAll ==
  ASSUME NEW d \in reported \cap Content, NEW x \in Beneath[d]
  PROVE  d \in SeenOn(x)
BY DEF SeenOn, Content

\* Whoever is clean is on what is clean.
LEMMA CleanBeneath ==
  ASSUME NEW d \in Everything, Clean(d)
  PROVE  d \notin complaints /\ \A b \in Beneath[d] : b \in Everything /\ Clean(b)
<1>1. Cone[d] = ConeStep(Cone, d)
  BY ConeOf
<1>2. d \in Cone[d] /\ \A b \in Beneath[d] : Cone[b] \subseteq Cone[d]
  BY <1>1 DEF ConeStep
<1> QED BY <1>2, Everythings DEF Clean

\* The order of the passes.
LEMMA Order ==
  /\ \A p \in DOMAIN Pos : Pos[p] \in 0 .. 16
  /\ \A p, q \in DOMAIN Pos : Pos[p] = Pos[q] => p = q
  /\ \A p \in DOMAIN Pos \ {"idle", "done"} :
        /\ p \in {Passes[i] : i \in DOMAIN Passes}
        /\ After(p) \in DOMAIN Pos /\ Pos[After(p)] = Pos[p] + 1
  /\ {Passes[i] : i \in DOMAIN Passes} = DOMAIN Pos \ {"idle", "done"}
<1>1. /\ DOMAIN Passes = 1 .. 15 /\ Len(Passes) = 15
      /\ Passes[1] = "disk" /\ Passes[2] = "multipath" /\ Passes[3] = "md" /\ Passes[4] = "vg"
      /\ Passes[5] = "pv" /\ Passes[6] = "lv" /\ Passes[7] = "bcache" /\ Passes[8] = "cset"
      /\ Passes[9] = "holders" /\ Passes[10] = "partitions" /\ Passes[11] = "luks" /\ Passes[12] = "flush"
      /\ Passes[13] = "roles" /\ Passes[14] = "filesystems" /\ Passes[15] = "btrfs"
  BY DEF Passes
<1>2. /\ DOMAIN Pos = {"idle", "disk", "multipath", "md", "vg", "pv", "lv", "bcache", "cset", "holders",
                       "partitions", "luks", "flush", "roles", "filesystems", "btrfs", "done"}
      /\ Pos["idle"] = 0 /\ Pos["disk"] = 1 /\ Pos["multipath"] = 2 /\ Pos["md"] = 3 /\ Pos["vg"] = 4
      /\ Pos["pv"] = 5 /\ Pos["lv"] = 6 /\ Pos["bcache"] = 7 /\ Pos["cset"] = 8 /\ Pos["holders"] = 9
      /\ Pos["partitions"] = 10 /\ Pos["luks"] = 11 /\ Pos["flush"] = 12 /\ Pos["roles"] = 13
      /\ Pos["filesystems"] = 14 /\ Pos["btrfs"] = 15 /\ Pos["done"] = 16
  BY DEF Pos
<1>3. \A i \in 1 .. 15 : Pos[Passes[i]] = i
  BY <1>1, <1>2
<1>4. {Passes[i] : i \in DOMAIN Passes} = DOMAIN Pos \ {"idle", "done"}
  <2>1. \A i \in 1 .. 15 : Passes[i] \in DOMAIN Pos \ {"idle", "done"}
    BY <1>1, <1>2
  <2>2. \A p \in DOMAIN Pos \ {"idle", "done"} : \E i \in 1 .. 15 : p = Passes[i]
    BY <1>1, <1>2
  <2> QED BY <1>1, <2>1, <2>2
<1>5. ASSUME NEW i \in 1 .. 15 PROVE After(Passes[i]) = IF i = 15 THEN "done" ELSE Passes[i + 1]
  <2> DEFINE k == CHOOSE j \in DOMAIN Passes : Passes[j] = Passes[i]
  <2>1. k \in DOMAIN Passes /\ Passes[k] = Passes[i]
    BY <1>1
  <2>2. k = i
    <3> HIDE DEF k
    <3> QED BY <1>1, <1>3, <2>1
  <2>3. After(Passes[i]) = IF k = Len(Passes) THEN "done" ELSE Passes[k + 1]
    BY DEF After
  <2> HIDE DEF k
  <2> QED BY <1>1, <2>2, <2>3
<1>6. ASSUME NEW i \in 1 .. 15
      PROVE  After(Passes[i]) \in DOMAIN Pos /\ Pos[After(Passes[i])] = Pos[Passes[i]] + 1
  <2>1. CASE i = 15
    BY <1>2, <1>3, <1>5, <2>1
  <2>2. CASE i # 15
    <3>1. i + 1 \in 1 .. 15 /\ After(Passes[i]) = Passes[i + 1]
      BY <1>5, <2>2
    <3>2. Pos[Passes[i + 1]] = i + 1 /\ Passes[i + 1] \in DOMAIN Pos
      BY <1>1, <1>3, <1>4, <3>1
    <3> QED BY <1>3, <3>1, <3>2
  <2> QED BY <2>1, <2>2
<1>7. \A p \in DOMAIN Pos : Pos[p] \in 0 .. 16
  BY <1>2
<1>8. \A p, q \in DOMAIN Pos : Pos[p] = Pos[q] => p = q
  BY <1>2
<1>9. \A p \in DOMAIN Pos \ {"idle", "done"} : \E i \in 1 .. 15 : p = Passes[i]
  BY <1>1, <1>4
<1> QED BY <1>4, <1>6, <1>7, <1>8, <1>9

\* While the system is probed nothing is activated, and the reports stay.
LEMMA Frozen ==
  ASSUME UNCHANGED <<active, reported>>
  PROVE  /\ Reported' = Reported /\ RealHolders' = RealHolders
         /\ \A d : Calls(d)' = Calls(d)
         /\ \A d : Named(d)' = Named(d)
<1>1. \A d : There(d)' = There(d)
  BY DEF There
<1>2. \A d : Named(d)' = Named(d)
  BY <1>1 DEF Named
<1>3. Reported' = Reported
  BY <1>1 DEF Reported
<1>4. RealHolders' = RealHolders
  BY <1>2, <1>3 DEF RealHolders
<1>5. \A d : Calls(d)' = Calls(d)
  BY <1>2 DEF Calls, CsetCalls, BcacheCalls, Users
<1> QED BY <1>2, <1>3, <1>4, <1>5

\* One more has been visited.
LEMMA OverVisited ==
  ASSUME NEW d \in visit, Continue(d)
  PROVE  \A p, v : Over(p, v)' <=> Over(p, v) \/ (p = pass /\ v = d)
BY DEF Over, Continue

\* The next pass begins.
LEMMA OverEntered ==
  ASSUME pass \in DOMAIN Pos \ {"idle", "done"}, visit = {}, pass' = After(pass)
  PROVE  \A p \in DOMAIN Pos : \A v : Over(p, v)' <=> Over(p, v) \/ (p = pass' /\ v \notin visit')
<1>1. /\ \A p \in DOMAIN Pos : Pos[p] \in 0 .. 16
      /\ \A p, q \in DOMAIN Pos : Pos[p] = Pos[q] => p = q
      /\ pass' \in DOMAIN Pos /\ Pos[pass'] = Pos[pass] + 1
  BY Order
<1> SUFFICES ASSUME NEW p \in DOMAIN Pos, NEW v
             PROVE  Over(p, v)' <=> Over(p, v) \/ (p = pass' /\ v \notin visit')
  OBVIOUS
<1>2. Over(p, v)' <=> Pos[p] < Pos[pass'] \/ (p = pass' /\ v \notin visit')
  BY DEF Over
<1>3. Over(p, v) <=> Pos[p] < Pos[pass] \/ p = pass
  BY DEF Over
<1>4. Pos[p] < Pos[pass'] <=> Pos[p] < Pos[pass] \/ p = pass
  BY <1>1
<1> QED BY <1>2, <1>3, <1>4

\* What the passes that are over have found.
LEMMA FoundBefore ==
  ASSUME Found, Standing, reported = Reported
  PROVE  /\ (\A k \in DOMAIN Kind : \A v : Over(k, v)) =>
               \A x \in Simple \cap reported : x \notin complaints => x \in known \cap named \cap sized
         /\ (\A v : Over("partitions", v)) => \A x \in Partition \cap reported : Clean(x) => x \in known
         /\ (\A v : Over("luks", v)) => \A x \in Luks \cap reported : Clean(x) => x \in known
<1>1. \A x \in Simple : \E k \in DOMAIN Kind : x \in Kind[k]
  BY DEF Simple, Kind
<1>2. ASSUME \A k \in DOMAIN Kind : \A v : Over(k, v), NEW x \in Simple \cap reported, x \notin complaints
      PROVE  x \in known \cap named \cap sized
  BY <1>1, <1>2 DEF Found, KnownSimple
<1>3. ASSUME \A v : Over("partitions", v), NEW x \in Partition \cap reported, Clean(x)
      PROVE  x \in known
  <2>1. PICK t \in Table : Beneath[x] = {t}
    BY <1>3, ContentOn
  <2>2. PICK y \in Partitionable : Beneath[t] = {y}
    BY ContentOn
  <2> QED BY <1>3, <2>1, <2>2 DEF Found, KnownPartitions
<1>4. ASSUME \A v : Over("luks", v), NEW x \in Luks \cap reported, Clean(x)
      PROVE  x \in known
  <2>1. x \in Content /\ PassOf(x) = "luks"
    BY <1>4, Apart DEF Content, PassOf
  <2>2. PICK y \in BlkDevice : Beneath[x] = {y}
    BY <2>1, ContentOn
  <2> QED BY <1>4, <2>1, <2>2 DEF Found, KnownContent
<1> QED BY <1>2, <1>3, <1>4

\* All block devices, when the passes that find them are over.
LEMMA BlkDevicesFound ==
  ASSUME Found, Standing, reported = Reported, \A k \in DOMAIN Kind : \A v : Over(k, v)
  PROVE  /\ \A x \in Partitionable \cap reported : Clean(x) => x \in known
         /\ (\A v : Over("partitions", v)) => \A x \in (BlkDevice \ Luks) \cap reported : Clean(x) => x \in known
         /\ (\A v : Over("partitions", v) /\ Over("luks", v)) =>
               \A x \in BlkDevice \cap reported : Clean(x) => x \in known
<1>1. \A x \in reported : Clean(x) => x \notin complaints
  BY CleanBeneath, ReportedThere
<1>2. Partitionable \cup Lv \subseteq Simple /\ BlkDevice = Partitionable \cup Partition \cup Lv \cup Luks
  BY DEF Partitionable, Simple, BlkDevice
<1>3. \A x \in Simple \cap reported : x \notin complaints => x \in known
  BY FoundBefore
<1>4. (\A v : Over("partitions", v)) => \A x \in Partition \cap reported : Clean(x) => x \in known
  BY FoundBefore
<1>5. (\A v : Over("luks", v)) => \A x \in Luks \cap reported : Clean(x) => x \in known
  BY FoundBefore
<1>6. \A x \in (Partitionable \cup Lv) \cap reported : Clean(x) => x \in known
  BY <1>1, <1>2, <1>3
<1> QED BY <1>2, <1>4, <1>5, <1>6

\* The classes of pass 1a.
LEMMA KindsApart ==
  /\ \A k, l \in DOMAIN Kind : \A d \in Kind[k] : d \in Kind[l] => k = l
  /\ \A k \in DOMAIN Kind : /\ Kind[k] \subseteq Simple /\ k \in DOMAIN Pos
                            /\ 0 < Pos[k] /\ Pos[k] < Pos["holders"]
  /\ Simple \cap (Content \cup Partition \cup Btrfs) = {}
<1>1. DOMAIN Kind = {"disk", "multipath", "md", "vg", "pv", "lv", "bcache", "cset"}
  BY DEF Kind
<1>2. /\ Kind["disk"] = Disk /\ Kind["multipath"] = Multipath /\ Kind["md"] = Md /\ Kind["vg"] = Vg
      /\ Kind["pv"] = Pv /\ Kind["lv"] = Lv /\ Kind["bcache"] = Bcache /\ Kind["cset"] = Cset
  BY DEF Kind
<1>3. \A k, l \in DOMAIN Kind : \A d \in Kind[k] : d \in Kind[l] => k = l
  BY <1>1, <1>2, Apart
<1>4. \A k \in DOMAIN Kind : Kind[k] \subseteq Simple
  BY <1>1, <1>2 DEF Simple
<1>5. \A k \in DOMAIN Kind : k \in DOMAIN Pos /\ 0 < Pos[k] /\ Pos[k] < Pos["holders"]
  BY <1>1 DEF Pos
<1>6. Simple \cap (Content \cup Partition \cup Btrfs) = {}
  BY Apart DEF Simple, Content
<1> QED BY <1>3, <1>4, <1>5, <1>6

\* What a visit adds is all that it is to add, and nothing else.
Obliged(d) ==
  /\ pass \in DOMAIN Kind /\ d \notin complaints' => d \in known' \cap named' \cap sized'
  /\ \A c \in Content \cap reported :
        d \in Beneath[c] /\ PassOf(c) = pass /\ Clean(c)' => c \in known' /\ <<d, c>> \in holders'
  /\ pass = "partitions" =>
        \A p \in Partition \cap reported : \A t \in Beneath[p] :
           d \in Beneath[t] /\ Clean(p)' => p \in known' /\ <<t, p>> \in holders'
  /\ pass = "btrfs" /\ Clean(d)' => d \in known' /\ \A x \in Beneath[d] : <<x, d>> \in holders'
  /\ pass = "pv" => \A v \in Vg \cap reported : d \in Beneath[v] => <<d, v>> \in holders'
  /\ pass = "lv" => \A v \in Beneath[d] : <<v, d>> \in holders'
  /\ pass = "holders" =>
        \A c \in Calls(d) : /\ Clean(c.edge[2])' => c.edge \in holders' \/ c \in pending'
                            /\ c.name \in known \cap Simple => c.edge \in holders'
  /\ pass = "flush" /\ Clean(d.edge[2])' => d.edge \in holders'

Allowed(d) ==
  /\ known \subseteq known' /\ known' \subseteq reported
  /\ holders \subseteq holders' /\ pending \subseteq pending' /\ named \subseteq named' /\ sized \subseteq sized'
  /\ complaints \subseteq complaints'
  /\ roles' \subseteq Md \cap reported
  /\ \A n \in known' \ known : n \in Simple => n = d /\ pass \in DOMAIN Kind
  /\ \A c \in pending' \ pending : /\ c.edge \in RealHolders
                                   /\ c.name \in reported \cap (Simple \cup BlkDevice)
                                   /\ c.edge[2] \in Holding
  /\ \A e \in holders' \ holders :
        /\ e \in RealHolders \/ Spurious(e[1], e[2])'
        /\ e[2] \in Content /\ e[1] \in Beneath[e[2]] => e[1] = d /\ PassOf(e[2]) = pass
        /\ e[2] \in Btrfs => pass = "btrfs" /\ e[2] = d

\* A visit that does what it has to and no more.
LEMMA VisitStep ==
  ASSUME Found, UNCHANGED <<active, reported>>, pass \in DOMAIN Pos \ {"idle", "done"},
         NEW d \in visit, Continue(d), Obliged(d), Allowed(d)
  PROVE  Found'
<1>1. \A p, v : Over(p, v)' <=> Over(p, v) \/ (p = pass /\ v = d)
  BY OverVisited
<1>2. \A x : Clean(x)' => Clean(x)
  BY DEF Allowed, Clean
<1>3. visit' \subseteq visit /\ pass' = pass
  BY DEF Continue
<1>4. RealHolders' = RealHolders /\ \A x : Calls(x)' = Calls(x)
  BY Frozen
<1>5. Visits'
  BY <1>3 DEF Found, Visits, Allowed
<1>6. KnownSimple'
  <2>1. ASSUME NEW k \in DOMAIN Kind, NEW x \in Kind[k] \cap reported, x \in known' PROVE Over(k, x)'
    <3>1. CASE x \in known
      BY <1>1, <2>1, <3>1 DEF Found, KnownSimple
    <3>2. CASE x \notin known
      <4>1. x = d /\ pass \in DOMAIN Kind
        BY <2>1, <3>2, KindsApart DEF Allowed
      <4>2. d \in Kind[pass]
        BY <4>1 DEF Found, Visits
      <4>3. k = pass
        BY <4>1, <4>2, KindsApart
      <4> QED BY <1>1, <4>1, <4>3
    <3> QED BY <3>1, <3>2
  <2>2. ASSUME NEW k \in DOMAIN Kind, NEW x \in Kind[k] \cap reported, Over(k, x)', x \notin complaints'
        PROVE  x \in known' \cap named' \cap sized'
    <3>1. CASE Over(k, x)
      <4>1. x \in known \cap named \cap sized
        BY <2>2, <3>1 DEF Found, KnownSimple, Allowed
      <4> QED BY <4>1 DEF Allowed
    <3>2. CASE ~ Over(k, x)
      <4>1. k = pass /\ x = d
        BY <1>1, <2>2, <3>2
      <4> QED BY <2>2, <4>1 DEF Obliged
    <3> QED BY <3>1, <3>2
  <2> QED BY <2>1, <2>2 DEF KnownSimple, Allowed
<1>7. KnownContent'
  <2>1. ASSUME NEW c \in Content \cap reported, NEW x \in Beneath[c], Clean(c)', Over(PassOf(c), x)'
        PROVE  c \in known' /\ <<x, c>> \in holders'
    <3>1. CASE Over(PassOf(c), x)
      BY <1>2, <2>1, <3>1 DEF Found, KnownContent, Allowed
    <3>2. CASE ~ Over(PassOf(c), x)
      BY <1>1, <2>1, <3>2 DEF Obliged
    <3> QED BY <3>1, <3>2
  <2> QED BY <2>1 DEF KnownContent
<1>8. KnownPartitions'
  <2>1. ASSUME NEW p \in Partition \cap reported, NEW t \in Beneath[p], NEW x \in Beneath[t],
               Clean(p)', Over("partitions", x)'
        PROVE  p \in known' /\ <<t, p>> \in holders'
    <3>1. CASE Over("partitions", x)
      BY <1>2, <2>1, <3>1 DEF Found, KnownPartitions, Allowed
    <3>2. CASE ~ Over("partitions", x)
      BY <1>1, <2>1, <3>2 DEF Obliged
    <3> QED BY <3>1, <3>2
  <2> QED BY <2>1 DEF KnownPartitions
<1>9. KnownBtrfs'
  <2>1. ASSUME NEW f \in Btrfs \cap reported, Clean(f)', Over("btrfs", f)'
        PROVE  f \in known' /\ \A x \in Beneath[f] : <<x, f>> \in holders'
    <3>1. CASE Over("btrfs", f)
      BY <1>2, <2>1, <3>1 DEF Found, KnownBtrfs, Allowed
    <3>2. CASE ~ Over("btrfs", f)
      BY <1>1, <2>1, <3>2 DEF Obliged
    <3> QED BY <3>1, <3>2
  <2> QED BY <2>1 DEF KnownBtrfs
<1>10. HeldVgs'
  <2>1. ASSUME NEW v \in Vg \cap reported, NEW pv \in Beneath[v], Over("pv", pv)' PROVE <<pv, v>> \in holders'
    BY <1>1, <2>1 DEF Found, HeldVgs, Obliged, Allowed
  <2>2. ASSUME NEW lv \in Lv \cap reported, NEW v \in Beneath[lv], Over("lv", lv)' PROVE <<v, lv>> \in holders'
    BY <1>1, <2>2 DEF Found, HeldVgs, Obliged, Allowed
  <2> QED BY <2>1, <2>2 DEF HeldVgs
<1>11. HeldCalls'
  <2> SUFFICES ASSUME NEW u \in known' \cap Holding, Over("holders", u)', NEW c \in Calls(u)
               PROVE  /\ Clean(c.edge[2])' => c.edge \in holders' \/ (c \in pending' /\ ~ Over("flush", c)')
                      /\ c.name \in known' \cap Simple => c.edge \in holders'
    BY <1>4 DEF HeldCalls
  <2>1. pass \notin DOMAIN Kind
    <3>1. Pos["holders"] <= Pos[pass]
      <4>1. Over("holders", u) \/ pass = "holders"
        BY <1>1
      <4>2. Pos[pass] \in 0 .. 16 /\ Pos["holders"] = 9
        BY Order DEF Pos
      <4> QED BY <4>1, <4>2 DEF Over
    <3>2. Pos[pass] \in 0 .. 16 /\ Pos["holders"] = 9
      BY Order DEF Pos
    <3> QED BY <3>1, <3>2, KindsApart
  <2>2. known' \cap Simple = known \cap Simple
    BY <2>1 DEF Allowed
  <2>3. u \in known
    BY <2>2 DEF Holding, Simple
  <2>4. CASE Over("holders", u)
    <3>1. c.name \in known' \cap Simple => c.edge \in holders'
      BY <2>2, <2>3, <2>4 DEF Found, HeldCalls, Allowed
    <3>2. ASSUME Clean(c.edge[2])' PROVE c.edge \in holders' \/ (c \in pending' /\ ~ Over("flush", c)')
      <4>1. c.edge \in holders \/ (c \in pending /\ ~ Over("flush", c))
        BY <1>2, <2>3, <2>4, <3>2 DEF Found, HeldCalls
      <4>2. CASE c.edge \in holders
        BY <4>2 DEF Allowed
      <4>3. CASE pass = "flush" /\ c = d
        BY <3>2, <4>3 DEF Obliged
      <4>4. CASE c \in pending /\ ~ Over("flush", c) /\ ~ (pass = "flush" /\ c = d)
        BY <1>1, <4>4 DEF Allowed
      <4> QED BY <4>1, <4>2, <4>3, <4>4
    <3> QED BY <3>1, <3>2
  <2>5. CASE ~ Over("holders", u)
    <3>1. pass = "holders" /\ u = d
      BY <1>1, <2>5
    <3>2. ~ Over("flush", c)'
      BY <1>3, <3>1 DEF Over, Pos
    <3> QED BY <2>2, <3>1, <3>2 DEF Obliged
  <2> QED BY <2>4, <2>5
<1>12. Pendings'
  BY <1>4 DEF Found, Pendings, Allowed
<1>13. HoldersReal'
  <2> SUFFICES ASSUME NEW e \in holders'
               PROVE  /\ e \in RealHolders \/ Spurious(e[1], e[2])'
                      /\ e[2] \in Content /\ e[1] \in Beneath[e[2]] => Over(PassOf(e[2]), e[1])'
                      /\ e[2] \in Btrfs => Over("btrfs", e[2])'
    BY <1>4 DEF HoldersReal
  <2>1. CASE e \in holders
    <3>1. ASSUME Spurious(e[1], e[2]) PROVE Spurious(e[1], e[2])'
      <4>1. PICK m \in Mirrors : m[1] = e[1] /\ m[2] \in Beneath[e[2]] /\ m[2] \in complaints \ known
        BY <3>1 DEF Spurious
      <4>2. m[2] \in Simple
        BY StackAssumption DEF Simple
      <4>3. pass \notin DOMAIN Kind
        <5>1. Pos[pass] > Pos["holders"]
          BY <3>1 DEF Spurious
        <5>2. Pos[pass] \in 0 .. 16 /\ Pos["holders"] = 9
          BY Order DEF Pos
        <5> QED BY <5>1, <5>2, KindsApart
      <4>4. m[2] \in complaints' \ known'
        BY <4>1, <4>2, <4>3 DEF Allowed
      <4> QED BY <1>3, <3>1, <4>1, <4>4 DEF Spurious
    <3> QED BY <1>1, <2>1, <3>1 DEF Found, HoldersReal
  <2>2. CASE e \notin holders
    BY <1>1, <2>2 DEF Allowed
  <2> QED BY <2>1, <2>2
<1> QED BY <1>5, <1>6, <1>7, <1>8, <1>9, <1>10, <1>11, <1>12, <1>13 DEF Found, Allowed


\* All physical volumes of a volume group are reported.
LEMMA PvsReported ==
  ASSUME NEW v \in Vg \cap Reported, NEW pv \in Beneath[v]
  PROVE  pv \in Pv /\ pv \in Reported
<1> DEFINE vgs == {w \in Vg : \E b \in Beneath[w] : There(b)}
<1>1. Reported = {x \in Everything \ (Vg \cup Pv \cup Lv) : There(x)}
                   \cup vgs \cup {b \in Pv : There(b) \/ \E w \in vgs : b \in Beneath[w]}
                   \cup {lv \in Lv : Beneath[lv] \subseteq vgs}
  BY DEF Reported
<1>2. v \in vgs
  BY <1>1, Apart
<1>3. pv \in Pv
  BY StackAssumption
<1> QED BY <1>1, <1>2, <1>3

\* The next pass has to visit what it is to find something on, as the passes before it
\* found that.
LEMMA NextPassFound ==
  ASSUME Found, Standing, reported = Reported, NextPass, UNCHANGED <<active, reported>>
  PROVE  Found'
<1>1. pass \in DOMAIN Pos \ {"idle", "done"} /\ visit = {} /\ pass' = After(pass)
      /\ visit' = ToVisit(pass')
  BY Order DEF NextPass, Enter
<1>2. /\ \A p \in DOMAIN Pos : Pos[p] \in 0 .. 16
      /\ \A p, q \in DOMAIN Pos : Pos[p] = Pos[q] => p = q
      /\ pass' \in DOMAIN Pos /\ Pos[pass'] = Pos[pass] + 1
  BY <1>1, Order
<1>3. \A p \in DOMAIN Pos : \A v : Over(p, v)' <=> Over(p, v) \/ (p = pass' /\ v \notin visit')
  BY <1>1, OverEntered
<1>4. \A p \in DOMAIN Pos : Pos[p] < Pos[pass'] => \A v : Over(p, v)
  BY <1>1, <1>2 DEF Over
<1>5. /\ UNCHANGED <<known, holders, named, sized, roles, complaints>> /\ pending' \subseteq pending
      /\ pass # "flush" => pending' = pending
      /\ pass = "flush" => pending' = {}
  BY DEF NextPass
<1>6. \A x : Clean(x)' <=> Clean(x)
  BY <1>5 DEF Clean
<1>7. RealHolders' = RealHolders /\ \A x : Calls(x)' = Calls(x)
  BY Frozen
<1>8. /\ pass' \in DOMAIN Kind => visit' = Kind[pass'] \cap reported
      /\ pass' = "holders" => visit' = known \cap Holding
      /\ pass' = "partitions" => visit' = known \cap Partitionable
      /\ pass' = "luks" => visit' = {x \in known \cap BlkDevice : SeenOn(x) \cap Luks # {}}
      /\ pass' = "flush" => visit' = pending /\ pass = "luks"
      /\ pass' = "roles" => visit' = known \cap Md
      /\ pass' = "filesystems" => visit' = {x \in known \cap BlkDevice : SeenOn(x) \cap Filesystem # {}}
      /\ pass' = "btrfs" => visit' = Btrfs \cap reported
  <2>1. DOMAIN Kind = {"disk", "multipath", "md", "vg", "pv", "lv", "bcache", "cset"}
    BY DEF Kind
  <2>2. pass' = "flush" => Pos[pass] = Pos["luks"]
    BY <1>1, <1>2 DEF Pos
  <2>3. "luks" \in DOMAIN Pos
    BY DEF Pos
  <2> QED BY <1>1, <1>2, <2>1, <2>2, <2>3 DEF ToVisit, Holding
<1>9. \A k \in DOMAIN Kind : k \in DOMAIN Pos
  BY KindsApart
<1>10. /\ {"holders", "partitions", "luks", "flush", "filesystems", "btrfs", "pv", "lv"} \subseteq DOMAIN Pos
       /\ Pos["holders"] = 9 /\ Pos["partitions"] = 10 /\ Pos["luks"] = 11 /\ Pos["filesystems"] = 14
  BY DEF Pos
<1>11. Pos["holders"] <= Pos[pass'] => \A k \in DOMAIN Kind : \A v : Over(k, v)
  <2>1. \A k \in DOMAIN Kind : Pos[k] < Pos["holders"]
    BY KindsApart
  <2> QED BY <1>2, <1>4, <1>9, <1>10, <2>1
<1>12. \A x \in reported : x \in Everything
  BY ReportedThere
<1>20. Visits'
  BY <1>5, <1>8 DEF Visits
<1>21. KnownSimple'
  <2>1. \A k \in DOMAIN Kind : \A d \in Kind[k] \cap reported : Over(k, d)' <=> Over(k, d)
    BY <1>3, <1>8, <1>9
  <2> QED BY <1>5, <2>1 DEF Found, KnownSimple
<1>22. ASSUME NEW x \in Partitionable \cap reported, Clean(x), pass' = "partitions" PROVE x \in visit'
  BY <1>8, <1>10, <1>11, <1>22, BlkDevicesFound
<1>23. KnownContent'
  <2> SUFFICES ASSUME NEW c \in Content \cap reported, NEW x \in Beneath[c], Clean(c), Over(PassOf(c), x)'
               PROVE  c \in known /\ <<x, c>> \in holders
    BY <1>5, <1>6 DEF KnownContent
  <2>1. PassOf(c) \in {"partitions", "luks", "filesystems"}
    BY DEF PassOf
  <2>2. x \in reported /\ Clean(x)
    <3>1. c \notin Vg \cup Pv \cup Lv
      BY Apart DEF Content
    <3> QED BY <1>12, <3>1, ReportedOn, CleanBeneath
  <2>3. CASE Over(PassOf(c), x)
    BY <2>3 DEF Found, KnownContent
  <2>4. CASE PassOf(c) = pass' /\ x \notin visit'
    <3>1. c \in SeenOn(x)
      BY SeenAll
    <3>2. CASE c \in Table
      <4>1. x \in Partitionable /\ pass' = "partitions"
        BY <2>4, <3>2, ContentOn DEF PassOf
      <4> QED BY <1>22, <2>2, <2>4, <4>1
    <3>3. CASE c \in Luks
      <4>1. x \in BlkDevice \ Luks /\ pass' = "luks"
        <5>1. c \notin Table
          BY <3>3, Apart
        <5> QED BY <2>4, <3>3, <5>1, ContentOn DEF PassOf
      <4>2. \A v : Over("partitions", v)
        BY <1>4, <1>10, <4>1
      <4>3. x \in known
        BY <1>10, <1>11, <2>2, <4>1, <4>2, BlkDevicesFound
      <4> QED BY <1>8, <2>4, <3>1, <3>3, <4>1, <4>3
    <3>4. CASE c \in Filesystem
      <4>1. x \in BlkDevice /\ pass' = "filesystems"
        <5>1. c \notin Table \cup Luks
          BY <3>4, Apart
        <5> QED BY <2>4, <3>4, <5>1, ContentOn DEF PassOf
      <4>2. \A v : Over("partitions", v) /\ Over("luks", v)
        BY <1>4, <1>10, <4>1
      <4>3. x \in known
        BY <1>10, <1>11, <2>2, <4>1, <4>2, BlkDevicesFound
      <4> QED BY <1>8, <2>4, <3>1, <3>4, <4>1, <4>3
    <3> QED BY <3>2, <3>3, <3>4 DEF Content
  <2> QED BY <1>3, <1>10, <2>1, <2>3, <2>4
<1>24. KnownPartitions'
  <2> SUFFICES ASSUME NEW p \in Partition \cap reported, NEW t \in Beneath[p], NEW x \in Beneath[t],
                      Clean(p), Over("partitions", x)'
               PROVE  p \in known /\ <<t, p>> \in holders
    BY <1>5, <1>6 DEF KnownPartitions
  <2>1. t \in Table /\ x \in Partitionable
    <3>1. t \in Table
      BY ContentOn
    <3> QED BY <3>1, ContentOn
  <2>2. t \in reported /\ Clean(t)
    <3>1. p \notin Vg \cup Pv \cup Lv
      BY Apart
    <3> QED BY <1>12, <3>1, ReportedOn, CleanBeneath
  <2>3. x \in reported /\ Clean(x)
    <3>1. t \notin Vg \cup Pv \cup Lv
      BY <2>1, Apart
    <3> QED BY <1>12, <2>2, <3>1, ReportedOn, CleanBeneath
  <2>4. Over("partitions", x)
    BY <1>3, <1>10, <1>22, <2>1, <2>3
  <2> QED BY <2>4 DEF Found, KnownPartitions
<1>25. KnownBtrfs'
  <2>1. \A d \in Btrfs \cap reported : Over("btrfs", d)' <=> Over("btrfs", d)
    BY <1>3, <1>8, <1>10
  <2> QED BY <1>5, <1>6, <2>1 DEF Found, KnownBtrfs
<1>26. HeldVgs'
  <2>1. ASSUME NEW v \in Vg \cap reported, NEW pv \in Beneath[v], Over("pv", pv)' PROVE <<pv, v>> \in holders
    <3>1. pv \in Pv \cap reported
      BY PvsReported
    <3>2. Over("pv", pv)
      <4>1. "pv" \in DOMAIN Kind /\ Kind["pv"] = Pv
        BY DEF Kind
      <4> QED BY <1>3, <1>8, <1>10, <2>1, <3>1, <4>1
    <3> QED BY <3>2 DEF Found, HeldVgs
  <2>2. ASSUME NEW lv \in Lv \cap reported, NEW v \in Beneath[lv], Over("lv", lv)' PROVE <<v, lv>> \in holders
    <3>1. Over("lv", lv)
      <4>1. "lv" \in DOMAIN Kind /\ Kind["lv"] = Lv
        BY DEF Kind
      <4> QED BY <1>3, <1>8, <1>10, <2>2, <4>1
    <3> QED BY <3>1 DEF Found, HeldVgs
  <2> QED BY <1>5, <2>1, <2>2 DEF HeldVgs
<1>27. HeldCalls'
  <2> SUFFICES ASSUME NEW u \in known \cap Holding, Over("holders", u)', NEW c \in Calls(u)
               PROVE  /\ Clean(c.edge[2]) => c.edge \in holders \/ (c \in pending' /\ ~ Over("flush", c)')
                      /\ c.name \in known \cap Simple => c.edge \in holders
    BY <1>5, <1>6, <1>7 DEF HeldCalls
  <2>1. Over("holders", u)
    BY <1>3, <1>8, <1>10
  <2>2. c.name \in known \cap Simple => c.edge \in holders
    BY <2>1 DEF Found, HeldCalls
  <2>3. Clean(c.edge[2]) => c.edge \in holders \/ (c \in pending /\ ~ Over("flush", c))
    BY <2>1 DEF Found, HeldCalls
  <2>4. ASSUME c \in pending, ~ Over("flush", c) PROVE c \in pending' /\ ~ Over("flush", c)'
    <3>1. pass # "flush"
      BY <1>1, <2>4 DEF Over
    <3>2. ~ Over("flush", c)'
      BY <1>3, <1>8, <1>10, <2>4
    <3> QED BY <1>5, <2>4, <3>1, <3>2
  <2> QED BY <2>2, <2>3, <2>4
<1>28. Pendings'
  BY <1>5, <1>7 DEF Found, Pendings
<1>29. HoldersReal'
  <2> SUFFICES ASSUME NEW e \in holders
               PROVE  /\ e \in RealHolders \/ Spurious(e[1], e[2])'
                      /\ e[2] \in Content /\ e[1] \in Beneath[e[2]] => Over(PassOf(e[2]), e[1])'
                      /\ e[2] \in Btrfs => Over("btrfs", e[2])'
    BY <1>5, <1>7 DEF HoldersReal
  <2>1. Spurious(e[1], e[2]) => Spurious(e[1], e[2])'
    BY <1>1, <1>2, <1>5, <1>10 DEF Spurious
  <2>2. PassOf(e[2]) \in DOMAIN Pos
    BY <1>10 DEF PassOf
  <2> QED BY <1>3, <1>10, <2>1, <2>2 DEF Found, HoldersReal
<1> QED BY <1>5, <1>20, <1>21, <1>23, <1>24, <1>25, <1>26, <1>27, <1>28, <1>29 DEF Found

-----------------------------------------------------------------------------
(* The visits of the passes.                                               *)

\* Whatever is complained about beneath a device is complained about beneath it.
LEMMA ConeBeneath ==
  \A d \in Everything : /\ d \in Cone[d]
                        /\ \A b \in Beneath[d] : b \in Everything /\ b \in Cone[d] /\ Cone[b] \subseteq Cone[d]
<1> SUFFICES ASSUME NEW d \in Everything
             PROVE  /\ d \in Cone[d]
                    /\ \A b \in Beneath[d] : b \in Everything /\ b \in Cone[d] /\ Cone[b] \subseteq Cone[d]
  OBVIOUS
<1>1. Cone[d] = ConeStep(Cone, d) /\ \A b \in Everything : Cone[b] = ConeStep(Cone, b)
  BY ConeOf
<1>2. \A b \in Beneath[d] : b \in Everything
  BY Everythings
<1>3. d \in Cone[d] /\ \A b \in Beneath[d] : Cone[b] \subseteq Cone[d]
  BY <1>1 DEF ConeStep
<1>4. \A b \in Everything : b \in Cone[b]
  BY <1>1 DEF ConeStep
<1> QED BY <1>2, <1>3, <1>4

\* The volume group of a reported physical volume is reported.
LEMMA VgReported ==
  ASSUME NEW pv \in Pv \cap Reported, NEW v \in Vg, pv \in Beneath[v]
  PROVE  v \in Reported
<1> DEFINE vgs == {w \in Vg : \E b \in Beneath[w] : There(b)}
<1>1. Reported = {x \in Everything \ (Vg \cup Pv \cup Lv) : There(x)}
                   \cup vgs \cup {b \in Pv : There(b) \/ \E w \in vgs : b \in Beneath[w]}
                   \cup {lv \in Lv : Beneath[lv] \subseteq vgs}
  BY DEF Reported
<1>2. There(pv) \/ \E w \in vgs : pv \in Beneath[w]
  BY <1>1, Apart
<1>3. CASE There(pv)
  BY <1>1, <1>3
<1>4. CASE \E w \in vgs : pv \in Beneath[w]
  <2>1. PICK w \in vgs : pv \in Beneath[w]
    BY <1>4
  <2>2. v \in Everything /\ w \in Everything
    BY Everythings DEF Simple
  <2>3. w = v
    BY <2>1, <2>2, OneUser
  <2> QED BY <1>1, <2>1, <2>3
<1> QED BY <1>2, <1>3, <1>4

\* The content is what passes 1c to 2 look for.
LEMMA PassOfContent ==
  /\ \A c \in Table : PassOf(c) = "partitions"
  /\ \A c \in Luks : PassOf(c) = "luks"
  /\ \A c \in Filesystem : PassOf(c) = "filesystems"
  /\ \A c \in Content : /\ PassOf(c) = "partitions" => c \in Table
                        /\ PassOf(c) = "luks" => c \in Luks
                        /\ PassOf(c) = "filesystems" => c \in Filesystem
                        /\ PassOf(c) \in {"partitions", "luks", "filesystems"}
BY Apart DEF PassOf, Content

\* A visit of pass 1a has to know the device.
LEMMA CreateStep ==
  ASSUME Found, Standing, reported = Reported, UNCHANGED <<active, reported>>, NEW d, Create(d)
  PROVE  Found'
<1>1. pass \in DOMAIN Kind /\ d \in visit /\ d \in Kind[pass] \cap reported
  BY DEF Create, Turn, Found, Visits
<1>2. pass \in DOMAIN Pos \ {"idle", "done"} /\ pass \notin {"holders", "partitions", "luks", "flush", "filesystems", "btrfs"}
  BY <1>1 DEF Kind, Pos
<1>3. Continue(d) /\ known' = known \cup {d} /\ holders' = holders \cup Edges1a(d)
      /\ named' = named \cup {d} /\ sized' = sized \cup {d} /\ UNCHANGED <<pending, roles, complaints>>
  BY DEF Create
<1>4. d \in Simple /\ d \in Everything
  BY <1>1, KindsApart, Everythings
<1>5. \A e \in Edges1a(d) : e \in RealHolders /\ e[2] \in Vg \cup Lv
  <2>1. CASE d \in Pv
    <3>1. Edges1a(d) = {<<d, v>> : v \in {w \in Vg : d \in Beneath[w]}}
      <4>1. Edges1a(d) = PvEdges(d)
        BY <2>1, Apart DEF Edges1a
      <4> QED BY <4>1 DEF PvEdges
    <3>2. \A w \in Vg : d \in Beneath[w] => w \in Reported
      BY <1>1, <2>1, VgReported
    <3>3. \A w \in Vg : Named(w) = Beneath[w]
      BY Apart DEF Named
    <3>4. ASSUME NEW w \in Vg, d \in Beneath[w] PROVE <<d, w>> \in RealHolders
      BY <1>4, <3>2, <3>3, <3>4 DEF RealHolders
    <3> QED BY <3>1, <3>4
  <2>2. CASE d \in Lv
    <3>1. d \notin Pv
      BY <2>2, Apart
    <3>2. Edges1a(d) = {<<v, d>> : v \in Beneath[d]} /\ Named(d) = Beneath[d]
      BY <2>2, <3>1 DEF Edges1a, LvEdges, Named
    <3>3. ASSUME NEW v \in Beneath[d] PROVE <<v, d>> \in RealHolders
      BY <1>1, <1>4, <3>2, <3>3, Everythings DEF RealHolders
    <3> QED BY <2>2, <3>2, <3>3
  <2>3. CASE d \notin Pv \cup Lv
    BY <2>3 DEF Edges1a
  <2> QED BY <2>1, <2>2, <2>3
<1>6. Obliged(d)
  <2>1. pass = "pv" => \A v \in Vg \cap reported : d \in Beneath[v] => <<d, v>> \in holders'
    <3> SUFFICES ASSUME pass = "pv", NEW v \in Vg, d \in Beneath[v] PROVE <<d, v>> \in holders'
      OBVIOUS
    <3>1. d \in Pv
      BY <1>1 DEF Kind
    <3>2. <<d, v>> \in Edges1a(d)
      <4>1. Edges1a(d) = PvEdges(d)
        BY <3>1, Apart DEF Edges1a
      <4> QED BY <4>1 DEF PvEdges
    <3> QED BY <1>3, <3>2
  <2>2. pass = "lv" => \A v \in Beneath[d] : <<v, d>> \in holders'
    <3> SUFFICES ASSUME pass = "lv", NEW v \in Beneath[d] PROVE <<v, d>> \in holders'
      OBVIOUS
    <3>1. d \in Lv /\ d \notin Pv
      BY <1>1, Apart DEF Kind
    <3>2. <<v, d>> \in Edges1a(d)
      BY <3>1 DEF Edges1a, LvEdges
    <3> QED BY <1>3, <3>2
  <2>3. \A c \in Content : PassOf(c) # pass
    BY <1>2, PassOfContent
  <2> QED BY <1>2, <1>3, <2>1, <2>2, <2>3 DEF Obliged
<1>7. Allowed(d)
  <2>1. known' \subseteq reported /\ roles' \subseteq Md \cap reported
    BY <1>1, <1>3 DEF Found, KnownSimple
  <2>2. \A e \in holders' \ holders : e \in RealHolders /\ e[2] \notin Content \cup Btrfs
    BY <1>3, <1>5, Apart DEF Content
  <2>3. \A n \in known' \ known : n = d
    BY <1>3
  <2> QED BY <1>1, <1>3, <2>1, <2>2, <2>3 DEF Allowed
<1> QED BY <1>1, <1>2, <1>3, <1>6, <1>7, VisitStep

\* After an error it is free to do less.
LEMMA CreateFailsStep ==
  ASSUME Found, UNCHANGED <<active, reported>>, NEW d, CreateFails(d), Local'
  PROVE  Found'
<1>1. pass \in {"disk", "md", "bcache"} /\ d \in visit
  BY DEF CreateFails, Turn
<1>2. pass \in DOMAIN Kind /\ pass \in DOMAIN Pos \ {"idle", "done"}
  BY <1>1 DEF Kind, Pos
<1>3. d \in Kind[pass] \cap reported
  BY <1>1, <1>2 DEF Found, Visits
<1>4. complaints' = complaints \cup {d} /\ Continue(d) /\ UNCHANGED <<holders, pending, roles>>
  BY DEF CreateFails, HandleDevice, Local
<1>5. /\ known \subseteq known' /\ known' \subseteq known \cup {d}
      /\ named \subseteq named' /\ sized \subseteq sized'
  BY DEF CreateFails
<1>6. \A c \in Content : PassOf(c) # pass
  BY <1>1, PassOfContent
<1>7. Obliged(d)
  BY <1>1, <1>4, <1>6 DEF Obliged
<1>8. Allowed(d)
  <2>1. known' \subseteq reported /\ roles' \subseteq Md \cap reported
    BY <1>3, <1>4, <1>5 DEF Found, KnownSimple
  <2> QED BY <1>2, <1>4, <1>5, <2>1 DEF Allowed
<1> QED BY <1>1, <1>2, <1>4, <1>7, <1>8, VisitStep

\* Pass 1b asks for edges there should be.
LEMMA CallsReal ==
  ASSUME Standing, NEW d \in Holding \cap Reported, reported = Reported, NEW c \in Calls(d)
  PROVE  /\ c.edge \in RealHolders
         /\ c.name \in Reported \cap (Simple \cup BlkDevice)
         /\ c.edge[2] \in Holding
<1>1. d \in Everything
  BY ReportedThere
<1>2. Beneath[d] \subseteq BlkDevice \cup Cset /\ BlkDevice \cup Cset \subseteq Simple \cup BlkDevice
  BY StackAssumption DEF Holding, Simple, BlkDevice, Partitionable
<1>3. ASSUME NEW x \in Named(d), c = [name |-> x, edge |-> <<x, d>>]
      PROVE  /\ c.edge \in RealHolders
             /\ c.name \in Reported \cap (Simple \cup BlkDevice)
             /\ c.edge[2] \in Holding
  <2>1. x \in Reported /\ x \in Beneath[d] /\ x \in Everything
    BY <1>1, <1>3, NamedReported, Everythings
  <2>2. c.name = x /\ c.edge = <<x, d>>
    BY <1>3
  <2>3. <<x, d>> \in RealHolders
    BY <2>1 DEF RealHolders
  <2> QED BY <1>2, <2>1, <2>2, <2>3
<1>4. ASSUME NEW b \in Bcache \cap Reported, d \in Beneath[b], c = [name |-> b, edge |-> <<d, b>>]
      PROVE  /\ c.edge \in RealHolders
             /\ c.name \in Reported \cap (Simple \cup BlkDevice)
             /\ c.edge[2] \in Holding
  <2>1. b \notin Pv /\ b \in Simple /\ b \in Holding
    BY Apart DEF Simple, Holding
  <2>2. d \in Named(b)
    BY <1>4, <2>1 DEF Named
  <2>3. c.name = b /\ c.edge = <<d, b>>
    BY <1>4
  <2>4. <<d, b>> \in RealHolders
    BY <1>1, <2>2 DEF RealHolders
  <2> QED BY <2>1, <2>3, <2>4
<1>5. \/ \E x \in Named(d) : c = [name |-> x, edge |-> <<x, d>>]
      \/ \E b \in Bcache \cap Reported : d \in Beneath[b] /\ c = [name |-> b, edge |-> <<d, b>>]
  BY DEF Calls, BcacheCalls, CsetCalls, Users
<1> QED BY <1>3, <1>4, <1>5

\* A visit of pass 1b asks for all edges.
LEMMA Pass1bStep ==
  ASSUME Found, Standing, reported = Reported, UNCHANGED <<active, reported>>, NEW d, ProbePass1b(d)
  PROVE  Found'
<1>1. pass = "holders" /\ d \in visit /\ Continue(d) /\ d \in known \cap Holding
  BY DEF ProbePass1b, Visiting, Turn, Found, Visits
<1>2. pass \in DOMAIN Pos \ {"idle", "done"} /\ pass \notin DOMAIN Kind
  BY <1>1 DEF Pos, Kind
<1>3. UNCHANGED <<known, named, sized, roles, complaints>> /\ AddHolders(Calls(d))
  BY DEF ProbePass1b
<1>4. d \in Reported
  BY <1>1 DEF Found, KnownSimple
<1>5. \A c \in Calls(d) : /\ c.edge \in RealHolders
                          /\ c.name \in Reported \cap (Simple \cup BlkDevice)
                          /\ c.edge[2] \in Holding
  BY <1>1, <1>4, CallsReal
<1>6. \A c \in Content : PassOf(c) # pass
  BY <1>1, PassOfContent
<1>7. \A c \in Calls(d) : IF c.name \in known THEN c.edge \in holders' ELSE c \in pending'
  BY <1>3 DEF AddHolders
<1>8. Obliged(d)
  BY <1>1, <1>2, <1>6, <1>7 DEF Obliged
<1>9. Allowed(d)
  <2>1. \A e \in holders' \ holders : e \in RealHolders /\ e[2] \notin Content \cup Btrfs
    <3>1. \A e \in holders' \ holders : e \in RealHolders /\ e[2] \in Holding
      BY <1>3, <1>5 DEF AddHolders
    <3> QED BY <3>1, Apart DEF Holding, Content
  <2>2. \A c \in pending' \ pending : c \in Calls(d)
    BY <1>3 DEF AddHolders
  <2>3. holders \subseteq holders' /\ pending \subseteq pending'
    BY <1>3 DEF AddHolders
  <2>4. known' \subseteq reported /\ roles' \subseteq Md \cap reported
    BY <1>3 DEF Found, KnownSimple
  <2> QED BY <1>3, <1>5, <2>1, <2>2, <2>3, <2>4 DEF Allowed
<1> QED BY <1>1, <1>2, <1>8, <1>9, VisitStep

\* Nothing is known to use the device of content that is still to be found, and it is
\* all that is seen on it.
LEMMA Unused ==
  ASSUME Found, Standing, reported = Reported,
         NEW c \in Content \cap reported, NEW x \in Beneath[c], ~ Over(PassOf(c), x)
  PROVE  ~ has_children(x) /\ is_active(x) /\ c \in SeenOn(x) /\ \A d \in SeenOn(x) : d = c
<1>1. c \in Everything /\ c \notin Vg \cup Pv \cup Lv \cup Multipath \cup Md
  BY Everythings, Apart DEF Content
<1>2. x \in BlkDevice
  BY ContentOn
<1>3. is_active(x)
  BY <1>1, ReportedOn
<1>4. ASSUME NEW d \in Everything, x \in Beneath[d] PROVE d = c
  BY <1>1, <1>2, <1>4, OneUser
<1>5. ASSUME NEW m \in Mirrors, m[1] = x PROVE FALSE
  <2>1. m[2] \in Multipath \cup Md /\ x \in Beneath[m[2]]
    BY <1>5, StackAssumption
  <2>2. m[2] \in Everything
    BY <2>1, Everythings DEF Simple
  <2> QED BY <1>1, <1>4, <2>1, <2>2
<1>6. ASSUME NEW e \in holders, e[1] = x PROVE FALSE
  <2>1. CASE e \in RealHolders
    <3>1. e[2] \in Reported /\ x \in Beneath[e[2]]
      BY <1>6, <2>1, NamedReported DEF RealHolders
    <3>2. e[2] = c
      BY <1>4, <3>1, ReportedThere
    <3>3. Over(PassOf(c), x)
      BY <1>6, <3>1, <3>2 DEF Found, HoldersReal
    <3> QED BY <3>3
  <2>2. CASE Spurious(e[1], e[2])
    BY <1>5, <1>6, <2>2 DEF Spurious
  <2> QED BY <2>1, <2>2 DEF Found, HoldersReal
<1>7. c \in SeenOn(x)
  BY SeenAll
<1>8. ASSUME NEW d \in SeenOn(x) PROVE d = c
  <2>1. d \in Everything
    BY SeenIs, Everythings
  <2> QED BY <1>4, <1>5, <2>1, SeenIs
<1> QED BY <1>3, <1>6, <1>7, <1>8 DEF has_children

\* What is seen on an unused device is on it, or on something that was not found.
LEMMA SeenReal ==
  ASSUME Found, Standing, reported = Reported, pass \in {"partitions", "luks", "filesystems"},
         NEW x \in known, ~ has_children(x), NEW d \in SeenOn(x)
  PROVE  <<x, d>> \in RealHolders \/ (Spurious(x, d) /\ x \notin Beneath[d])
<1>1. d \in reported /\ d \in Content /\ d \in Everything /\ d \notin Vg \cup Pv \cup Lv
  BY SeenIs, Everythings, Apart DEF Content
<1>2. CASE x \in Beneath[d]
  BY <1>1, <1>2, ReportedOn
<1>3. CASE x \notin Beneath[d]
  <2>1. PICK m \in Mirrors : m[1] = x /\ m[2] \in Beneath[d]
    BY <1>3, SeenIs
  <2> DEFINE y == m[2]
  <2>2. y \in Multipath \cup Md /\ x \in Beneath[y] /\ x \in Simple
    BY <2>1, StackAssumption, ProberAssumption DEF Simple, Partitionable
  <2>3. y \in reported
    BY <1>1, <2>1, ReportedOn
  <2>4. Pos[pass] > Pos["holders"] /\ Pos["holders"] \in Nat /\ Pos[pass] \in Nat /\ pass # "holders"
    BY DEF Pos
  <2>5. y \notin known
    <3> SUFFICES ASSUME y \in known PROVE FALSE
      OBVIOUS
    <3>1. y \in Holding /\ Over("holders", y)
      BY <2>2, <2>4 DEF Holding, Over
    <3>2. y \notin Pv \cup Bcache \cup Cset
      BY <2>2, Apart
    <3>3. Calls(y) = Users(y, Named(y)) /\ Named(y) = Beneath[y]
      BY <3>2 DEF Calls, Named
    <3>4. [name |-> x, edge |-> <<x, y>>] \in Calls(y)
      BY <2>2, <3>3 DEF Users
    <3>5. <<x, y>> \in holders
      BY <2>2, <3>1, <3>4 DEF Found, HeldCalls
    <3> QED BY <3>5 DEF has_children
  <2>6. y \in complaints
    <3>1. \A k \in DOMAIN Kind : \A v : Over(k, v)
      <4>1. \A k \in DOMAIN Kind : Pos[k] \in Nat /\ Pos[k] < Pos["holders"]
        BY KindsApart, Order
      <4> QED BY <2>4, <4>1 DEF Over
    <3>2. y \in Simple
      BY <2>2 DEF Simple
    <3> QED BY <2>3, <2>5, <3>1, <3>2, FoundBefore
  <2> QED BY <1>1, <1>3, <2>1, <2>4, <2>5, <2>6 DEF Spurious
<1> QED BY <1>2, <1>3

\* The partitions of a reported table are reported.
LEMMA PartitionsReported ==
  ASSUME NEW t \in Table \cap Reported, NEW p \in PartitionsOf(t)
  PROVE  p \in Partition \cap Reported /\ <<t, p>> \in RealHolders
<1>1. p \in Partition /\ Beneath[p] = {t}
  BY StackAssumption DEF PartitionsOf
<1>2. t \notin Device /\ t \in Everything /\ p \in Everything
  BY <1>1, Apart, Everythings DEF Device, Content
<1>3. Base[p] = Base[t]
  <2>1. Base[p] = BaseStep(Base, p)
    BY <1>2, BaseOf
  <2> QED BY <1>1, <1>2, <2>1 DEF BaseStep
<1>4. p \notin Vg \cup Pv \cup Lv /\ t \notin Vg \cup Pv \cup Lv
  BY <1>1, Apart
<1>5. There(t)
  BY <1>4 DEF Reported
<1>6. There(p)
  BY <1>3, <1>5 DEF There
<1>7. p \in Reported
  BY <1>2, <1>4, <1>6 DEF Reported
<1>8. t \in Named(p)
  BY <1>1, <1>4 DEF Named
<1> QED BY <1>1, <1>2, <1>7, <1>8 DEF RealHolders

\* What is unknown stays unknown when content is found: it is no content.
LEMMA SpuriousStays ==
  ASSUME NEW x, NEW d, Spurious(x, d), pass' = pass, complaints \subseteq complaints',
         known' \subseteq known \cup Content \cup Partition
  PROVE  Spurious(x, d)'
<1>1. PICK m \in Mirrors : m[1] = x /\ m[2] \in Beneath[d] /\ m[2] \in complaints \ known
  BY DEF Spurious
<1>2. m[2] \in Simple
  BY StackAssumption DEF Simple
<1>3. m[2] \in complaints' \ known'
  BY <1>1, <1>2, KindsApart
<1> QED BY <1>1, <1>3 DEF Spurious

\* A table that is seen is found with partitions of it.
LEMMA AddPartitionsAllowed ==
  ASSUME Found, Standing, reported = Reported, pass = "partitions", pass' = pass,
         NEW x \in known, ~ has_children(x), NEW t \in SeenOn(x) \cap Table,
         NEW S \in SUBSET PartitionsOf(t), AddPartitions(x, t, S),
         complaints \subseteq complaints', UNCHANGED <<pending, roles>>
  PROVE  Allowed(x)
<1>1. t \in Table \cap Reported /\ t \in Content
  BY SeenIs
<1>2. \A p \in S : p \in Partition \cap Reported /\ <<t, p>> \in RealHolders
  BY <1>1, PartitionsReported
<1>3. known' = known \cup {t} \cup S /\ holders' = holders \cup {<<x, t>>} \cup {<<t, p>> : p \in S}
      /\ named' = named \cup S /\ sized' = sized \cup S
  BY DEF AddPartitions
<1>4. known' \subseteq known \cup Content \cup Partition
  BY <1>1, <1>2, <1>3
<1>5. <<x, t>> \in RealHolders \/ Spurious(x, t)'
  BY <1>4, SeenReal, SpuriousStays
<1>6. PassOf(t) = pass /\ t \notin Btrfs
  BY <1>1, PassOfContent, Apart
<1>7. \A p \in S : p \notin Content \cup Btrfs
  BY <1>2, Apart DEF Content
<1>8. \A e \in holders' \ holders :
        /\ e \in RealHolders \/ Spurious(e[1], e[2])'
        /\ e[2] \in Content /\ e[1] \in Beneath[e[2]] => e[1] = x /\ PassOf(e[2]) = pass
        /\ e[2] \notin Btrfs
  <2> SUFFICES ASSUME NEW e \in holders' \ holders
               PROVE  /\ e \in RealHolders \/ Spurious(e[1], e[2])'
                      /\ e[2] \in Content /\ e[1] \in Beneath[e[2]] => e[1] = x /\ PassOf(e[2]) = pass
                      /\ e[2] \notin Btrfs
    OBVIOUS
  <2>1. CASE e = <<x, t>>
    <3>1. e[1] = x /\ e[2] = t
      BY <2>1
    <3> QED BY <1>5, <1>6, <2>1, <3>1
  <2>2. CASE \E p \in S : e = <<t, p>>
    BY <1>2, <1>7, <2>2
  <2> QED BY <1>3, <2>1, <2>2
<1>9. \A n \in known' \ known : n \notin Simple
  BY <1>1, <1>2, <1>3, KindsApart
<1>10. known' \subseteq reported /\ roles' \subseteq Md \cap reported
  BY <1>1, <1>2, <1>3 DEF Found, KnownSimple
<1>11. known \subseteq known' /\ holders \subseteq holders' /\ named \subseteq named' /\ sized \subseteq sized'
  BY <1>3
<1> QED BY <1>8, <1>9, <1>10, <1>11 DEF Allowed

\* The same for what is encrypted and for filesystems.
LEMMA AddOnAllowed ==
  ASSUME Found, Standing, reported = Reported, pass \in {"luks", "filesystems"}, pass' = pass,
         NEW x \in known, ~ has_children(x), NEW S \in SUBSET SeenOn(x),
         \A d \in S : PassOf(d) = pass, AddOn(x, S),
         complaints \subseteq complaints', UNCHANGED <<pending, roles, named, sized>>
  PROVE  Allowed(x)
<1>1. S \subseteq Content \cap reported
  BY SeenIs
<1>2. known' = known \cup S /\ holders' = holders \cup {<<x, d>> : d \in S}
  BY DEF AddOn
<1>3. \A d \in S : <<x, d>> \in RealHolders \/ Spurious(x, d)'
  <2>1. known' \subseteq known \cup Content \cup Partition
    BY <1>1, <1>2
  <2> QED BY <2>1, SeenReal, SpuriousStays
<1>4. \A d \in S : d \notin Btrfs /\ d \notin Simple
  BY <1>1, KindsApart, Apart DEF Content
<1>5. \A e \in holders' \ holders :
        /\ e \in RealHolders \/ Spurious(e[1], e[2])'
        /\ e[2] \in Content /\ e[1] \in Beneath[e[2]] => e[1] = x /\ PassOf(e[2]) = pass
        /\ e[2] \notin Btrfs
  <2> SUFFICES ASSUME NEW e \in holders' \ holders
               PROVE  /\ e \in RealHolders \/ Spurious(e[1], e[2])'
                      /\ e[2] \in Content /\ e[1] \in Beneath[e[2]] => e[1] = x /\ PassOf(e[2]) = pass
                      /\ e[2] \notin Btrfs
    OBVIOUS
  <2>1. PICK d \in S : e = <<x, d>>
    BY <1>2
  <2>2. e[1] = x /\ e[2] = d
    BY <2>1
  <2> QED BY <1>3, <1>4, <2>1, <2>2
<1>6. known' \subseteq reported /\ roles' \subseteq Md \cap reported
  BY <1>1, <1>2 DEF Found, KnownSimple
<1> QED BY <1>2, <1>4, <1>5, <1>6 DEF Allowed

\* What pass 1c finds.
LEMMA Pass1cStep ==
  ASSUME Found, Standing, reported = Reported, UNCHANGED <<active, reported>>, NEW x, ProbePass1c(x)
  PROVE  Found'
<1>1. pass = "partitions" /\ x \in visit /\ Continue(x) /\ x \in known \cap Partitionable
  BY DEF ProbePass1c, Visiting, Turn, Found, Visits
<1>2. pass \in DOMAIN Pos \ {"idle", "done"} /\ pass \notin DOMAIN Kind /\ pass' = pass
  BY <1>1 DEF Pos, Kind, Continue
<1>3. UNCHANGED <<pending, roles, complaints>>
  BY DEF ProbePass1c
<1>4. \A y : Clean(y)' <=> Clean(y)
  BY <1>3 DEF Clean
<1>5. Allowed(x)
  <2>1. CASE MayHavePartitions(x) /\ SeenOn(x) \cap Table # {}
    <3>1. PICK t \in SeenOn(x) \cap Table : AddPartitions(x, t, PartitionsOf(t))
      BY <2>1 DEF ProbePass1c
    <3>2. ~ has_children(x)
      BY <2>1 DEF MayHavePartitions
    <3> QED BY <1>1, <1>2, <1>3, <3>1, <3>2, AddPartitionsAllowed
  <2>2. CASE ~ (MayHavePartitions(x) /\ SeenOn(x) \cap Table # {})
    <3>1. UNCHANGED <<known, holders, named, sized>>
      BY <2>2 DEF ProbePass1c
    <3>2. known' \subseteq reported /\ roles' \subseteq Md \cap reported
      BY <1>3, <3>1 DEF Found, KnownSimple
    <3> QED BY <1>3, <3>1, <3>2 DEF Allowed
  <2> QED BY <2>1, <2>2
<1>6. ASSUME NEW t \in Table \cap reported, x \in Beneath[t], Clean(t)
      PROVE  AddPartitions(x, t, PartitionsOf(t))
  <2>1. t \in Content /\ t \in Everything /\ ~ Over(PassOf(t), x)
    <3>1. t \in Content /\ t \in Everything /\ PassOf(t) = pass
      BY <1>1, <1>6, PassOfContent, Everythings DEF Content
    <3>2. Pos[pass] \in 0 .. 16
      BY <1>2, Order
    <3> QED BY <1>1, <3>1, <3>2 DEF Over
  <2>2. ~ has_children(x) /\ is_active(x) /\ t \in SeenOn(x) /\ \A d \in SeenOn(x) : d = t
    BY <1>6, <2>1, Unused
  <2>3. x \in sized
    <3>1. \A k \in DOMAIN Kind : \A v : Over(k, v)
      <4>1. \A k \in DOMAIN Kind : Pos[k] \in Nat /\ Pos[k] < Pos["holders"]
        BY KindsApart, Order
      <4>2. Pos["holders"] = 9 /\ Pos[pass] = 10
        BY <1>1 DEF Pos
      <4> QED BY <4>1, <4>2 DEF Over
    <3>2. x \notin complaints
      BY <1>6, <2>1, CleanBeneath, ConeBeneath DEF Clean
    <3>3. x \in Simple \cap reported
      BY <1>1 DEF Found, KnownSimple, Simple, Partitionable
    <3> QED BY <3>1, <3>2, <3>3, FoundBefore
  <2>4. MayHavePartitions(x)
    BY <2>2, <2>3 DEF MayHavePartitions
  <2>5. PICK u \in SeenOn(x) \cap Table : AddPartitions(x, u, PartitionsOf(u))
    BY <1>6, <2>2, <2>4 DEF ProbePass1c
  <2> QED BY <2>2, <2>5
<1>7. Obliged(x)
  <2>1. ASSUME NEW c \in Content \cap reported, x \in Beneath[c], PassOf(c) = pass, Clean(c)'
        PROVE  c \in known' /\ <<x, c>> \in holders'
    <3>1. c \in Table
      BY <1>1, <2>1, PassOfContent
    <3>2. AddPartitions(x, c, PartitionsOf(c))
      BY <1>4, <1>6, <2>1, <3>1
    <3> QED BY <3>2 DEF AddPartitions
  <2>2. ASSUME NEW p \in Partition \cap reported, NEW t \in Beneath[p], x \in Beneath[t], Clean(p)'
        PROVE  p \in known' /\ <<t, p>> \in holders'
    <3>1. t \in Table /\ p \in Everything /\ p \notin Vg \cup Pv \cup Lv
      BY ContentOn, Everythings, Apart
    <3>2. t \in reported /\ Clean(t)
      BY <1>4, <2>2, <3>1, ReportedOn, CleanBeneath
    <3>3. AddPartitions(x, t, PartitionsOf(t))
      BY <1>6, <2>2, <3>1, <3>2
    <3>4. p \in PartitionsOf(t)
      BY DEF PartitionsOf
    <3> QED BY <3>3, <3>4 DEF AddPartitions
  <2> QED BY <1>1, <1>2, <2>1, <2>2 DEF Obliged
<1> QED BY <1>1, <1>2, <1>5, <1>7, VisitStep

\* If it fails all on the device is lost.
LEMMA Pass1cFailsStep ==
  ASSUME Found, Standing, reported = Reported, UNCHANGED <<active, reported>>, NEW x, Pass1cFails(x), Local'
  PROVE  Found'
<1>1. pass = "partitions" /\ x \in visit /\ Continue(x) /\ x \in known \cap Partitionable
  BY DEF Pass1cFails, HandleDevice, Local, Visiting, Turn, Found, Visits
<1>2. pass \in DOMAIN Pos \ {"idle", "done"} /\ pass \notin DOMAIN Kind /\ pass' = pass
  BY <1>1 DEF Pos, Kind, Continue
<1>3. UNCHANGED <<pending, roles>> /\ complaints' = complaints \cup {x}
  BY DEF Pass1cFails, HandleDevice
<1>4. Allowed(x)
  <2>1. CASE UNCHANGED <<known, holders, named, sized>>
    <3>1. known' \subseteq reported /\ roles' \subseteq Md \cap reported
      BY <1>3, <2>1 DEF Found, KnownSimple
    <3> QED BY <1>3, <2>1, <3>1 DEF Allowed
  <2>2. CASE \E t \in SeenOn(x) \cap Table : \E S \in SUBSET PartitionsOf(t) : AddPartitions(x, t, S)
    <3>1. PICK t \in SeenOn(x) \cap Table : \E S \in SUBSET PartitionsOf(t) : AddPartitions(x, t, S)
      BY <2>2
    <3>2. PICK S \in SUBSET PartitionsOf(t) : AddPartitions(x, t, S)
      BY <3>1
    <3>3. ~ has_children(x)
      BY DEF Pass1cFails, MayHavePartitions
    <3> QED BY <1>1, <1>2, <1>3, <3>2, <3>3, AddPartitionsAllowed
  <2> QED BY <2>1, <2>2 DEF Pass1cFails
<1>5. \A c \in Everything : x \in Beneath[c] => ~ Clean(c)'
  BY <1>3, ConeBeneath DEF Clean
<1>6. Obliged(x)
  <2>1. \A c \in Content : c \in Everything
    BY Everythings
  <2>2. ASSUME NEW p \in Partition, NEW t \in Beneath[p], x \in Beneath[t] PROVE ~ Clean(p)'
    <3>1. p \in Everything /\ t \in Everything
      BY Everythings
    <3> QED BY <1>3, <2>2, <3>1, ConeBeneath DEF Clean
  <2> QED BY <1>1, <1>2, <1>5, <2>1, <2>2 DEF Obliged
<1> QED BY <1>1, <1>2, <1>4, <1>6, VisitStep

\* What probing for encryption and filesystems finds on a device.
LEMMA AddSeenStep ==
  ASSUME Found, Standing, reported = Reported, UNCHANGED <<active, reported>>, NEW x \in visit,
         NEW C, \/ pass = "luks" /\ C = Luks
                \/ pass = "filesystems" /\ C = Filesystem,
         AddSeen(x, SeenOn(x) \cap C), Continue(x), complaints \subseteq complaints',
         UNCHANGED <<pending, named, sized, roles>>
  PROVE  Found'
<1>1. pass \in DOMAIN Pos \ {"idle", "done"} /\ pass \notin DOMAIN Kind /\ pass' = pass
      /\ x \in known /\ pass \notin {"holders", "partitions", "flush", "btrfs", "pv", "lv"}
  BY DEF Pos, Kind, Continue, Found, Visits
<1>2. C \subseteq Content /\ \A c \in C : PassOf(c) = pass
  BY PassOfContent DEF Content
<1>3. Allowed(x)
  <2>1. CASE has_children(x) \/ ~ is_active(x)
    <3>1. UNCHANGED <<known, holders>>
      BY <2>1 DEF AddSeen
    <3>2. known' \subseteq reported /\ roles' \subseteq Md \cap reported
      BY <3>1 DEF Found, KnownSimple
    <3> QED BY <3>1, <3>2 DEF Allowed
  <2>2. CASE ~ (has_children(x) \/ ~ is_active(x))
    <3>1. AddOn(x, SeenOn(x) \cap C) /\ ~ has_children(x)
      BY <2>2 DEF AddSeen
    <3> QED BY <1>1, <1>2, <3>1, AddOnAllowed
  <2> QED BY <2>1, <2>2
<1>4. ASSUME NEW c \in Content \cap reported, x \in Beneath[c], PassOf(c) = pass
      PROVE  c \in known' /\ <<x, c>> \in holders'
  <2>1. c \in C
    BY <1>4, PassOfContent
  <2>2. ~ Over(PassOf(c), x)
    <3>1. Pos[pass] \in 0 .. 16
      BY <1>1, Order
    <3> QED BY <1>1, <1>4, <3>1 DEF Over
  <2>3. ~ has_children(x) /\ is_active(x) /\ c \in SeenOn(x)
    BY <1>4, <2>2, Unused
  <2>4. AddOn(x, SeenOn(x) \cap C)
    BY <2>3 DEF AddSeen
  <2> QED BY <2>1, <2>3, <2>4 DEF AddOn
<1>5. Obliged(x)
  BY <1>1, <1>4 DEF Obliged
<1> QED BY <1>1, <1>3, <1>5, VisitStep

\* A visit of pass 1d.
LEMMA LuksStep ==
  ASSUME Found, Standing, reported = Reported, UNCHANGED <<active, reported>>, NEW x, ProbeLuks(x)
  PROVE  Found'
<1>1. /\ pass = "luks" /\ x \in visit /\ AddSeen(x, SeenOn(x) \cap Luks) /\ Continue(x)
      /\ UNCHANGED <<pending, named, sized, roles, complaints>>
  BY DEF ProbeLuks, Visiting, Turn
<1> QED BY <1>1, AddSeenStep

\* A filesystem is found even if its details are not.
LEMMA FilesystemStep ==
  ASSUME Found, Standing, reported = Reported, UNCHANGED <<active, reported>>, NEW x, ProbeFilesystem(x), Local'
  PROVE  Found'
<1>1. /\ pass = "filesystems" /\ x \in visit /\ AddSeen(x, SeenOn(x) \cap Filesystem) /\ Continue(x)
      /\ UNCHANGED <<pending, named, sized, roles>> /\ complaints \subseteq complaints'
  BY DEF ProbeFilesystem, Visiting, Turn, HandleDevice, Local
<1> QED BY <1>1, AddSeenStep

\* A pending edge is made, or what it leads to is complained about.
LEMMA FlushStep ==
  ASSUME Found, Standing, reported = Reported, UNCHANGED <<active, reported>>, NEW c, FlushPending(c), Local'
  PROVE  Found'
<1>1. pass = "flush" /\ c \in visit /\ c \in pending /\ Continue(c)
      /\ UNCHANGED <<known, pending, named, sized, roles>>
  BY DEF FlushPending, Local, Found, Visits
<1>2. pass \in DOMAIN Pos \ {"idle", "done"} /\ pass \notin DOMAIN Kind
      /\ pass \notin {"holders", "partitions", "luks", "filesystems", "btrfs", "pv", "lv"}
  BY <1>1 DEF Pos, Kind
<1>3. c.edge \in RealHolders /\ c.edge[2] \in Holding
  BY <1>1 DEF Found, Pendings
<1>4. IF c.name \in known THEN holders' = holders \cup {c.edge} /\ complaints' = complaints
      ELSE holders' = holders /\ complaints' = complaints \cup {c.edge[2]}
  BY DEF FlushPending
<1>5. \A d \in Content : PassOf(d) # pass
  BY <1>2, PassOfContent
<1>6. Clean(c.edge[2])' => c.edge \in holders'
  <2>1. c.edge[2] \in Everything
    BY <1>3, Everythings DEF Holding, Simple
  <2> QED BY <1>4, <2>1, ConeBeneath DEF Clean
<1>7. Obliged(c)
  BY <1>2, <1>5, <1>6 DEF Obliged
<1>8. Allowed(c)
  <2>1. known' \subseteq reported /\ roles' \subseteq Md \cap reported
    BY <1>1 DEF Found, KnownSimple
  <2>2. \A e \in holders' \ holders : e = c.edge
    BY <1>4
  <2>3. c.edge[2] \notin Content \cup Btrfs
    BY <1>3, Apart DEF Holding, Content
  <2>4. holders \subseteq holders' /\ complaints \subseteq complaints'
    BY <1>4
  <2> QED BY <1>1, <1>3, <2>1, <2>2, <2>3, <2>4 DEF Allowed
<1> QED BY <1>1, <1>2, <1>7, <1>8, VisitStep

\* Pass 1f adds nothing.
LEMMA RolesStep ==
  ASSUME Found, Standing, reported = Reported, UNCHANGED <<active, reported>>, NEW m, ProbeRoles(m)
  PROVE  Found'
<1>1. pass = "roles" /\ m \in visit /\ Continue(m) /\ m \in Md \cap reported /\ roles' = roles \cup {m}
      /\ UNCHANGED <<known, holders, pending, named, sized, complaints>>
  BY DEF ProbeRoles, Visiting, Turn, Found, Visits, KnownSimple
<1>2. pass \in DOMAIN Pos \ {"idle", "done"} /\ pass \notin DOMAIN Kind
      /\ pass \notin {"holders", "partitions", "luks", "flush", "filesystems", "btrfs", "pv", "lv"}
  BY <1>1 DEF Pos, Kind
<1>3. \A d \in Content : PassOf(d) # pass
  BY <1>2, PassOfContent
<1>4. Obliged(m)
  BY <1>2, <1>3 DEF Obliged
<1>5. Allowed(m)
  BY <1>1 DEF Allowed, Found, KnownSimple
<1> QED BY <1>1, <1>2, <1>4, <1>5, VisitStep

\* A Btrfs is made with all its devices.
LEMMA BtrfsStep ==
  ASSUME Found, Standing, reported = Reported, UNCHANGED <<active, reported>>, NEW f, ProbeBtrfs(f), Local'
  PROVE  Found'
<1>1. pass = "btrfs" /\ f \in visit /\ Continue(f) /\ f \in Btrfs \cap Reported
      /\ known' = known \cup {f} /\ holders' = holders \cup {<<x, f>> : x \in Beneath[f]}
      /\ UNCHANGED <<pending, named, sized, roles>> /\ complaints \subseteq complaints'
  BY DEF ProbeBtrfs, HandleDevice, Local, Visiting, Turn, Found, Visits
<1>2. pass \in DOMAIN Pos \ {"idle", "done"} /\ pass \notin DOMAIN Kind
      /\ pass \notin {"holders", "partitions", "luks", "flush", "filesystems", "pv", "lv"}
  BY <1>1 DEF Pos, Kind
<1>3. \A d \in Content : PassOf(d) # pass
  BY <1>2, PassOfContent
<1>4. Obliged(f)
  BY <1>1, <1>2, <1>3 DEF Obliged
<1>5. f \notin Content \cup Simple \cup Vg \cup Pv \cup Lv
  BY <1>1, Apart, KindsApart DEF Content
<1>6. \A e \in holders' \ holders : e \in RealHolders /\ e[2] = f
  <2>1. \A x \in Beneath[f] : <<x, f>> \in RealHolders
    BY <1>1, <1>5, ReportedOn
  <2> QED BY <1>1, <2>1
<1>7. Allowed(f)
  <2>1. known' \subseteq reported /\ roles' \subseteq Md \cap reported
    BY <1>1 DEF Found, KnownSimple
  <2>2. known \subseteq known' /\ holders \subseteq holders'
    BY <1>1
  <2> QED BY <1>1, <1>5, <1>6, <2>1, <2>2 DEF Allowed
<1> QED BY <1>1, <1>2, <1>4, <1>7, VisitStep

\* One that cannot be made is complained about.
LEMMA BtrfsFailsStep ==
  ASSUME Found, Standing, reported = Reported, UNCHANGED <<active, reported>>, NEW f, BtrfsFails(f), Local'
  PROVE  Found'
<1>1. pass = "btrfs" /\ f \in visit /\ Continue(f) /\ f \in Btrfs \cap reported
      /\ UNCHANGED <<known, holders, pending, named, sized, roles>> /\ complaints' = complaints \cup {f}
  BY DEF BtrfsFails, HandleDevice, Local, Visiting, Turn, Found, Visits
<1>2. pass \in DOMAIN Pos \ {"idle", "done"} /\ pass \notin DOMAIN Kind
      /\ pass \notin {"holders", "partitions", "luks", "flush", "filesystems", "pv", "lv"}
  BY <1>1 DEF Pos, Kind
<1>3. \A d \in Content : PassOf(d) # pass
  BY <1>2, PassOfContent
<1>4. ~ Clean(f)'
  <2>1. f \in Everything
    BY <1>1, Everythings
  <2> QED BY <1>1, <2>1, ConeBeneath DEF Clean
<1>5. Obliged(f)
  BY <1>2, <1>3, <1>4 DEF Obliged
<1>6. Allowed(f)
  BY <1>1 DEF Allowed, Found, KnownSimple
<1> QED BY <1>1, <1>2, <1>5, <1>6, VisitStep

-----------------------------------------------------------------------------
(* All steps of the passes.                                                *)

\* Complaints are not forgotten, and after an abort there is no step.
LEMMA StepsOn ==
  ASSUME PassStep
  PROVE  complaints \subseteq complaints' /\ pass \in {Passes[i] : i \in DOMAIN Passes} /\ pass # "failed"
         /\ faults' \in {faults, faults + 1}
<1>1. \A p \in DOMAIN Pos \ {"idle", "done"} : p \in {Passes[i] : i \in DOMAIN Passes} /\ p # "failed"
  BY Order DEF Pos
<1>2. {"disk", "md", "bcache", "multipath", "vg", "pv", "lv", "cset", "holders", "partitions", "luks",
       "flush", "roles", "filesystems", "btrfs"} = DOMAIN Pos \ {"idle", "done"}
  BY DEF Pos
<1>3. \A k \in DOMAIN Kind : k \in DOMAIN Pos \ {"idle", "done"}
  BY <1>2 DEF Kind
<1>4. CASE NextPass
  <2>1. pass \in DOMAIN Pos \ {"idle", "done"}
    BY <1>4, Order DEF NextPass
  <2> QED BY <1>1, <1>4, <2>1 DEF NextPass
<1>5. CASE CreateAllFails
  BY <1>1, <1>2, <1>5 DEF CreateAllFails, HandlePass, Fault
<1>6. ASSUME NEW d \in visit,
             \/ Create(d) \/ CreateFails(d) \/ ProbePass1b(d) \/ Pass1bFails(d)
             \/ ProbePass1c(d) \/ Pass1cFails(d)
      PROVE  complaints \subseteq complaints' /\ pass \in DOMAIN Pos \ {"idle", "done"}
             /\ faults' \in {faults, faults + 1}
  <2>1. CASE Create(d)
    BY <1>3, <2>1 DEF Create
  <2>2. CASE CreateFails(d)
    BY <1>2, <2>2 DEF CreateFails, HandleDevice, Fault
  <2>3. CASE ProbePass1b(d)
    BY <1>2, <2>3 DEF ProbePass1b, Visiting
  <2>4. CASE Pass1bFails(d)
    BY <1>2, <2>4 DEF Pass1bFails, Visiting, HandlePass, Fault
  <2>5. CASE ProbePass1c(d)
    BY <1>2, <2>5 DEF ProbePass1c, Visiting
  <2>6. CASE Pass1cFails(d)
    BY <1>2, <2>6 DEF Pass1cFails, Visiting, HandleDevice, Fault
  <2> QED BY <1>6, <2>1, <2>2, <2>3, <2>4, <2>5, <2>6
<1>7. ASSUME NEW d \in visit,
             \/ ProbeLuks(d) \/ LuksFails(d) \/ FlushPending(d) \/ ProbeRoles(d) \/ RolesFail(d)
             \/ ProbeFilesystem(d) \/ ProbeBtrfs(d) \/ BtrfsFails(d)
      PROVE  complaints \subseteq complaints' /\ pass \in DOMAIN Pos \ {"idle", "done"}
             /\ faults' \in {faults, faults + 1}
  <2>1. CASE ProbeLuks(d)
    BY <1>2, <2>1 DEF ProbeLuks, Visiting
  <2>2. CASE LuksFails(d)
    BY <1>2, <2>2 DEF LuksFails, Visiting, HandlePass, Fault
  <2>3. CASE FlushPending(d)
    BY <1>2, <2>3 DEF FlushPending
  <2>4. CASE ProbeRoles(d)
    BY <1>2, <2>4 DEF ProbeRoles, Visiting
  <2>5. CASE RolesFail(d)
    BY <1>2, <2>5 DEF RolesFail, Visiting, HandlePass, Fault
  <2>6. CASE ProbeFilesystem(d)
    BY <1>2, <2>6 DEF ProbeFilesystem, Visiting, HandleDevice, Fault
  <2>7. CASE ProbeBtrfs(d)
    BY <1>2, <2>7 DEF ProbeBtrfs, Visiting, HandleDevice, Fault
  <2>8. CASE BtrfsFails(d)
    BY <1>2, <2>8 DEF BtrfsFails, Visiting, HandleDevice
  <2> QED BY <1>7, <2>1, <2>2, <2>3, <2>4, <2>5, <2>6, <2>7, <2>8
<1> QED BY <1>1, <1>4, <1>5, <1>6, <1>7 DEF PassStep

\* An error that ends a pass is about the pass.
LEMMA PassEnds ==
  ASSUME pass \in {Passes[i] : i \in DOMAIN Passes}, HandlePass
  PROVE  ~ Local'
BY PassAssumption DEF HandlePass, Local

\* As long as errors are about single devices the passes find what is clean.
LEMMA FoundKept ==
  ASSUME Found, Standing, reported = Reported, PassStep, UNCHANGED <<reported, forward>>,
         UNCHANGED active, Local'
  PROVE  Found'
<1>1. pass \in {Passes[i] : i \in DOMAIN Passes} /\ UNCHANGED <<active, reported>>
  BY StepsOn
<1>2. ~ HandlePass
  BY <1>1, PassEnds
<1>3. CASE NextPass
  BY <1>1, <1>3, NextPassFound
<1>4. CASE CreateAllFails
  BY <1>2, <1>4 DEF CreateAllFails
<1>5. ASSUME NEW d \in visit,
             \/ Create(d) \/ CreateFails(d) \/ ProbePass1b(d) \/ Pass1bFails(d)
             \/ ProbePass1c(d) \/ Pass1cFails(d)
      PROVE  Found'
  <2>1. CASE Create(d)
    BY <1>1, <2>1, CreateStep
  <2>2. CASE CreateFails(d)
    BY <1>1, <2>2, CreateFailsStep
  <2>3. CASE ProbePass1b(d)
    BY <1>1, <2>3, Pass1bStep
  <2>4. CASE Pass1bFails(d)
    BY <1>2, <2>4 DEF Pass1bFails
  <2>5. CASE ProbePass1c(d)
    BY <1>1, <2>5, Pass1cStep
  <2>6. CASE Pass1cFails(d)
    BY <1>1, <2>6, Pass1cFailsStep
  <2> QED BY <1>5, <2>1, <2>2, <2>3, <2>4, <2>5, <2>6
<1>6. ASSUME NEW d \in visit,
             \/ ProbeLuks(d) \/ LuksFails(d) \/ FlushPending(d) \/ ProbeRoles(d) \/ RolesFail(d)
             \/ ProbeFilesystem(d) \/ ProbeBtrfs(d) \/ BtrfsFails(d)
      PROVE  Found'
  <2>1. CASE ProbeLuks(d)
    BY <1>1, <2>1, LuksStep
  <2>2. CASE LuksFails(d)
    BY <1>2, <2>2 DEF LuksFails
  <2>3. CASE FlushPending(d)
    BY <1>1, <2>3, FlushStep
  <2>4. CASE ProbeRoles(d)
    BY <1>1, <2>4, RolesStep
  <2>5. CASE RolesFail(d)
    BY <1>2, <2>5 DEF RolesFail
  <2>6. CASE ProbeFilesystem(d)
    BY <1>1, <2>6, FilesystemStep
  <2>7. CASE ProbeBtrfs(d)
    BY <1>1, <2>7, BtrfsStep
  <2>8. CASE BtrfsFails(d)
    BY <1>1, <2>8, BtrfsFailsStep
  <2> QED BY <1>6, <2>1, <2>2, <2>3, <2>4, <2>5, <2>6, <2>7, <2>8
<1> QED BY <1>3, <1>4, <1>5, <1>6 DEF PassStep

\* A visit that complains about nothing.
LEMMA Silent ==
  ASSUME complaints = {}, pass \in DOMAIN Pos, \A m \in Md \cap reported : Over("roles", m) => m \in roles,
         NEW d \in visit, Continue(d), UNCHANGED <<reported, complaints>>, roles \subseteq roles',
         pass = "roles" => d \in roles'
  PROVE  Unfailing'
<1>1. \A p, v : Over(p, v)' <=> Over(p, v) \/ (p = pass /\ v = d)
  BY OverVisited
<1>2. pass' # "failed"
  BY DEF Continue, Pos
<1> QED BY <1>1, <1>2 DEF Unfailing

\* Without faults no pass fails, as all that it needs is found before.
LEMMA UnfailingKept ==
  ASSUME Unfailing, faults \in Nat, Standing, reported = Reported, Local => Found,
         PassStep, UNCHANGED <<reported, forward>>, UNCHANGED active
  PROVE  Unfailing'
<1> SUFFICES ASSUME faults' = 0 PROVE Unfailing'
  BY DEF Unfailing
<1>1. faults = 0 /\ ~ Fault
  BY StepsOn DEF Fault
<1>2. complaints = {} /\ pass # "failed" /\ \A m \in Md \cap reported : Over("roles", m) => m \in roles
  BY <1>1 DEF Unfailing
<1>3. Found /\ \A x : Clean(x)
  BY <1>2 DEF Local, Clean
<1>4. pass \in DOMAIN Pos \ {"idle", "done"}
  BY StepsOn, Order
<1>5. Pos[pass] \in Nat /\ Pos["holders"] = 9 /\ Pos["partitions"] = 10 /\ Pos["luks"] = 11
      /\ Pos["flush"] = 12 /\ Pos["roles"] = 13 /\ Pos["btrfs"] = 15
  BY <1>4, Order DEF Pos
<1>6. Pos[pass] >= 9 => /\ \A k \in DOMAIN Kind : \A v : Over(k, v)
                        /\ Simple \cap reported \subseteq known \cap named
                        /\ Partitionable \cap reported \subseteq known
  <2>1. \A k \in DOMAIN Kind : Pos[k] \in Nat /\ Pos[k] < Pos["holders"]
    BY KindsApart, Order
  <2>2. Pos[pass] >= 9 => \A k \in DOMAIN Kind : \A v : Over(k, v)
    BY <1>5, <2>1 DEF Over
  <2>3. Partitionable \subseteq Simple
    BY DEF Partitionable, Simple
  <2> QED BY <1>2, <1>3, <2>2, <2>3, FoundBefore
<1>7. Pos[pass] >= 12 => BlkDevice \cap reported \subseteq known
  <2>1. Pos[pass] >= 12 => \A v : Over("partitions", v) /\ Over("luks", v)
    BY <1>5 DEF Over
  <2> QED BY <1>3, <1>5, <1>6, <2>1, BlkDevicesFound
<1>8. known \subseteq reported
  BY <1>3 DEF Found, KnownSimple
<1>10. CASE NextPass
  <2>1. visit = {} /\ pass' = After(pass) /\ visit' = ToVisit(pass') /\ UNCHANGED <<known, complaints, roles>>
    BY <1>10 DEF NextPass, Enter
  <2>2. \A v : Over("roles", v)' <=> Over("roles", v) \/ ("roles" = pass' /\ v \notin visit')
    <3>1. "roles" \in DOMAIN Pos
      BY DEF Pos
    <3> QED BY <1>4, <2>1, <3>1, OverEntered
  <2>3. pass' # "failed"
    <3>1. pass' \in DOMAIN Pos
      BY <1>4, <2>1, Order
    <3> QED BY <3>1 DEF Pos
  <2>4. ASSUME NEW m \in Md \cap reported, Over("roles", m)' PROVE m \in roles
    <3>1. CASE Over("roles", m)
      BY <1>2, <3>1
    <3>2. CASE "roles" = pass' /\ m \notin visit'
      <4>1. Pos[pass] + 1 = 13
        BY <1>4, <1>5, <2>1, <3>2, Order
      <4>2. m \in known
        BY <1>5, <1>7, <4>1 DEF BlkDevice, Partitionable
      <4>3. visit' = known \cap Md
        BY <2>1, <3>2 DEF ToVisit, Kind
      <4> QED BY <3>2, <4>2, <4>3
    <3> QED BY <2>2, <2>4, <3>1, <3>2
  <2> QED BY <1>2, <2>1, <2>3, <2>4 DEF Unfailing
<1>11. CASE CreateAllFails
  BY <1>1, <1>11 DEF CreateAllFails
<1>12. ASSUME NEW d \in visit,
             \/ Create(d) \/ CreateFails(d) \/ ProbePass1b(d) \/ Pass1bFails(d)
             \/ ProbePass1c(d) \/ Pass1cFails(d)
      PROVE  Unfailing'
  <2>1. CASE Create(d)
    <3>1. pass # "roles"
      BY <2>1 DEF Create, Kind
    <3> QED BY <1>2, <1>4, <2>1, <3>1, Silent DEF Create
  <2>2. CASE CreateFails(d)
    BY <1>1, <2>2 DEF CreateFails
  <2>3. CASE ProbePass1b(d)
    BY <1>2, <1>4, <2>3, Silent DEF ProbePass1b, Visiting
  <2>4. CASE Pass1bFails(d)
    <3>1. pass = "holders" /\ ~ CanProbe1b(d)
      BY <1>1, <2>4 DEF Pass1bFails, Visiting
    <3>2. d \in known \cap Holding
      BY <1>3, <3>1 DEF Found, Visits
    <3>3. d \in named
      BY <1>5, <1>6, <1>8, <3>1, <3>2 DEF Holding, Simple
    <3>4. d \in Multipath => Beneath[d] \subseteq known
      <4> SUFFICES ASSUME d \in Multipath, NEW x \in Beneath[d] PROVE x \in known
        OBVIOUS
      <4>1. x \in Disk
        BY StackAssumption
      <4>2. x \in reported
        BY <4>1, ReportedThere
      <4> QED BY <1>5, <1>6, <3>1, <4>1, <4>2 DEF Partitionable
    <3> QED BY <3>1, <3>3, <3>4 DEF CanProbe1b
  <2>5. CASE ProbePass1c(d)
    BY <1>2, <1>4, <2>5, Silent DEF ProbePass1c, Visiting
  <2>6. CASE Pass1cFails(d)
    BY <1>1, <2>6 DEF Pass1cFails
  <2> QED BY <1>12, <2>1, <2>2, <2>3, <2>4, <2>5, <2>6
<1>13. ASSUME NEW d \in visit,
             \/ ProbeLuks(d) \/ LuksFails(d) \/ FlushPending(d) \/ ProbeRoles(d) \/ RolesFail(d)
             \/ ProbeFilesystem(d) \/ ProbeBtrfs(d) \/ BtrfsFails(d)
      PROVE  Unfailing'
  <2>1. CASE ProbeLuks(d)
    BY <1>2, <1>4, <2>1, Silent DEF ProbeLuks, Visiting
  <2>2. CASE LuksFails(d)
    BY <1>1, <2>2 DEF LuksFails
  <2>3. CASE FlushPending(d)
    <3>1. pass = "flush" /\ d \in pending
      BY <1>3, <2>3 DEF FlushPending, Found, Visits
    <3>2. d.name \in known
      <4>1. d.name \in reported \cap (Simple \cup BlkDevice)
        BY <1>3, <3>1 DEF Found, Pendings
      <4> QED BY <1>5, <1>6, <1>7, <3>1, <4>1
    <3> QED BY <1>2, <1>4, <2>3, <3>1, <3>2, Silent DEF FlushPending
  <2>4. CASE ProbeRoles(d)
    BY <1>2, <1>4, <2>4, Silent DEF ProbeRoles, Visiting
  <2>5. CASE RolesFail(d)
    <3>1. pass = "roles" /\ ~ Beneath[d] \subseteq known
      BY <1>1, <2>5 DEF RolesFail, Visiting
    <3>2. d \in Md \cap Reported /\ d \notin Vg \cup Pv \cup Lv
      BY <1>3, <1>8, <3>1, Apart DEF Found, Visits
    <3>3. \A x \in Beneath[d] : x \in Reported /\ x \in BlkDevice
      BY <3>2, ReportedOn, StackAssumption
    <3> QED BY <1>5, <1>7, <3>1, <3>3
  <2>6. CASE ProbeFilesystem(d)
    BY <1>1, <1>2, <1>4, <2>6, Silent DEF ProbeFilesystem, Visiting
  <2>7. CASE ProbeBtrfs(d)
    BY <1>1, <1>2, <1>4, <2>7, Silent DEF ProbeBtrfs, Visiting
  <2>8. CASE BtrfsFails(d)
    <3>1. pass = "btrfs" /\ d \in Btrfs \cap Reported /\ d \notin Vg \cup Pv \cup Lv \cup Content
      BY <1>3, <2>8, Apart DEF BtrfsFails, Visiting, Found, Visits, Content
    <3>2. \A x \in Beneath[d] : x \in Reported /\ x \in BlkDevice
      BY <3>1, ReportedOn, StackAssumption
    <3>3. PICK x \in Beneath[d] : has_children(x)
      BY <1>5, <1>7, <2>8, <3>1, <3>2 DEF BtrfsFails
    <3>4. PICK e \in holders : e[1] = x
      BY <3>3 DEF has_children
    <3>5. e \in RealHolders
      BY <1>2, <1>3 DEF Found, HoldersReal, Spurious
    <3>6. e[2] \in Reported /\ x \in Beneath[e[2]]
      BY <3>4, <3>5, NamedReported DEF RealHolders
    <3>7. e[2] = d
      BY <3>1, <3>2, <3>6, OneUser, ReportedThere
    <3>8. Over("btrfs", d)
      BY <1>3, <3>1, <3>7 DEF Found, HoldersReal
    <3> QED BY <1>5, <3>1, <3>8 DEF Over
  <2> QED BY <1>13, <2>1, <2>2, <2>3, <2>4, <2>5, <2>6, <2>7, <2>8
<1> QED BY <1>10, <1>11, <1>12, <1>13 DEF PassStep

\* Devices become active when what they are on is, and inactive when nothing is on them.
LEMMA StandingKept ==
  ASSUME Standing, Opening, [Next \/ Restart]_vars
  PROVE  Standing' /\ Opening'
<1>1. active \subseteq Device /\ \A d \in active : Visible(d)
  BY DEF Standing, Visible
<1>2. ASSUME active \subseteq active', \A d \in active' \ active : d \in Device /\ Visible(d)
      PROVE  Standing' /\ \A d : Visible(d) => Visible(d)'
  BY <1>1, <1>2 DEF Standing, Visible
<1>3. ASSUME UNCHANGED active, at' = "open" => todo' \subseteq todo /\ at = "open"
      PROVE  Standing' /\ Opening'
  BY <1>3 DEF Standing, Opening, Visible
<1>4. ASSUME active \subseteq active', \A d \in active' \ active : d \in Device /\ Visible(d),
             at' = "open" => todo' \subseteq todo /\ at = "open"
      PROVE  Standing' /\ Opening'
  BY <1>2, <1>4 DEF Opening
<1>5. ASSUME UNCHANGED vars PROVE Standing' /\ Opening'
  BY <1>3, <1>5 DEF vars
<1>6. CASE Restart
  BY <1>3, <1>6 DEF Restart
<1>7. CASE Activate \/ Deactivate \/ CountLvs \/ RecountLvs \/ EndRound \/ Return \/ EndLukses \/ EndLvs
  <2>1. UNCHANGED active /\ at' # "open"
    BY <1>7 DEF Activate, Deactivate, CountLvs, RecountLvs, EndRound, Return, EndLukses, EndLvs
  <2> QED BY <1>3, <2>1
<1>8. CASE ActivateLvs
  <2>1. \E S \in SUBSET Inactive(Lv) : active' = active \cup S
    BY <1>8 DEF ActivateLvs
  <2>2. at' # "open"
    BY <1>8 DEF ActivateLvs, Error
  <2> QED BY <1>4, <2>1, <2>2 DEF Inactive, Device
<1>9. CASE ListLukses
  <2>1. UNCHANGED active /\ todo' = Inactive(Luks)
    BY <1>9 DEF ListLukses
  <2> QED BY <2>1 DEF Standing, Opening, Inactive, Visible
<1>10. ASSUME NEW l \in Luks, Cancel(l) \/ SkipCanceled(l) \/ OpenFails(l) PROVE Standing' /\ Opening'
  <2>1. UNCHANGED active /\ todo' \subseteq todo /\ at = "open"
    BY <1>10 DEF Cancel, SkipCanceled, OpenFails, Visit, Visited
  <2> QED BY <1>3, <2>1
<1>11. ASSUME NEW l \in Luks, OpenCached(l) \/ \E password \in Password : OpenAsked(l, password)
       PROVE  Standing' /\ Opening'
  <2>1. at = "open" /\ l \in todo /\ todo' \subseteq todo /\ active' \in {active, active \cup {l}}
    BY <1>11 DEF OpenCached, OpenAsked, Visit, Visited
  <2>2. Visible(l) /\ l \in Device
    BY <2>1 DEF Opening, Device
  <2> QED BY <1>4, <2>1, <2>2
<1>12. ASSUME NEW d \in Device, Close(d) PROVE Standing' /\ Opening'
  <2>1. at' # "open" /\ active' = IF Held(d) \/ d \in Busy THEN active ELSE active \ {d}
    BY <1>12 DEF Close, Closing
  <2>2. Standing'
    <3>1. CASE active' = active
      BY <3>1 DEF Standing
    <3>2. CASE ~ Held(d) /\ active' = active \ {d}
      BY <3>2 DEF Standing, Held
    <3> QED BY <2>1, <3>1, <3>2
  <2> QED BY <2>1, <2>2 DEF Opening
<1>13. ASSUME NEW lv \in Lv, AutoActivate(lv) PROVE Standing' /\ Opening'
  <2>1. active' = active \cup {lv} /\ Visible(lv) /\ lv \in Device /\ at' = at /\ todo' = todo
    BY <1>13 DEF AutoActivate, Inactive, Device
  <2> QED BY <1>4, <2>1
<1> QED
  BY <1>5, <1>6, <1>7, <1>8, <1>9, <1>10, <1>11, <1>12, <1>13 DEF Next, Step

\* When the passes begin nothing is known.
LEMMA BeginFound ==
  ASSUME Idle, Standing, ProbeBegin, UNCHANGED active
  PROVE  Found' /\ reported' = Reported'
<1>1. /\ pass' = "disk" /\ visit' = Disk /\ reported' = Reported
      /\ known' = {} /\ holders' = {} /\ pending' = {} /\ roles' = {}
  BY DEF ProbeBegin, Idle
<1>2. Reported' = Reported
  BY DEF Reported, There
<1>3. \A p \in DOMAIN Pos : \A v : Over(p, v)' => p = "idle" \/ (p = "disk" /\ v \notin Disk)
  BY <1>1 DEF Over, Pos
<1>4. "disk" \in DOMAIN Kind /\ Kind["disk"] = Disk /\ \A k \in DOMAIN Kind : k \in DOMAIN Pos /\ k # "idle"
  BY DEF Kind, Pos
<1>5. {"partitions", "luks", "filesystems", "btrfs", "pv", "lv"} \subseteq DOMAIN Pos
  BY DEF Pos
<1>6. Visits'
  BY <1>1, <1>4, ReportedThere DEF Visits
<1>7. KnownSimple'
  <2>1. \A k \in DOMAIN Kind : \A d \in Kind[k] : ~ Over(k, d)'
    BY <1>3, <1>4
  <2> QED BY <1>1, <2>1 DEF KnownSimple
<1>8. KnownContent'
  <2>1. \A d \in Content : \A x : ~ Over(PassOf(d), x)'
    <3>1. \A d \in Content : PassOf(d) \in {"partitions", "luks", "filesystems"}
      BY PassOfContent
    <3> QED BY <1>3, <1>5, <3>1
  <2> QED BY <2>1 DEF KnownContent
<1>9. KnownPartitions' /\ KnownBtrfs' /\ HeldVgs'
  BY <1>3, <1>5 DEF KnownPartitions, KnownBtrfs, HeldVgs
<1>10. HeldCalls' /\ Pendings' /\ HoldersReal' /\ roles' \subseteq Md \cap reported'
  BY <1>1 DEF HeldCalls, Pendings, HoldersReal
<1> QED BY <1>1, <1>2, <1>6, <1>7, <1>8, <1>9, <1>10 DEF Found

\* The passes follow each other.
LEMMA PassGoesOn ==
  ASSUME PassStep
  PROVE  pass' \in DOMAIN Pos \cup {"failed"} /\ pass' # "idle"
<1>1. pass \in DOMAIN Pos \ {"idle", "done"}
  BY StepsOn, Order
<1>2. "bcache" \in DOMAIN Pos /\ After(pass) \in DOMAIN Pos /\ After(pass) # "idle"
  <2>1. After(pass) \in DOMAIN Pos /\ Pos[After(pass)] = Pos[pass] + 1 /\ Pos[pass] \in Nat
    BY <1>1, Order
  <2> QED BY <2>1 DEF Pos
<1>3. pass' \in {pass, After(pass), "bcache", "failed"}
  <2>1. CASE NextPass \/ CreateAllFails
    BY <2>1 DEF NextPass, CreateAllFails, Enter, HandlePass
  <2>2. ASSUME NEW d \in visit,
               \/ Create(d) \/ CreateFails(d) \/ ProbePass1b(d) \/ Pass1bFails(d)
               \/ ProbePass1c(d) \/ Pass1cFails(d)
        PROVE  pass' \in {pass, After(pass), "bcache", "failed"}
    BY <2>2 DEF Create, CreateFails, ProbePass1b, Pass1bFails, ProbePass1c, Pass1cFails, Continue,
                Enter, HandlePass, HandleDevice
  <2>3. ASSUME NEW d \in visit,
               \/ ProbeLuks(d) \/ LuksFails(d) \/ FlushPending(d) \/ ProbeRoles(d) \/ RolesFail(d)
               \/ ProbeFilesystem(d) \/ ProbeBtrfs(d) \/ BtrfsFails(d)
        PROVE  pass' \in {pass, After(pass), "bcache", "failed"}
    BY <2>3 DEF ProbeLuks, LuksFails, FlushPending, ProbeRoles, RolesFail, ProbeFilesystem, ProbeBtrfs,
                BtrfsFails, Continue, Enter, HandlePass, HandleDevice
  <2> QED BY <2>1, <2>2, <2>3 DEF PassStep
<1> QED BY <1>1, <1>2, <1>3 DEF Pos

\* The invariant holds when the program starts.
LEMMA InitProber == ProberInit => ProberInv
<1> SUFFICES ASSUME ProberInit PROVE ProberInv
  OBVIOUS
<1>1. pass = "idle" /\ faults = 0 /\ active = {} /\ at = "idle" /\ complaints = {} /\ reported = {}
  BY DEF ProberInit, Init
<1>2. Idle
  BY DEF ProberInit, Idle
<1>3. pass \in DOMAIN Pos
  BY <1>1 DEF Pos
<1>4. Standing /\ Opening /\ Unfailing
  BY <1>1 DEF Standing, Opening, Unfailing
<1> QED BY <1>1, <1>2, <1>3, <1>4 DEF ProberInv

\* It is kept by every step.
LEMMA StepProber ==
  ProberInv /\ [ActivateStep \/ (ProbeStep /\ UNCHANGED vars)]_<<vars, proberVars>> => ProberInv'
<1> SUFFICES ASSUME ProberInv, [ActivateStep \/ (ProbeStep /\ UNCHANGED vars)]_<<vars, proberVars>>
             PROVE  ProberInv'
  OBVIOUS
<1>1. CASE ActivateStep
  <2>1. pass = "idle" /\ UNCHANGED proberVars /\ (Next \/ Restart)
    BY <1>1 DEF ActivateStep
  <2>2. Standing' /\ Opening'
    BY <2>1, StandingKept DEF ProberInv
  <2>3. Idle' /\ Unfailing' /\ pass' = "idle" /\ faults' = faults
    BY <2>1 DEF ProberInv, proberVars, Idle, Unfailing, Over
  <2> QED BY <2>1, <2>2, <2>3 DEF ProberInv
<1>2. CASE UNCHANGED <<vars, proberVars>>
  <2>1. Standing' /\ Opening'
    BY <1>2, StandingKept DEF ProberInv
  <2>2. /\ UNCHANGED <<pass, reported, visit, known, holders, pending, named, sized, roles, complaints, faults>>
        /\ UNCHANGED active
    BY <1>2 DEF vars, proberVars
  <2>3. Idle' = Idle /\ Unfailing' = Unfailing /\ Local' = Local
    <3>1. Idle' = Idle
      BY <2>2 DEF Idle
    <3>2. Unfailing' = Unfailing
      BY <2>2 DEF Unfailing, Over
    <3>3. Local' = Local
      BY <2>2 DEF Local
    <3> QED BY <3>1, <3>2, <3>3
  <2>4. Reported' = Reported
    BY <2>2, Frozen
  <2>5. Found => Found'
    <3> SUFFICES ASSUME Found PROVE Found'
      OBVIOUS
    <3>1. RealHolders' = RealHolders /\ \A d : Calls(d)' = Calls(d)
      BY <2>2, Frozen
    <3>2. \A p, v : Over(p, v)' <=> Over(p, v)
      BY <2>2 DEF Over
    <3>3. \A x : Clean(x)' <=> Clean(x)
      BY <2>2 DEF Clean
    <3>4. \A x, d : Spurious(x, d)' <=> Spurious(x, d)
      BY <2>2 DEF Spurious
    <3>5. Visits' /\ KnownSimple'
      BY <2>2, <3>2 DEF Found, Visits, KnownSimple
    <3>6. KnownContent' /\ KnownPartitions' /\ KnownBtrfs'
      BY <2>2, <3>2, <3>3 DEF Found, KnownContent, KnownPartitions, KnownBtrfs
    <3>7. HeldVgs' /\ HeldCalls' /\ Pendings'
      BY <2>2, <3>1, <3>2, <3>3 DEF Found, HeldVgs, HeldCalls, Pendings
    <3>8. HoldersReal'
      BY <2>2, <3>1, <3>2, <3>4 DEF Found, HoldersReal
    <3> QED BY <2>2, <3>5, <3>6, <3>7, <3>8 DEF Found
  <2> QED BY <2>1, <2>2, <2>3, <2>4, <2>5 DEF ProberInv
<1>3. CASE ProbeStep /\ UNCHANGED vars
  <2>1. UNCHANGED active
    BY <1>3 DEF vars
  <2>2. Standing' /\ Opening'
    BY <1>3, StandingKept DEF ProberInv
  <2>3. CASE ProbeBegin
    <3>1. pass = "idle" /\ pass' = "disk" /\ faults' = faults /\ complaints' = complaints
      BY <2>3 DEF ProbeBegin
    <3>2. Idle /\ Standing
      BY <3>1 DEF ProberInv
    <3>3. Found' /\ reported' = Reported'
      BY <2>1, <2>3, <3>2, BeginFound
    <3>4. Unfailing'
      BY <3>1, <3>2 DEF Unfailing, Idle, Over, Pos
    <3>5. pass' \in DOMAIN Pos
      BY <3>1 DEF Pos
    <3> QED BY <2>2, <3>1, <3>3, <3>4, <3>5 DEF ProberInv
  <2>4. CASE Forget
    <3>1. pass' = "idle" /\ Idle' /\ faults' = 0 /\ complaints' = {} /\ reported' = {}
      BY <2>4 DEF Forget, Idle
    <3>2. Unfailing' /\ pass' \in DOMAIN Pos
      BY <3>1 DEF Unfailing, Pos
    <3> QED BY <2>2, <3>1, <3>2 DEF ProberInv
  <2>5. CASE PassStep /\ UNCHANGED <<reported, forward>>
    <3>1. pass \in DOMAIN Pos \ {"idle", "done"} /\ complaints \subseteq complaints' /\ faults' \in Nat /\ pass # "failed"
      BY <2>5, StepsOn, Order DEF ProberInv
    <3>2. Local' => Local
      BY <3>1 DEF Local
    <3>3. reported = Reported /\ Standing /\ Unfailing /\ (Local => Found) /\ faults \in Nat
      BY <3>1 DEF ProberInv
    <3>4. Local' => Found'
      BY <2>1, <2>5, <3>2, <3>3, FoundKept
    <3>5. Unfailing'
      BY <2>1, <2>5, <3>3, UnfailingKept
    <3>6. reported' = Reported'
      BY <2>1, <2>5, <3>3, Frozen
    <3>7. pass' \in DOMAIN Pos \cup {"failed"} /\ pass' # "idle"
      BY <2>5, <3>1, PassGoesOn
    <3> QED BY <2>2, <3>1, <3>4, <3>5, <3>6, <3>7 DEF ProberInv
  <2> QED BY <1>3, <2>3, <2>4, <2>5 DEF ProbeStep
<1> QED BY <1>1, <1>2, <1>3

-----------------------------------------------------------------------------
(* What is found in the end.                                               *)

\* In the end everything clean has been found, with what it is on.
LEMMA AllFound ==
  ASSUME Found, Standing, reported = Reported, pass = "done", NEW d \in Reported, Clean(d)
  PROVE  d \in known /\ \A x \in Named(d) : <<x, d>> \in holders
<1>1. \A p \in DOMAIN Pos \ {"done"} : \A v : Over(p, v)
  <2>1. \A p \in DOMAIN Pos : Pos[p] \in 0 .. 16 /\ (Pos[p] = 16 => p = "done")
    BY DEF Pos
  <2>2. Pos[pass] = 16
    BY DEF Pos
  <2> QED BY <2>1, <2>2 DEF Over
<1>2. /\ {"holders", "flush", "partitions", "luks", "filesystems", "btrfs", "pv", "lv"} \subseteq DOMAIN Pos \ {"done"}
      /\ \A k \in DOMAIN Kind : k \in DOMAIN Pos \ {"done"}
  BY DEF Pos, Kind
<1>3. d \in Everything /\ d \in reported /\ d \notin complaints
  BY ReportedThere, CleanBeneath
<1>4. \A y \in Simple \cap reported : y \notin complaints => y \in known
  BY <1>1, <1>2, FoundBefore
<1>5. \A x \in Named(d) : x \in Beneath[d] /\ x \in reported /\ x \notin complaints
  <2>1. \A x \in Named(d) : x \in Beneath[d] /\ x \in Reported
    BY NamedReported
  <2> QED BY <1>3, <2>1, CleanBeneath
<1>6. ASSUME NEW u \in known \cap Holding, NEW c \in Calls(u), c.edge[2] = d PROVE c.edge \in holders
  <2>1. Over("holders", u) /\ Over("flush", c)
    BY <1>1, <1>2
  <2> QED BY <1>6, <2>1 DEF Found, HeldCalls
<1>7. CASE d \in Disk
  BY <1>3, <1>4, <1>5, <1>7, StackAssumption DEF Simple
<1>8. CASE d \in Multipath \cup Md \cup Pv
  <2>1. d \in known \cap Holding /\ d \notin Bcache \cup Cset
    BY <1>3, <1>4, <1>8, Apart DEF Simple, Holding
  <2>2. Calls(d) = Users(d, Named(d))
    BY <2>1 DEF Calls
  <2>3. ASSUME NEW x \in Named(d) PROVE <<x, d>> \in holders
    <3> DEFINE c == [name |-> x, edge |-> <<x, d>>]
    <3>1. c \in Calls(d) /\ c.edge = <<x, d>> /\ c.edge[2] = d
      BY <2>2 DEF Users
    <3> QED BY <1>6, <2>1, <3>1
  <2> QED BY <2>1, <2>3
<1>9. CASE d \in Bcache
  <2>1. d \in known \cap Holding /\ d \notin Cset
    BY <1>3, <1>4, <1>9, Apart DEF Simple, Holding
  <2>2. ASSUME NEW x \in Named(d), x \notin Cset PROVE <<x, d>> \in holders
    <3> DEFINE c == [name |-> x, edge |-> <<x, d>>]
    <3>1. c \in Calls(d) /\ c.edge = <<x, d>> /\ c.edge[2] = d
      BY <1>9, <2>1, <2>2 DEF Calls, BcacheCalls, Users
    <3> QED BY <1>6, <2>1, <3>1
  <2>3. ASSUME NEW x \in Named(d), x \in Cset PROVE <<x, d>> \in holders
    <3> DEFINE c == [name |-> d, edge |-> <<x, d>>]
    <3>1. x \in known \cap Holding /\ x \notin Bcache /\ x \in Beneath[d]
      BY <1>4, <1>5, <2>3, Apart DEF Simple, Holding
    <3>2. c \in Calls(x) /\ c.edge = <<x, d>> /\ c.edge[2] = d
      BY <1>3, <1>9, <2>3, <3>1 DEF Calls, CsetCalls
    <3> QED BY <1>6, <3>1, <3>2
  <2> QED BY <2>1, <2>2, <2>3
<1>10. CASE d \in Cset
  <2>1. d \in known \cap Holding /\ d \notin Bcache
    BY <1>3, <1>4, <1>10, Apart DEF Simple, Holding
  <2>2. ASSUME NEW x \in Named(d) PROVE <<x, d>> \in holders
    <3> DEFINE c == [name |-> x, edge |-> <<x, d>>]
    <3>1. c \in Calls(d) /\ c.edge = <<x, d>> /\ c.edge[2] = d
      BY <1>10, <2>1 DEF Calls, CsetCalls, Users
    <3> QED BY <1>6, <2>1, <3>1
  <2> QED BY <2>1, <2>2
<1>11. CASE d \in Vg \cup Lv
  <2>1. d \in known
    BY <1>3, <1>4, <1>11 DEF Simple
  <2>2. \A x \in Beneath[d] : <<x, d>> \in holders
    BY <1>1, <1>2, <1>3, <1>11 DEF Found, HeldVgs
  <2> QED BY <1>5, <2>1, <2>2
<1>12. CASE d \in Content
  <2>1. PassOf(d) \in DOMAIN Pos \ {"done"}
    BY <1>2, <1>12, PassOfContent
  <2>2. \A x \in Beneath[d] : d \in known /\ <<x, d>> \in holders
    BY <1>1, <1>3, <1>12, <2>1 DEF Found, KnownContent
  <2>3. Beneath[d] # {}
    BY <1>12, ContentOn
  <2> QED BY <1>5, <2>2, <2>3
<1>13. CASE d \in Partition
  <2>1. \A t \in Beneath[d] : \A x \in Beneath[t] : d \in known /\ <<t, d>> \in holders
    BY <1>1, <1>2, <1>3, <1>13 DEF Found, KnownPartitions
  <2>2. PICK t \in Table : Beneath[d] = {t}
    BY <1>13, ContentOn
  <2>3. Beneath[t] # {}
    BY ContentOn
  <2> QED BY <1>5, <2>1, <2>2, <2>3
<1>14. CASE d \in Btrfs
  BY <1>1, <1>2, <1>3, <1>5, <1>14 DEF Found, KnownBtrfs
<1> QED
  BY <1>3, <1>7, <1>8, <1>9, <1>10, <1>11, <1>12, <1>13, <1>14, Everythings DEF Simple

\* What the invariant says of a probe without faults.
LEMMA FoundAll == ProberInv => ProbedAsReal
<1> SUFFICES ASSUME ProberInv, pass = "done", faults = 0
             PROVE  known = Reported /\ holders = RealHolders /\ roles = Md \cap Reported /\ complaints = {}
  BY DEF ProbedAsReal
<1>1. complaints = {} /\ \A m \in Md \cap reported : Over("roles", m) => m \in roles
  BY DEF ProberInv, Unfailing
<1>2. reported = Reported /\ Standing /\ Found
  BY <1>1 DEF ProberInv, Local
<1>3. \A d \in Reported : Clean(d)
  BY <1>1 DEF Clean
<1>4. known = Reported
  BY <1>2, <1>3, AllFound DEF Found, KnownSimple
<1>5. \A e \in holders : e \in RealHolders
  BY <1>1, <1>2 DEF Found, HoldersReal, Spurious
<1>6. ASSUME NEW e \in RealHolders PROVE e \in holders
  <2>1. e[2] \in Reported /\ e[1] \in Named(e[2]) /\ e = <<e[1], e[2]>>
    BY DEF RealHolders
  <2> QED BY <1>2, <1>3, <2>1, AllFound
<1>7. roles = Md \cap Reported
  <2>1. \A m : Over("roles", m)
    BY DEF Over, Pos
  <2> QED BY <1>1, <1>2, <2>1 DEF Found
<1> QED BY <1>1, <1>4, <1>5, <1>6, <1>7

\* What it says of one with errors about single devices.
LEMMA FoundOthers == ProberInv => ErrorsStayLocal
<1> SUFFICES ASSUME ProberInv, pass = "done", complaints \subseteq Everything
             PROVE  /\ known \subseteq Reported
                    /\ \A d \in Lost : Cone[d] \cap complaints # {}
                    /\ \A e \in holders \ RealHolders :
                          \E m \in Mirrors : m[1] = e[1] /\ m[2] \in complaints \ known
  BY DEF ErrorsStayLocal
<1>1. reported = Reported /\ Standing /\ Found
  BY DEF ProberInv, Local
<1>2. known \subseteq Reported
  BY <1>1 DEF Found, KnownSimple
<1>3. ASSUME NEW d \in Lost PROVE Cone[d] \cap complaints # {}
  <2>1. CASE d \in Reported \ known
    BY <1>1, <2>1, AllFound DEF Clean
  <2>2. CASE d \in {e[2] : e \in RealHolders \ holders}
    <3>1. PICK e \in RealHolders \ holders : d = e[2]
      BY <2>2
    <3>2. d \in Reported /\ e[1] \in Named(d) /\ e = <<e[1], d>>
      BY <3>1 DEF RealHolders
    <3> QED BY <1>1, <3>1, <3>2, AllFound DEF Clean
  <2> QED BY <2>1, <2>2 DEF Lost
<1>4. \A e \in holders \ RealHolders : \E m \in Mirrors : m[1] = e[1] /\ m[2] \in complaints \ known
  BY <1>1 DEF Found, HoldersReal, Spurious
<1> QED BY <1>2, <1>3, <1>4

\* The invariant of the passes, whatever is stacked on what, whatever is active, and
\* whichever commands fail.
THEOREM ProberInvariance == ProberSpec => []ProberInv
<1>1. ProberInit => ProberInv
  BY InitProber
<1>2. ProberInv /\ [ActivateStep \/ (ProbeStep /\ UNCHANGED vars)]_<<vars, proberVars>> => ProberInv'
  BY StepProber
<1> QED BY <1>1, <1>2, PTL DEF ProberSpec

\* "No static probe order is possible. E.g. LUKS can be on LVM or vica versa"
\* (Prober.cc): without faults the passes find all that is reported and all its
\* relations, complain about nothing, and take the content of a RAID or a multipath
\* for that of none of its members.
THEOREM ProbedRight == ProberSpec => []ProbedAsReal
<1>1. ProberInv => ProbedAsReal
  BY FoundAll
<1> QED BY <1>1, ProberInvariance, PTL

\* Prober::handle in the loops: an error about one device that the callback ignores
\* costs only what is on it, in all passes after it.
THEOREM LocalErrors == ProberSpec => []ErrorsStayLocal
<1>1. ProberInv => ErrorsStayLocal
  BY FoundOthers
<1> QED BY <1>1, ProberInvariance, PTL

=============================================================================
