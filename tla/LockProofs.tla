----------------------------- MODULE LockProofs -----------------------------
(***************************************************************************)
(* Theorems about Lock.tla for any processes and any lock objects.         *)
(***************************************************************************)
EXTENDS Lock, TLAPS

\* Between processes the kernel keeps a read-write file lock alone.
KernelExclusive ==
  \A p, q \in Proc : p # q /\ fileLock[p] = "rw" => fileLock[q] = "none"

\* Within a process the list keeps a read-write object alone.
ListExclusive ==
  \A p \in Proc : \A o, r \in Holding(p) : mode[p][o] = "rw" => o = r

\* What the place in the code says about the list and the file lock.
AtOK ==
  \A p \in Proc :
     /\ at[p] # "idle" => locks[p] = {}
     /\ at[p] \in {"opened", "refused"} => fd[p] = "open" /\ fileLock[p] = "none"
     /\ at[p] = "closing" => pid[p] = NoPid

\* The objects with a mode are exactly the ones that hold the lock.
ModeOK == \A p \in Proc, o \in Obj : mode[p][o] \in Mode <=> o \in Holding(p)

IInv == /\ TypeOK
        /\ KernelExclusive
        /\ ListExclusive
        /\ AtOK
        /\ ModeOK
        /\ Backed
        /\ NothingLeaked

\* The invariants the run checks follow from the inductive one.
LEMMA IInvExclusion == IInv => Exclusion
<1> SUFFICES ASSUME IInv, NEW p \in Proc, NEW q \in Proc,
                    NEW o \in Holding(p), NEW r \in Holding(q), mode[p][o] = "rw"
             PROVE  p = q /\ o = r
  BY DEF Exclusion
<1>1. CASE p = q
  BY <1>1 DEF IInv, ListExclusive
<1>2. CASE p # q
  <2>1. fileLock[p] = "rw" /\ fileLock[q] = mode[q][r]
    BY DEF IInv, Backed
  <2>2. mode[q][r] \in Mode
    BY DEF IInv, TypeOK, ModeOK, Holding
  <2> QED BY <1>2, <2>1, <2>2 DEF IInv, KernelExclusive, Mode
<1> QED BY <1>1, <1>2

\* No process holds anything at the start.
LEMMA InitIInv == Init => IInv
BY DEF Init, IInv, TypeOK, KernelExclusive, ListExclusive, AtOK, ModeOK, Backed,
       NothingLeaked, Holding, Mode, NoPid

\* Every step of a constructor, a destructor or an ending process keeps it.
LEMMA StepIInv == IInv /\ [Next]_vars => IInv'
<1> USE DEF IInv, TypeOK, KernelExclusive, ListExclusive, AtOK, ModeOK, Backed,
            NothingLeaked, Holding, Mode
<1> SUFFICES ASSUME IInv, [Next]_vars PROVE IInv'
  OBVIOUS
<1>1. ASSUME NEW p \in Proc, NEW o \in Obj, CtorDisabled(p, o) PROVE IInv'
  BY <1>1 DEF CtorDisabled, NoPid
<1>2. ASSUME NEW p \in Proc, NEW o \in Obj, CtorOpenFails(p, o) PROVE IInv'
  BY <1>2 DEF CtorOpenFails, Throw, UndeterminedPid
<1>3. ASSUME NEW p \in Proc, NEW o \in Obj, NEW m \in Mode, CtorOpen(p, o, m)
      PROVE  IInv'
  BY <1>3 DEF CtorOpen, NoPid
<1>4. ASSUME NEW p \in Proc, NEW o \in Obj, NEW m \in Mode, CtorFurther(p, o, m)
      PROVE  IInv'
  BY <1>4 DEF CtorFurther, Succeed, Admits, NoPid
<1>5. ASSUME NEW p \in Proc, NEW o \in Obj, NEW m \in Mode, CtorFurtherRefused(p, o, m)
      PROVE  IInv'
  BY <1>5 DEF CtorFurtherRefused, Throw, SamePid
<1>6. ASSUME NEW p \in Proc, NEW o \in Obj, DtorDisabled(p, o) PROVE IInv'
  BY <1>6 DEF DtorDisabled
<1>7. ASSUME NEW p \in Proc, NEW o \in Obj, DtorErase(p, o) PROVE IInv'
  <2>1. /\ at[p] = "idle" /\ o \in locks[p] /\ Holding(p) = locks[p]
        /\ locks' = [locks EXCEPT ![p] = @ \ {o}]
        /\ pid' = [pid EXCEPT ![p] = NoPid]
        /\ UNCHANGED <<fd, fileLock>>
    BY <1>7 DEF DtorErase
  <2>2. CASE locks[p] = {o}
    <3>1. /\ at' = [at EXCEPT ![p] = "closing"]
          /\ arg' = [arg EXCEPT ![p] = <<o, mode[p][o]>>]
          /\ UNCHANGED mode
      BY <1>7, <2>2 DEF DtorErase
    <3>2. mode[p][o] \in Mode
      BY <2>1
    <3>3. TypeOK'
      BY <2>1, <3>1, <3>2
    <3>4. \A q \in Proc : Holding(q)' = Holding(q)
      BY <2>1, <2>2, <3>1
    <3> QED BY <2>1, <2>2, <3>1, <3>3, <3>4
  <2>3. CASE locks[p] # {o}
    <3>1. mode' = [mode EXCEPT ![p][o] = "absent"] /\ UNCHANGED <<at, arg>>
      BY <1>7, <2>3 DEF DtorErase
    <3>2. TypeOK'
      BY <2>1, <3>1
    <3>3. \A q \in Proc :
            Holding(q)' = IF q = p THEN Holding(q) \ {o} ELSE Holding(q)
      BY <2>1, <3>1
    <3>4. locks'[p] # {}
      BY <2>1, <2>3
    <3> QED BY <2>1, <3>1, <3>2, <3>3, <3>4
  <2> QED BY <2>2, <2>3
<1>8. ASSUME NEW p \in Proc, SetLkGranted(p) PROVE IInv'
  <2> DEFINE o == arg[p][1]
             m == arg[p][2]
  <2>1. o \in Obj /\ m \in Mode /\ arg[p] = <<o, m>>
    OBVIOUS
  <2> HIDE DEF o, m
  <2>2. /\ at[p] = "opened" /\ locks[p] = {} /\ fd[p] = "open"
        /\ \A q \in Proc : q # p => fileLock[q] # "rw" /\ (m = "rw" => fileLock[q] = "none")
    BY <1>8, <2>1 DEF SetLkGranted, Blockers, m
  <2>3. /\ fileLock' = [fileLock EXCEPT ![p] = m]
        /\ locks' = [locks EXCEPT ![p] = @ \cup {o}]
        /\ mode' = [mode EXCEPT ![p][o] = m]
        /\ pid' = [pid EXCEPT ![p] = NoPid]
        /\ at' = [at EXCEPT ![p] = "idle"]
        /\ UNCHANGED <<fd, arg>>
    BY <1>8 DEF SetLkGranted, Succeed, o, m
  <2>4. TypeOK'
    BY <2>1, <2>3 DEF NoPid
  <2>5. Holding(p)' = {o} /\ \A q \in Proc : q # p => Holding(q)' = Holding(q)
    BY <2>1, <2>2, <2>3
  <2>6. \A q \in Proc, r \in Obj :
          mode'[q][r] = IF q = p /\ r = o THEN m ELSE mode[q][r]
    BY <2>1, <2>3
  <2>7. \A q \in Proc : fileLock'[q] = IF q = p THEN m ELSE fileLock[q]
    BY <2>1, <2>3
  <2>8. Holding(p) = {}
    BY <2>2
  <2> QED BY <2>1, <2>2, <2>3, <2>4, <2>5, <2>6, <2>7, <2>8
<1>9. ASSUME NEW p \in Proc, SetLkConflict(p) PROVE IInv'
  BY <1>9 DEF SetLkConflict
<1>10. ASSUME NEW p \in Proc, SetLkError(p) PROVE IInv'
  BY <1>10 DEF SetLkError, Close, Throw, UndeterminedPid
<1>11. ASSUME NEW p \in Proc, GetLk(p) PROVE IInv'
  <2>1. \E w \in Proc \cup {UndeterminedPid} : Throw(p, w)
    BY <1>11 DEF GetLk, Blockers
  <2>2. at[p] = "refused"
        /\ fd' = [fd EXCEPT ![p] = "stale"]
        /\ at' = [at EXCEPT ![p] = "idle"]
        /\ UNCHANGED arg
        /\ Close(p)
    BY <1>11 DEF GetLk
  <2> QED BY <2>1, <2>2 DEF Close, Throw, UndeterminedPid
<1>12. ASSUME NEW p \in Proc, DtorClose(p) PROVE IInv'
  BY <1>12 DEF DtorClose
<1>13. ASSUME NEW p \in Proc, Exit(p) PROVE IInv'
  BY <1>13 DEF Exit, Close, NoPid
<1>14. CASE UNCHANGED vars
  BY <1>14 DEF vars
<1> QED
  BY <1>1, <1>2, <1>3, <1>4, <1>5, <1>6, <1>7, <1>8, <1>9, <1>10, <1>11, <1>12,
     <1>13, <1>14
  DEF Next, Continue

\* The invariant holds in every reachable state.
THEOREM Invariance == Spec => []IInv
BY InitIInv, StepIInv, PTL DEF Spec

\* LockImpl.h: every variable keeps its type, whatever is interleaved.
THEOREM TypeCorrect == Spec => []TypeOK
<1>1. IInv => TypeOK
  BY DEF IInv
<1> QED BY Invariance, <1>1, PTL

\* Lock::Lock and Lock::~Lock together exclude: a read-write lock object is the
\* only one in all processes, for any number of processes and objects.
THEOREM MutualExclusion == Spec => []Exclusion
BY Invariance, IInvExclusion, PTL

\* Objects never rely on a file lock that was closed or has another mode.
THEOREM AlwaysBacked == Spec => []Backed
<1>1. IInv => Backed
  BY DEF IInv
<1> QED BY Invariance, <1>1, PTL

\* A constructor that throws and a last destructor leave nothing behind.
THEOREM NeverLeaked == Spec => []NothingLeaked
<1>1. IInv => NothingLeaked
  BY DEF IInv
<1> QED BY Invariance, <1>1, PTL

-----------------------------------------------------------------------------
(* Refinement of LockSpec.                                                 *)

\* Nothing is held and nobody was refused at the start.
LEMMA InitPromise == Init => Promise!Init
<1> SUFFICES ASSUME Init PROVE Promise!Init
  OBVIOUS
<1>1. \A p \in Proc : Holding(p) = {}
  BY DEF Init, Holding
<1>2. Held = [p \in Proc |-> [o \in Obj |-> "no"]]
  BY <1>1 DEF Held
<1>3. Denied = [p \in Proc |-> "no"]
  BY DEF Init, Denied, Refused, NoPid, SamePid
<1> QED BY <1>2, <1>3 DEF Promise!Init

\* Behind every file lock there is an object that holds the lock in its mode.
LEMMA BlockerHolds ==
  ASSUME IInv, NEW q \in Proc, fileLock[q] # "none"
  PROVE  \E r \in Obj : r \in Holding(q) /\ Held[q][r] = fileLock[q]
<1>1. locks[q] # {} \/ at[q] = "closing"
  BY DEF IInv, TypeOK, NothingLeaked, AtOK
<1>2. Holding(q) # {} /\ Holding(q) \subseteq Obj
  BY <1>1 DEF IInv, TypeOK, Holding
<1> QED BY <1>2 DEF IInv, Backed, Held

\* What holds the lock has a mode, and what is held is what holds it.
LEMMA HeldMode ==
  ASSUME IInv, NEW q \in Proc, NEW r \in Obj
  PROVE  /\ Held[q][r] # "no" <=> r \in Holding(q)
         /\ r \in Holding(q) => Held[q][r] = mode[q][r] /\ mode[q][r] \in Mode
BY DEF IInv, TypeOK, ModeOK, Held, Mode

\* A file lock in the way of a request is a conflict in the abstract lock.
LEMMA BlockerConflicts ==
  ASSUME IInv, NEW p \in Proc, NEW m \in Mode, Blockers(p, m) # {}
  PROVE  Promise!Conflict(m)
<1>1. PICK q \in Proc : fileLock[q] = "rw" \/ (fileLock[q] = "ro" /\ m = "rw")
  BY DEF Blockers
<1>2. PICK r \in Obj : Held[q][r] = fileLock[q]
  BY <1>1, BlockerHolds
<1>3. <<q, r>> \in Promise!Holders
  BY <1>1, <1>2 DEF Promise!Holders
<1> QED BY <1>1, <1>2, <1>3 DEF Promise!Conflict, Promise!Compatible

\* The list of a process that holds the lock is a conflict, too.
LEMMA ListConflicts ==
  ASSUME IInv, NEW p \in Proc, NEW m \in Mode, locks[p] # {}, ~ Admits(p, m)
  PROVE  Promise!Conflict(m)
<1>1. PICK r \in locks[p] : m = "rw" \/ mode[p][r] = "rw"
  BY DEF Admits, IInv, TypeOK, ModeOK, Holding, Mode
<1>2. r \in Obj /\ Held[p][r] = mode[p][r] /\ mode[p][r] \in Mode
  BY <1>1, HeldMode DEF IInv, TypeOK, Holding
<1>3. <<p, r>> \in Promise!Holders
  BY <1>2 DEF Promise!Holders, Mode
<1> QED BY <1>1, <1>2, <1>3 DEF Promise!Conflict, Promise!Compatible

\* Where nothing blocks a request, nothing conflicts with it.
LEMMA Unblocked ==
  ASSUME IInv, NEW p \in Proc, NEW m \in Mode, Holding(p) = {}, Blockers(p, m) = {}
  PROVE  ~ Promise!Conflict(m)
<1> SUFFICES ASSUME NEW h \in Promise!Holders,
                    ~ Promise!Compatible(m, Held[h[1]][h[2]])
             PROVE  FALSE
  BY DEF Promise!Conflict
<1> DEFINE q == h[1]
           r == h[2]
<1>1. q \in Proc /\ r \in Obj /\ Held[q][r] # "no" /\ ~ (m = "ro" /\ Held[q][r] = "ro")
  BY DEF Promise!Holders, Promise!Compatible
<1> HIDE DEF q, r
<1>2. r \in Holding(q) /\ Held[q][r] = mode[q][r] /\ mode[q][r] \in Mode
  BY <1>1, HeldMode
<1>3. q # p /\ fileLock[q] = mode[q][r]
  BY <1>1, <1>2 DEF IInv, Backed
<1> QED BY <1>1, <1>2, <1>3 DEF Blockers, Mode

\* A list that admits a request has no conflict with it, nor has another process.
LEMMA Admitted ==
  ASSUME IInv, NEW p \in Proc, NEW m \in Mode, at[p] = "idle", locks[p] # {},
         Admits(p, m)
  PROVE  ~ Promise!Conflict(m)
<1> SUFFICES ASSUME NEW h \in Promise!Holders,
                    ~ Promise!Compatible(m, Held[h[1]][h[2]])
             PROVE  FALSE
  BY DEF Promise!Conflict
<1> DEFINE q == h[1]
           r == h[2]
<1>1. q \in Proc /\ r \in Obj /\ Held[q][r] # "no" /\ ~ (m = "ro" /\ Held[q][r] = "ro")
  BY DEF Promise!Holders, Promise!Compatible
<1> HIDE DEF q, r
<1>2. r \in Holding(q) /\ Held[q][r] = mode[q][r] /\ mode[q][r] \in Mode
  BY <1>1, HeldMode
<1>3. m = "ro" /\ mode[q][r] = "rw"
  BY <1>1, <1>2 DEF Admits, Mode
<1>4. fileLock[q] = "rw"
  BY <1>1, <1>2, <1>3 DEF IInv, Backed
<1>5. PICK o \in locks[p] : mode[p][o] = "ro" /\ o \in Holding(p)
  BY DEF Admits, Holding
<1>6. fileLock[p] = "ro"
  BY <1>5 DEF IInv, Backed
<1> QED BY <1>1, <1>4, <1>6 DEF IInv, KernelExclusive

\* To change what one object holds is to change a table of tables at one place.
LEMMA ExceptAt ==
  ASSUME NEW f, NEW g, NEW p \in Proc, NEW o \in Obj, NEW v,
         f = [q \in Proc |-> [r \in Obj |-> f[q][r]]],
         g = [q \in Proc |-> [r \in Obj |-> g[q][r]]],
         \A q \in Proc, r \in Obj :
            g[q][r] = IF q = p /\ r = o THEN v ELSE f[q][r]
  PROVE  g = [f EXCEPT ![p][o] = v]
<1>1. \A q \in Proc : /\ f[q] = [r \in Obj |-> f[q][r]]
                      /\ g[q] = [r \in Obj |-> g[q][r]]
  OBVIOUS
<1>2. \A q \in Proc : g[q] = IF q = p THEN [f[p] EXCEPT ![o] = v] ELSE f[q]
  BY <1>1
<1>3. DOMAIN f = Proc /\ DOMAIN g = Proc
  OBVIOUS
<1>4. g = [q \in Proc |-> IF q = p THEN [f[p] EXCEPT ![o] = v] ELSE f[q]]
  BY <1>2, <1>3
<1> QED BY <1>3, <1>4

\* The same for Held.
LEMMA HeldAt ==
  ASSUME NEW p \in Proc, NEW o \in Obj, NEW v,
         \A q \in Proc, r \in Obj :
            Held'[q][r] = IF q = p /\ r = o THEN v ELSE Held[q][r]
  PROVE  Held' = [Held EXCEPT ![p][o] = v]
<1>1. Held = [q \in Proc |-> [r \in Obj |-> Held[q][r]]]
  BY DEF Held
<1>2. Held' = [q \in Proc |-> [r \in Obj |-> Held'[q][r]]]
  BY DEF Held
<1> HIDE DEF Held
<1> QED BY <1>1, <1>2, ExceptAt

\* Every step of the code is a step of the readers-writer lock, or invisible.
LEMMA StepPromise ==
  ASSUME IInv, IInv', [Next]_vars
  PROVE  [Promise!Next]_(Promise!specVars)
<1> USE DEF Promise!specVars, Denied, Refused, Holding
<1> DEFINE Quiet(p) == UNCHANGED <<Held, Denied>> \/ Promise!Return(p)
<1>0. ASSUME NEW p \in Proc, UNCHANGED Held,
             Denied' = [Denied EXCEPT ![p] = "no"] \/ UNCHANGED Denied
      PROVE  Quiet(p)
  BY <1>0 DEF Promise!Return
<1>1. ASSUME NEW p \in Proc, NEW o \in Obj, CtorDisabled(p, o) PROVE Quiet(p)
  <2>1. UNCHANGED Held
    BY <1>1 DEF Held, CtorDisabled, IInv, TypeOK, ModeOK, Mode
  <2>2. Denied' = [Denied EXCEPT ![p] = "no"]
    BY <1>1 DEF CtorDisabled, NoPid, SamePid, IInv, TypeOK
  <2> QED BY <1>0, <2>1, <2>2
<1>2. ASSUME NEW p \in Proc, NEW o \in Obj, CtorOpenFails(p, o) PROVE Quiet(p)
  <2>1. UNCHANGED Held
    BY <1>2 DEF Held, CtorOpenFails, Throw
  <2>2. Denied' = [Denied EXCEPT ![p] = "no"]
    BY <1>2 DEF CtorOpenFails, Throw, UndeterminedPid, SamePid, IInv, TypeOK
  <2> QED BY <1>0, <2>1, <2>2
<1>3. ASSUME NEW p \in Proc, NEW o \in Obj, NEW m \in Mode, CtorOpen(p, o, m)
      PROVE  Quiet(p)
  <2>1. UNCHANGED Held
    BY <1>3 DEF Held, CtorOpen, IInv, TypeOK
  <2>2. Denied' = [Denied EXCEPT ![p] = "no"]
    BY <1>3 DEF CtorOpen, NoPid, SamePid, IInv, TypeOK
  <2> QED BY <1>0, <2>1, <2>2
<1>4. ASSUME NEW p \in Proc, NEW o \in Obj, NEW m \in Mode, CtorFurther(p, o, m)
      PROVE  Promise!Acquire(p, o, m)
  <2>1. Held[p][o] = "no" /\ ~ Promise!Conflict(m)
    BY <1>4, Admitted, HeldMode DEF CtorFurther, IInv, ModeOK, Mode
  <2>2. Held' = [Held EXCEPT ![p][o] = m]
    <3>1. \A q \in Proc, r \in Obj :
            Held'[q][r] = IF q = p /\ r = o THEN m ELSE Held[q][r]
      BY <1>4 DEF Held, CtorFurther, Succeed, IInv, TypeOK
    <3> QED BY <3>1, HeldAt
  <2>3. Denied' = [Denied EXCEPT ![p] = "no"]
    BY <1>4 DEF CtorFurther, Succeed, NoPid, SamePid, IInv, TypeOK
  <2> QED BY <2>1, <2>2, <2>3 DEF Promise!Acquire
<1>5. ASSUME NEW p \in Proc, NEW o \in Obj, NEW m \in Mode, CtorFurtherRefused(p, o, m)
      PROVE  Promise!Refuse(p, m)
  <2>1. Promise!Conflict(m)
    BY <1>5, ListConflicts DEF CtorFurtherRefused
  <2>2. UNCHANGED Held
    BY <1>5 DEF Held, CtorFurtherRefused, Throw
  <2>3. Denied' = [Denied EXCEPT ![p] = m]
    BY <1>5 DEF CtorFurtherRefused, Throw, IInv, TypeOK
  <2> QED BY <2>1, <2>2, <2>3 DEF Promise!Refuse
<1>6. ASSUME NEW p \in Proc, NEW o \in Obj, DtorDisabled(p, o) PROVE Quiet(p)
  <2>1. UNCHANGED Held
    BY <1>6 DEF Held, DtorDisabled, IInv, TypeOK, ModeOK, Mode
  <2>2. Denied' = [Denied EXCEPT ![p] = "no"]
    BY <1>6 DEF DtorDisabled, NoPid, SamePid, IInv, TypeOK
  <2> QED BY <1>0, <2>1, <2>2
<1>7. ASSUME NEW p \in Proc, NEW o \in Obj, DtorErase(p, o)
      PROVE  Quiet(p) \/ Promise!Release(p, o)
  <2>1. Denied' = [Denied EXCEPT ![p] = "no"]
    <3>1. /\ pid' = [pid EXCEPT ![p] = NoPid]
          /\ at[p] = "idle" /\ at'[p] # "refused"
          /\ \A q \in Proc \ {p} : at'[q] = at[q] /\ arg'[q] = arg[q]
      BY <1>7 DEF DtorErase, IInv, TypeOK
    <3> QED BY <3>1 DEF NoPid, SamePid, IInv, TypeOK
  <2>2. CASE locks[p] = {o}
    <3>1. UNCHANGED Held
      BY <1>7, <2>2 DEF Held, DtorErase, IInv, TypeOK
    <3> QED BY <1>0, <2>1, <3>1
  <2>3. CASE locks[p] # {o}
    <3>1. Held[p][o] # "no"
      BY <1>7, HeldMode DEF DtorErase
    <3>2. Held' = [Held EXCEPT ![p][o] = "no"]
      <4>1. \A q \in Proc, r \in Obj :
              Held'[q][r] = IF q = p /\ r = o THEN "no" ELSE Held[q][r]
        BY <1>7, <2>3 DEF Held, DtorErase, IInv, TypeOK
      <4> QED BY <4>1, HeldAt
    <3> QED BY <2>1, <3>1, <3>2 DEF Promise!Release
  <2> QED BY <2>2, <2>3
<1>8. ASSUME NEW p \in Proc, SetLkGranted(p)
      PROVE  Promise!Acquire(p, arg[p][1], arg[p][2])
  <2>1. arg[p][1] \in Obj /\ arg[p][2] \in Mode /\ Holding(p) = {}
    BY <1>8 DEF SetLkGranted, IInv, TypeOK, AtOK
  <2>2. ~ Promise!Conflict(arg[p][2])
    BY <1>8, <2>1, Unblocked DEF SetLkGranted
  <2>3. Held[p][arg[p][1]] = "no"
    BY <2>1 DEF Held
  <2>4. Held' = [Held EXCEPT ![p][arg[p][1]] = arg[p][2]]
    <3> DEFINE o == arg[p][1]
               m == arg[p][2]
    <3>1. \A q \in Proc, r \in Obj :
            Held'[q][r] = IF q = p /\ r = o THEN m ELSE Held[q][r]
      BY <1>8, <2>1 DEF Held, SetLkGranted, Succeed, IInv, TypeOK
    <3>2. o \in Obj
      BY <2>1
    <3> HIDE DEF o, m
    <3>3. Held' = [Held EXCEPT ![p][o] = m]
      BY <3>1, <3>2, HeldAt
    <3> QED BY <3>3 DEF o, m
  <2>5. Denied' = [Denied EXCEPT ![p] = "no"]
    BY <1>8 DEF SetLkGranted, Succeed, NoPid, SamePid, IInv, TypeOK
  <2> QED BY <2>2, <2>3, <2>4, <2>5 DEF Promise!Acquire
<1>9. ASSUME NEW p \in Proc, SetLkConflict(p) PROVE Promise!Refuse(p, arg[p][2])
  <2>1. arg[p][2] \in Mode
    BY DEF IInv, TypeOK
  <2>2. Promise!Conflict(arg[p][2])
    BY <1>9, <2>1, BlockerConflicts DEF SetLkConflict
  <2>3. UNCHANGED Held
    BY <1>9 DEF Held, SetLkConflict, IInv, TypeOK
  <2>4. Denied' = [Denied EXCEPT ![p] = arg[p][2]]
    BY <1>9 DEF SetLkConflict, IInv, TypeOK
  <2> QED BY <2>2, <2>3, <2>4 DEF Promise!Refuse
<1>10. ASSUME NEW p \in Proc, SetLkError(p) PROVE Quiet(p)
  <2>1. UNCHANGED Held
    BY <1>10 DEF Held, SetLkError, Throw, IInv, TypeOK
  <2>2. Denied' = [Denied EXCEPT ![p] = "no"]
    BY <1>10 DEF SetLkError, Throw, UndeterminedPid, SamePid, IInv, TypeOK
  <2> QED BY <1>0, <2>1, <2>2
<1>11. ASSUME NEW p \in Proc, GetLk(p) PROVE Quiet(p)
  <2>1. UNCHANGED Held /\ at' = [at EXCEPT ![p] = "idle"]
    BY <1>11 DEF Held, GetLk, Throw, IInv, TypeOK
  <2>2. PICK w : pid' = [pid EXCEPT ![p] = w]
    BY <1>11 DEF GetLk, Throw
  <2>3. at[p] = "refused" /\ UNCHANGED arg
    BY <1>11 DEF GetLk
  <2>4. Denied' = [Denied EXCEPT ![p] = "no"] \/ UNCHANGED Denied
    <3>1. \A q \in Proc : q # p => UNCHANGED Denied[q]
      BY <2>1, <2>2, <2>3 DEF IInv, TypeOK
    <3>2. Denied[p]' = Denied[p] \/ Denied[p]' = "no"
      BY <1>11, <2>1, <2>3 DEF GetLk
    <3> QED BY <3>1, <3>2
  <2> QED BY <1>0, <2>1, <2>4
<1>12. ASSUME NEW p \in Proc, DtorClose(p) PROVE Promise!Release(p, arg[p][1])
  <2>1. Held[p][arg[p][1]] # "no"
    BY <1>12, HeldMode DEF DtorClose, IInv, TypeOK
  <2>2. Held' = [Held EXCEPT ![p][arg[p][1]] = "no"]
    <3> DEFINE o == arg[p][1]
    <3>1. \A q \in Proc, r \in Obj :
            Held'[q][r] = IF q = p /\ r = o THEN "no" ELSE Held[q][r]
      BY <1>12 DEF Held, DtorClose, IInv, TypeOK, AtOK
    <3>2. o \in Obj
      BY DEF IInv, TypeOK
    <3> HIDE DEF o
    <3>3. Held' = [Held EXCEPT ![p][o] = "no"]
      BY <3>1, <3>2, HeldAt
    <3> QED BY <3>3 DEF o
  <2>3. Denied' = [Denied EXCEPT ![p] = "no"]
    BY <1>12 DEF DtorClose, IInv, TypeOK, AtOK, NoPid, SamePid
  <2> QED BY <2>1, <2>2, <2>3 DEF Promise!Release
<1>13. ASSUME NEW p \in Proc, Exit(p) PROVE Promise!Exit(p)
  <2>1. Held' = [Held EXCEPT ![p] = [o \in Obj |-> "no"]]
    <3>1. \A q \in Proc \ {p} : Holding(q)' = Holding(q) /\ mode'[q] = mode[q]
      BY <1>13 DEF Exit, IInv, TypeOK
    <3>2. Holding(p)' = {}
      BY <1>13 DEF Exit, IInv, TypeOK
    <3> HIDE DEF Holding
    <3> QED BY <3>1, <3>2 DEF Held
  <2>2. Denied' = [Denied EXCEPT ![p] = "no"]
    BY <1>13 DEF Exit, NoPid, SamePid, IInv, TypeOK
  <2> QED BY <2>1, <2>2 DEF Promise!Exit
<1>14. CASE UNCHANGED vars
  BY <1>14 DEF vars, Held
<1>15. \A p \in Proc : arg[p][1] \in Obj /\ arg[p][2] \in Mode
  BY DEF IInv, TypeOK
<1>16. Promise!Mode = Mode
  BY DEF Promise!Mode, Mode
<1>17. CASE Next
  <2>1. PICK p \in Proc :
          \/ \E o \in Obj : CtorDisabled(p, o) \/ CtorOpenFails(p, o)
          \/ \E o \in Obj, m \in Mode : CtorOpen(p, o, m)
          \/ \E o \in Obj, m \in Mode : CtorFurther(p, o, m)
          \/ \E o \in Obj, m \in Mode : CtorFurtherRefused(p, o, m)
          \/ \E o \in Obj : DtorDisabled(p, o) \/ DtorErase(p, o)
          \/ Continue(p)
          \/ Exit(p)
    BY <1>17 DEF Next
  <2>2. \/ \E o \in Obj, m \in Mode : Promise!Acquire(p, o, m)
        \/ \E m \in Mode : Promise!Refuse(p, m)
        \/ Quiet(p)
        \/ \E o \in Obj : Promise!Release(p, o)
        \/ Promise!Exit(p)
    <3> HIDE DEF Quiet, Promise!specVars, Denied, Refused, Holding
    <3>1. CASE \E o \in Obj : CtorDisabled(p, o) \/ CtorOpenFails(p, o)
      BY <1>1, <1>2, <3>1
    <3>2. CASE \E o \in Obj, m \in Mode : CtorOpen(p, o, m)
      BY <1>3, <3>2
    <3>3. CASE \E o \in Obj, m \in Mode : CtorFurther(p, o, m)
      BY <1>4, <3>3
    <3>4. CASE \E o \in Obj, m \in Mode : CtorFurtherRefused(p, o, m)
      BY <1>5, <3>4
    <3>5. CASE \E o \in Obj : DtorDisabled(p, o) \/ DtorErase(p, o)
      BY <1>6, <1>7, <3>5
    <3>6. CASE Continue(p)
      BY <1>8, <1>9, <1>10, <1>11, <1>12, <1>15, <3>6 DEF Continue
    <3>7. CASE Exit(p)
      BY <1>13, <3>7
    <3> QED BY <2>1, <3>1, <3>2, <3>3, <3>4, <3>5, <3>6, <3>7
  <2> QED BY <1>16, <2>2 DEF Promise!Next
<1> QED BY <1>14, <1>17

\* The code implements the readers-writer lock of LockSpec.
THEOREM Refinement == Spec => ImplementsLockSpec
<1>1. IInv /\ IInv' /\ [Next]_vars => [Promise!Next]_(Promise!specVars)
  BY StepPromise
<1> QED BY InitPromise, Invariance, <1>1, PTL DEF Spec, ImplementsLockSpec, Promise!Spec
=============================================================================
