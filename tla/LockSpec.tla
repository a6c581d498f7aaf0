------------------------------ MODULE LockSpec ------------------------------
(***************************************************************************)
(* What the lock of libstorage-ng promises (Storage.h, section "Locking"): *)
(* a system-wide readers-writer lock that never waits.  Lock objects live  *)
(* in processes.  A request is granted, or it is refused, and it may only  *)
(* be refused while a holder that conflicts with it exists.                *)
(***************************************************************************)
CONSTANTS Proc,   \* processes
          Obj     \* the storage a lock object can be constructed in

Mode == {"ro", "rw"}

VARIABLES holding,  \* holding[p][o]: what object o of process p holds
          denied    \* denied[p]: the mode p is being refused, or "no"

specVars == <<holding, denied>>

Compatible(m, n) == m = "ro" /\ n = "ro"

Holders == {h \in Proc \X Obj : holding[h[1]][h[2]] # "no"}

Conflict(m) == \E h \in Holders : ~ Compatible(m, holding[h[1]][h[2]])

Init == /\ holding = [p \in Proc |-> [o \in Obj |-> "no"]]
        /\ denied = [p \in Proc |-> "no"]

Acquire(p, o, m) == /\ holding[p][o] = "no"
                    /\ ~ Conflict(m)
                    /\ holding' = [holding EXCEPT ![p][o] = m]
                    /\ denied' = [denied EXCEPT ![p] = "no"]

Refuse(p, m) == /\ Conflict(m)
                /\ denied' = [denied EXCEPT ![p] = m]
                /\ UNCHANGED holding

Return(p) == /\ denied' = [denied EXCEPT ![p] = "no"]
             /\ UNCHANGED holding

Release(p, o) == /\ holding[p][o] # "no"
                 /\ holding' = [holding EXCEPT ![p][o] = "no"]
                 /\ denied' = [denied EXCEPT ![p] = "no"]

Exit(p) == /\ holding' = [holding EXCEPT ![p] = [o \in Obj |-> "no"]]
           /\ denied' = [denied EXCEPT ![p] = "no"]

Next == \E p \in Proc :
           \/ \E o \in Obj, m \in Mode : Acquire(p, o, m)
           \/ \E m \in Mode : Refuse(p, m)
           \/ Return(p)
           \/ \E o \in Obj : Release(p, o)
           \/ Exit(p)

Spec == Init /\ [][Next]_specVars
=============================================================================
