-------------------------------- MODULE Lock --------------------------------
(***************************************************************************)
(* storage/Utils/LockImpl.cc: a system-wide read-only or read-write lock   *)
(* made of two parts: the process-associated POSIX lock on the lock file   *)
(* (between processes) and the static list of Lock objects (within one     *)
(* process).  The constructor and the destructor are modelled system call  *)
(* by system call, since other processes run between the calls.            *)
(*                                                                         *)
(* A process has one thread inside the constructor or destructor: the      *)
(* library is documented not to be thread-safe.                            *)
(***************************************************************************)
EXTENDS FiniteSets

CONSTANTS Proc,   \* processes that use the library
          Obj     \* the storage a Lock object can be constructed in

VARIABLES
  locks,      \* Lock::locks, the objects of the process holding the lock
  mode,       \* mode[p][o]: read_only and disabled of a living object, or
              \* "absent"
  fd,         \* Lock::fd: "none" (-1), "open", or "stale": the number of a
              \* file that is closed already
  fileLock,   \* the kernel's lock of the process on the lock file
  at,         \* where the thread of the process is
  arg,        \* the object and the mode the running constructor or destructor
              \* works on
  pid         \* what the last call threw: LockException::get_locker_pid

vars == <<locks, mode, fd, fileLock, at, arg, pid>>

Mode == {"ro", "rw"}

NoPid == "none"                 \* the call did not throw
UndeterminedPid == "0"
SamePid == "-2"

TypeOK == /\ locks \in [Proc -> SUBSET Obj]
          /\ mode \in [Proc -> [Obj -> Mode \cup {"absent", "disabled"}]]
          /\ fd \in [Proc -> {"none", "open", "stale"}]
          /\ fileLock \in [Proc -> Mode \cup {"none"}]
          /\ at \in [Proc -> {"idle", "opened", "refused", "closing"}]
          /\ arg \in [Proc -> Obj \X Mode]
          /\ pid \in [Proc -> Proc \cup {NoPid, UndeterminedPid, SamePid}]

Init == /\ locks = [p \in Proc |-> {}]
        /\ mode = [p \in Proc |-> [o \in Obj |-> "absent"]]
        /\ fd = [p \in Proc |-> "none"]
        /\ fileLock = [p \in Proc |-> "none"]
        /\ at = [p \in Proc |-> "idle"]
        /\ arg \in [Proc -> Obj \X {"ro"}]
        /\ pid = [p \in Proc |-> NoPid]

-----------------------------------------------------------------------------
(* The kernel: fcntl and close on a process-associated lock.               *)

\* The processes whose lock on the file conflicts with a lock of mode m of p.
Blockers(p, m) ==
  {q \in Proc \ {p} : \/ fileLock[q] = "rw"
                      \/ fileLock[q] = "ro" /\ m = "rw"}

\* Closing any descriptor of the file drops the lock of the process.
Close(p) == fileLock' = [fileLock EXCEPT ![p] = "none"]

-----------------------------------------------------------------------------
(* The constructor.                                                        *)

\* locks.push_back(this) and the end of the constructor.
Succeed(p, o, m) == /\ locks' = [locks EXCEPT ![p] = @ \cup {o}]
                    /\ mode' = [mode EXCEPT ![p][o] = m]
                    /\ pid' = [pid EXCEPT ![p] = NoPid]

Throw(p, who) == /\ pid' = [pid EXCEPT ![p] = who]
                 /\ UNCHANGED <<locks, mode>>

CtorDisabled(p, o) ==
  /\ at[p] = "idle"
  /\ mode[p][o] = "absent"
  /\ mode' = [mode EXCEPT ![p][o] = "disabled"]
  /\ pid' = [pid EXCEPT ![p] = NoPid]
  /\ UNCHANGED <<locks, fd, fileLock, at, arg>>

\* No lock in this process yet: open the lock file.
CtorOpen(p, o, m) ==
  /\ at[p] = "idle"
  /\ mode[p][o] = "absent"
  /\ locks[p] = {}
  /\ fd' = [fd EXCEPT ![p] = "open"]
  /\ at' = [at EXCEPT ![p] = "opened"]
  /\ arg' = [arg EXCEPT ![p] = <<o, m>>]
  /\ pid' = [pid EXCEPT ![p] = NoPid]
  /\ UNCHANGED <<locks, mode, fileLock>>

CtorOpenFails(p, o) ==
  /\ at[p] = "idle"
  /\ mode[p][o] = "absent"
  /\ locks[p] = {}
  /\ fd' = [fd EXCEPT ![p] = "none"]
  /\ Throw(p, UndeterminedPid)
  /\ UNCHANGED <<fileLock, at, arg>>

\* fcntl(fd, F_SETLK) succeeds.
SetLkGranted(p) ==
  /\ at[p] = "opened"
  /\ Blockers(p, arg[p][2]) = {}
  /\ fileLock' = [fileLock EXCEPT ![p] = arg[p][2]]
  /\ Succeed(p, arg[p][1], arg[p][2])
  /\ at' = [at EXCEPT ![p] = "idle"]
  /\ UNCHANGED <<fd, arg>>

\* fcntl(fd, F_SETLK) fails with EACCES or EAGAIN.
SetLkConflict(p) ==
  /\ at[p] = "opened"
  /\ Blockers(p, arg[p][2]) # {}
  /\ at' = [at EXCEPT ![p] = "refused"]
  /\ UNCHANGED <<locks, mode, fd, fileLock, arg, pid>>

\* Mutant of SetLkError: the default case forgets close(fd).
SetLkErrorWithoutClose(p) ==
  /\ at[p] = "opened"
  /\ at' = [at EXCEPT ![p] = "idle"]
  /\ Throw(p, UndeterminedPid)
  /\ UNCHANGED <<fd, fileLock, arg>>

\* fcntl(fd, F_SETLK) fails with another errno: close without fd = -1.
SetLkError(p) ==
  /\ at[p] = "opened"
  /\ Close(p)
  /\ fd' = [fd EXCEPT ![p] = "stale"]
  /\ at' = [at EXCEPT ![p] = "idle"]
  /\ Throw(p, UndeterminedPid)
  /\ UNCHANGED arg

\* Mutant of GetLk: retry until the kernel names a holder.
GetLkNeedsHolder(p) ==
  /\ at[p] = "refused"
  /\ \E q \in Blockers(p, arg[p][2]) : Throw(p, q)
  /\ Close(p)
  /\ fd' = [fd EXCEPT ![p] = "stale"]
  /\ at' = [at EXCEPT ![p] = "idle"]
  /\ UNCHANGED arg

\* fcntl(fd, F_GETLK), which may find the lock released in the meantime, and
\* close without fd = -1.
GetLk(p) ==
  /\ at[p] = "refused"
  /\ LET who == Blockers(p, arg[p][2])
     IN  \/ who = {} /\ Throw(p, UndeterminedPid)
         \/ \E q \in who : Throw(p, q)
  /\ Close(p)
  /\ fd' = [fd EXCEPT ![p] = "stale"]
  /\ at' = [at EXCEPT ![p] = "idle"]
  /\ UNCHANGED arg

\* Mutant of Admits: read-only is always admitted, any_of forgotten.
AdmitsReaders(p, m) == m = "ro"

\* Mutant of Admits: no further lock in the process, whatever its mode.
AdmitsNone(p, m) == FALSE

\* Whether the list of locks of the process admits one more lock of mode m.
Admits(p, m) == m = "ro" /\ \A o \in locks[p] : mode[p][o] = "ro"

CtorFurther(p, o, m) ==
  /\ at[p] = "idle"
  /\ mode[p][o] = "absent"
  /\ locks[p] # {}
  /\ Admits(p, m)
  /\ Succeed(p, o, m)
  /\ UNCHANGED <<fd, fileLock, at, arg>>

CtorFurtherRefused(p, o, m) ==
  /\ at[p] = "idle"
  /\ mode[p][o] = "absent"
  /\ locks[p] # {}
  /\ ~ Admits(p, m)
  /\ arg' = [arg EXCEPT ![p] = <<o, m>>]
  /\ Throw(p, SamePid)
  /\ UNCHANGED <<fd, fileLock, at>>

-----------------------------------------------------------------------------
(* The destructor, of any living object: objects die in any order.         *)

DtorDisabled(p, o) ==
  /\ at[p] = "idle"
  /\ mode[p][o] = "disabled"
  /\ mode' = [mode EXCEPT ![p][o] = "absent"]
  /\ pid' = [pid EXCEPT ![p] = NoPid]
  /\ UNCHANGED <<locks, fd, fileLock, at, arg>>

\* erase(locks, this); the object is gone unless it is the last one.
DtorErase(p, o) ==
  /\ at[p] = "idle"
  /\ o \in locks[p]
  /\ locks' = [locks EXCEPT ![p] = @ \ {o}]
  /\ IF locks[p] = {o}
     THEN /\ at' = [at EXCEPT ![p] = "closing"]
          /\ arg' = [arg EXCEPT ![p] = <<o, mode[p][o]>>]
          /\ UNCHANGED mode
     ELSE /\ mode' = [mode EXCEPT ![p][o] = "absent"]
          /\ UNCHANGED <<at, arg>>
  /\ pid' = [pid EXCEPT ![p] = NoPid]
  /\ UNCHANGED <<fd, fileLock>>

\* locks is empty: close(fd), fd = -1.
DtorClose(p) ==
  /\ at[p] = "closing"
  /\ fileLock' = [fileLock EXCEPT ![p] = IF fd[p] = "open" THEN "none" ELSE @]
  /\ fd' = [fd EXCEPT ![p] = "none"]
  /\ mode' = [mode EXCEPT ![p][arg[p][1]] = "absent"]
  /\ at' = [at EXCEPT ![p] = "idle"]
  /\ UNCHANGED <<locks, arg, pid>>

-----------------------------------------------------------------------------

\* The process ends at any point, orderly or not, and a new one takes its
\* place: the kernel drops its lock, its statics are initialised again.
Exit(p) == /\ locks' = [locks EXCEPT ![p] = {}]
           /\ mode' = [mode EXCEPT ![p] = [o \in Obj |-> "absent"]]
           /\ fd' = [fd EXCEPT ![p] = "none"]
           /\ Close(p)
           /\ at' = [at EXCEPT ![p] = "idle"]
           /\ pid' = [pid EXCEPT ![p] = NoPid]
           /\ UNCHANGED arg

\* The rest of a constructor or destructor that has begun.
Continue(p) == \/ SetLkGranted(p) \/ SetLkConflict(p) \/ SetLkError(p)
               \/ GetLk(p) \/ DtorClose(p)

Next == \E p \in Proc :
           \/ \E o \in Obj : CtorDisabled(p, o) \/ CtorOpenFails(p, o)
           \/ \E o \in Obj, m \in Mode : CtorOpen(p, o, m)
           \/ \E o \in Obj, m \in Mode : CtorFurther(p, o, m)
           \/ \E o \in Obj, m \in Mode : CtorFurtherRefused(p, o, m)
           \/ \E o \in Obj : DtorDisabled(p, o) \/ DtorErase(p, o)
           \/ Continue(p)
           \/ Exit(p)

Spec == Init /\ [][Next]_vars

\* A system call on the lock file does not wait (F_SETLK, not F_SETLKW), so a
\* constructor or destructor that has begun goes on.
FairSpec == Spec /\ \A p \in Proc : WF_vars(Continue(p))

-----------------------------------------------------------------------------

\* The objects of p that hold the lock.  One that is being destroyed holds it
\* until the file is closed.
Holding(p) == locks[p] \cup IF at[p] = "closing" THEN {arg[p][1]} ELSE {}

\* Of all lock objects in all processes, one that is read-write holds the lock
\* alone.  (Lock::Lock: two mechanisms, fcntl and the list, have to agree; a
\* read-only list entry relies on a kernel lock another object acquired.)
Exclusion ==
  \A p, q \in Proc : \A o \in Holding(p), r \in Holding(q) :
     mode[p][o] = "rw" => p = q /\ o = r

\* While the process has lock objects its descriptor is open and the kernel
\* holds the lock for it in their mode, whichever object acquired it and
\* whichever were destroyed since.  (Lock::~Lock closes only for the last one.)
Backed ==
  \A p \in Proc : \A o \in Holding(p) :
     fd[p] = "open" /\ fileLock[p] = mode[p][o]

\* A process without lock objects, outside constructor and destructor, neither
\* has the file open nor keeps anyone out, also after a constructor that threw.
NothingLeaked ==
  \A p \in Proc :
     at[p] = "idle" /\ locks[p] = {} => fd[p] # "open" /\ fileLock[p] = "none"

\* Every constructor and destructor ends, also one that found a conflict whose
\* holder released the lock between the two fcntl calls.
CallsEnd == \A p \in Proc : at[p] # "idle" ~> at[p] = "idle"

\* The state of LockSpec: an object holds the lock from fcntl to close.
Held == [p \in Proc |-> [o \in Obj |->
           IF o \in Holding(p) THEN mode[p][o] ELSE "no"]]

Refused(p) == at[p] = "refused" \/ pid[p] = SamePid

Denied == [p \in Proc |-> IF Refused(p) THEN arg[p][2] ELSE "no"]

Promise == INSTANCE LockSpec WITH holding <- Held, denied <- Denied

\* Every step is a step of the readers-writer lock or invisible: no lock is
\* granted against a holder and none is refused without one.
ImplementsLockSpec == Promise!Spec
=============================================================================
