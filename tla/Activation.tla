------------------------------ MODULE Activation ------------------------------
(***************************************************************************)
(* Storage::activate and Storage::deactivate (storage/StorageImpl.cc) for  *)
(* LUKS and LVM, whose devices are stacked in any order, with the cache of *)
(* passwords (storage/Devices/LuksImpl.cc) and the answers of the user.    *)
(* udev may activate logical volumes at any time while devices are         *)
(* activated.                                                              *)
(*                                                                         *)
(* BitLocker is handled in the loops exactly like LUKS and left out;       *)
(* multipath, MD and DM RAID are handled once, outside of the loops.       *)
(***************************************************************************)
EXTENDS Integers, FiniteSets

CONSTANTS Luks, Lv,
          On,           \* On[d]: the devices d is on, {} for disks
          Uuid,         \* Uuid[l]: of a LUKS
          Key,          \* Key[l]: the password that opens it
          Busy,         \* devices that are mounted when they are deactivated
          MaxAttempts,  \* bound of wrong passwords (and period of the counter)
          MaxErrors,    \* bound of the failing commands
          MaxCalls      \* bound of the calls of activate

Device == Luks \cup Lv
Uuids == {Uuid[l] : l \in Luks}
Password == {Key[l] : l \in Luks}

\* What luks_activation_infos can hold for a uuid.
NotAsked == "not asked"
Canceled == "canceled"

ASSUME ActivationAssumption ==
  /\ Luks \cap Lv = {}
  /\ IsFiniteSet(Lv)
  /\ On \in [Device -> SUBSET Device]
  /\ {NotAsked, Canceled} \cap Password = {}
  /\ MaxAttempts \in Nat \ {0}

VARIABLES
  active,   \* the devices that are active
  cached,   \* luks_activation_infos, for each uuid
  at,       \* where the thread is
  again,    \* the progress of the round
  before,   \* number_of_inactive before vgchange
  todo,     \* the devices the running function has still to visit
  attempt,
  round,    \* of the loop in deactivate
  status,   \* the subsystems that are deactivated
  errors, calls

vars == <<active, cached, at, again, before, todo, attempt, round, status, errors, calls>>

Visible(d) == On[d] \subseteq active
Inactive(S) == {d \in S : Visible(d) /\ d \notin active}

\* Something active is on the device: the kernel reports a holder.
Held(d) == \E c \in active : d \in On[c]

Init == /\ active = {}
        /\ cached = [u \in Uuids |-> NotAsked]
        /\ at = "idle"
        /\ again = FALSE
        /\ before = 0
        /\ todo = {}
        /\ attempt = 1
        /\ round = 0
        /\ status = {}
        /\ errors = 0
        /\ calls = 0

-----------------------------------------------------------------------------
(* activate                                                                *)

Activate == /\ at = "idle"
            /\ calls < MaxCalls
            /\ calls' = calls + 1
            /\ at' = "lvs"
            /\ again' = FALSE
            /\ UNCHANGED <<active, cached, before, todo, attempt, round, status, errors>>

\* CmdLvs().number_of_inactive() for the first time.
CountLvs == /\ at = "lvs"
            /\ before' = Cardinality(Inactive(Lv))
            /\ at' = IF before' = 0 THEN "lukses" ELSE "vgchange"
            /\ UNCHANGED <<active, cached, again, todo, attempt, round, status, errors, calls>>

\* The command of the running function fails: the error callback aborts, or it
\* continues at next.
Error(next) == /\ errors < MaxErrors
               /\ errors' = errors + 1
               /\ at' \in {next, "aborted"}

\* vgchange --activate y: all logical volumes, or some and an error.
ActivateLvs ==
  /\ at = "vgchange"
  /\ \/ /\ active' = active \cup Inactive(Lv)
        /\ at' = "recount"
        /\ UNCHANGED errors
     \/ /\ \E S \in SUBSET Inactive(Lv) : active' = active \cup S
        /\ Error("recount")
  /\ UNCHANGED <<cached, again, before, todo, attempt, round, status, calls>>

\* CmdLvs().number_of_inactive() for the second time.
RecountLvs ==
  /\ at = "recount"
  /\ again' = (again \/ before # Cardinality(Inactive(Lv)))
  /\ at' = "lukses"
  /\ UNCHANGED <<active, cached, before, todo, attempt, round, status, errors, calls>>

\* activate_lukses: blkid lists all LUKSes, those with holders are skipped.
ListLukses ==
  /\ at = "lukses"
  /\ todo' = Inactive(Luks)
  /\ attempt' = 1
  /\ at' = "open"
  /\ UNCHANGED <<active, cached, again, before, round, status, errors, calls>>

\* activate_luks of l ends.
Visited(l) == /\ todo' = todo \ {l}
              /\ attempt' = 1

WrongPassword == attempt' = (attempt % MaxAttempts) + 1

Visit(l) == at = "open" /\ l \in todo

\* The callback is asked.
Cancel(l) ==
  /\ Visit(l)
  /\ cached[Uuid[l]] = NotAsked
  /\ cached' = [cached EXCEPT ![Uuid[l]] = Canceled]
  /\ Visited(l)
  /\ UNCHANGED <<active, at, again, before, round, status, errors, calls>>

\* Mutant of OpenAsked: any password is cached.
OpenAskedCachesFirst(l, password) ==
  /\ Visit(l)
  /\ cached[Uuid[l]] = NotAsked
  /\ cached' = [cached EXCEPT ![Uuid[l]] = password]
  /\ IF password = Key[l]
     THEN /\ active' = active \cup {l}
          /\ again' = TRUE
          /\ Visited(l)
     ELSE /\ attempt < MaxAttempts
          /\ WrongPassword
          /\ UNCHANGED <<active, again, todo>>
  /\ UNCHANGED <<at, before, round, status, errors, calls>>

\* A wrong password is not cached, the callback is asked again.
OpenAsked(l, password) ==
  /\ Visit(l)
  /\ cached[Uuid[l]] = NotAsked
  /\ IF password = Key[l]
     THEN /\ active' = active \cup {l}
          /\ cached' = [cached EXCEPT ![Uuid[l]] = password]
          /\ again' = TRUE
          /\ Visited(l)
     ELSE /\ attempt < MaxAttempts
          /\ WrongPassword
          /\ UNCHANGED <<active, cached, again, todo>>
  /\ UNCHANGED <<at, before, round, status, errors, calls>>

\* With a cached password: if it is wrong, it is tried again.
OpenCached(l) ==
  /\ Visit(l)
  /\ cached[Uuid[l]] \in Password
  /\ IF cached[Uuid[l]] = Key[l]
     THEN /\ active' = active \cup {l}
          /\ again' = TRUE
          /\ Visited(l)
     ELSE /\ WrongPassword
          /\ UNCHANGED <<active, again, todo>>
  /\ UNCHANGED <<cached, at, before, round, status, errors, calls>>

SkipCanceled(l) ==
  /\ Visit(l)
  /\ cached[Uuid[l]] = Canceled
  /\ Visited(l)
  /\ UNCHANGED <<active, cached, at, again, before, round, status, errors, calls>>

\* cryptsetup fails; the password is not cached.
OpenFails(l) ==
  /\ Visit(l)
  /\ cached[Uuid[l]] # Canceled
  /\ Visited(l)
  /\ Error("open")
  /\ UNCHANGED <<active, cached, again, before, round, status, calls>>

\* Mutant of EndRound: no loop.
EndRoundOnce == /\ at = "open"
                /\ todo = {}
                /\ at' = "activated"
                /\ again' = FALSE
                /\ UNCHANGED <<active, cached, before, todo, attempt, round, status, errors, calls>>

\* Another round if something was activated in this one.
EndRound == /\ at = "open"
            /\ todo = {}
            /\ at' = IF again THEN "lvs" ELSE "activated"
            /\ again' = FALSE
            /\ UNCHANGED <<active, cached, before, todo, attempt, round, status, errors, calls>>

Return == /\ at \in {"activated", "aborted", "deactivated"}
          /\ at' = "idle"
          /\ todo' = {}
          /\ UNCHANGED <<active, cached, again, before, attempt, round, status, errors, calls>>

\* udev activates a logical volume.
AutoActivate(lv) ==
  /\ at \in {"lvs", "vgchange", "recount", "lukses", "open"}
  /\ lv \in Inactive(Lv)
  /\ active' = active \cup {lv}
  /\ UNCHANGED <<cached, at, again, before, todo, attempt, round, status, errors, calls>>

-----------------------------------------------------------------------------
(* deactivate                                                              *)

\* The functions of a round: what they close, what is done next.
Subsystem == [luks |-> Luks, lvm_lv |-> Lv]

Deactivate == /\ at = "idle"
              /\ at' = "luks"
              /\ round' = 1
              /\ status' = {}
              /\ todo' = active \cap Luks
              /\ UNCHANGED <<active, cached, again, before, attempt, errors, calls>>

Closing == at \in {"luks", "lvm_lv"}

\* cryptsetup close, or vgchange for one logical volume; it fails if the device
\* is in use.
Close(d) ==
  /\ Closing
  /\ d \in todo
  /\ todo' = todo \ {d}
  /\ active' = IF Held(d) \/ d \in Busy THEN active ELSE active \ {d}
  /\ UNCHANGED <<cached, at, again, before, attempt, round, status, errors, calls>>

Rounds == 3

\* Mutant of Deactivated: the exit codes are ignored.
DeactivatedAnyway(s) == TRUE

\* The function returns true: none of its devices is left.
Deactivated(s) == active \cap Subsystem[s] = {}

EndLukses ==
  /\ at = "luks"
  /\ todo = {}
  /\ status' = status \cup (IF Deactivated("luks") THEN {"luks"} ELSE {})
  /\ at' = "lvm_lv"
  /\ todo' = IF "lvm_lv" \in status THEN {} ELSE active \cap Lv
  /\ UNCHANGED <<active, cached, again, before, attempt, round, errors, calls>>

\* Mutant of EndLvs: two rounds.
EndLvsTwoRounds ==
  /\ at = "lvm_lv"
  /\ todo = {}
  /\ status' = status \cup (IF Deactivated("lvm_lv") THEN {"lvm_lv"} ELSE {})
  /\ IF status' = {"luks", "lvm_lv"} \/ round = 2
     THEN /\ at' = "deactivated"
          /\ UNCHANGED <<todo, round>>
     ELSE /\ at' = "luks"
          /\ round' = round + 1
          /\ todo' = IF "luks" \in status' THEN {} ELSE active \cap Luks
  /\ UNCHANGED <<active, cached, again, before, attempt, errors, calls>>

EndLvs ==
  /\ at = "lvm_lv"
  /\ todo = {}
  /\ status' = status \cup (IF Deactivated("lvm_lv") THEN {"lvm_lv"} ELSE {})
  /\ IF status' = {"luks", "lvm_lv"} \/ round = Rounds
     THEN /\ at' = "deactivated"
          /\ UNCHANGED <<todo, round>>
     ELSE /\ at' = "luks"
          /\ round' = round + 1
          /\ todo' = IF "luks" \in status' THEN {} ELSE active \cap Luks
  /\ UNCHANGED <<active, cached, again, before, attempt, errors, calls>>

-----------------------------------------------------------------------------

\* The steps of the thread in a call.
Step == \/ CountLvs \/ ActivateLvs \/ RecountLvs \/ ListLukses
        \/ \E l \in Luks : Cancel(l) \/ OpenCached(l) \/ SkipCanceled(l) \/ OpenFails(l)
        \/ \E l \in Luks, password \in Password : OpenAsked(l, password)
        \/ EndRound \/ Return
        \/ \E d \in Device : Close(d)
        \/ EndLukses \/ EndLvs

Next == \/ Activate \/ Deactivate \/ Step
        \/ \E lv \in Lv : AutoActivate(lv)

Spec == Init /\ [][Next]_vars

\* The thread goes on: commands return and the user answers.
FairSpec == Spec /\ WF_vars(Step)

-----------------------------------------------------------------------------

\* The values of the state: the cache holds passwords, cancellations or nothing,
\* and deactivate makes no fourth round.
TypeOK == /\ active \subseteq Device
          /\ cached \in [Uuids -> Password \cup {NotAsked, Canceled}]
          /\ at \in {"idle", "lvs", "vgchange", "recount", "lukses", "open", "activated", "aborted",
                     "luks", "lvm_lv", "deactivated"}
          /\ again \in BOOLEAN
          /\ before \in 0 .. Cardinality(Lv)
          /\ todo \subseteq Device
          /\ attempt \in 1 .. MaxAttempts
          /\ round \in 0 .. Rounds
          /\ status \subseteq {"luks", "lvm_lv"}

NoLvOnLv == \A lv \in Lv : On[lv] \cap Lv = {}

\* "Activation of LVM and LUKS is done in a loop since it the stacking can be
\* done in any order" (StorageImpl.cc): when activate returns and no command
\* failed, all that is left inactive is LUKSes the user canceled, and what is on
\* them.
ActivatesAll ==
  at = "activated" /\ errors = 0 =>
     \A d \in Inactive(Device) : d \in Luks /\ cached[Uuid[d]] = Canceled

\* The same without a logical volume on another one.
ActivatesAllFlat == NoLvOnLv => ActivatesAll

\* "The callback for a specific LUKS will not be called again (not even if
\* Storage::activate() is called again) if 1. the activation was canceled or 2.
\* the activation was successful" (Storage.h): what is cached stays, and it is a
\* password that opened a LUKS with the uuid.
CacheKept ==
  [][\A u \in Uuids :
        /\ cached[u] # NotAsked => cached'[u] = cached[u]
        /\ cached'[u] \in Password \ {cached[u]} =>
              \E l \in active' \ active : Uuid[l] = u /\ Key[l] = cached'[u]]_vars

\* activate and deactivate return, whatever the user answers.
CallsReturn == at # "idle" ~> at = "idle"

\* "True indicates that the corresponding subsystem was deactivate or not
\* activate in the first place" (Storage.h), also when it was found deactivated
\* in an early round.
StatusTrue == at = "deactivated" => \A s \in status : active \cap Subsystem[s] = {}

\* "All deactivate functions return true if nothing is left to deactivate. So loop
\* at most three times" (StorageImpl.cc): three rounds are enough to take down
\* stacks of five devices, in whatever order the devices of a round are listed.
\* What is left is in use, or something that is left is on it.
DeactivatesAll == at = "deactivated" => \A d \in active : d \in Busy \/ Held(d)
=============================================================================
