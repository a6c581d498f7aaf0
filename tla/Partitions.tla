------------------------------ MODULE Partitions ------------------------------
(***************************************************************************)
(* The partitions of a disk from a client's edits to the end of a commit.  *)
(* PartitionTable::Impl::run_dependency_manager puts all actions on        *)
(* partitions in one chain, because parted is told numbers and the numbers *)
(* of logical partitions move whenever one of them is deleted.  Swaps that *)
(* fstab lists by device name have to follow.                              *)
(*                                                                         *)
(* A partition has at most a swap on it, listed in fstab and active or     *)
(* not.  All swaps have the same mount point, so an entry of fstab is      *)
(* found by the number of its partition alone.                             *)
(***************************************************************************)
EXTENDS PartitionTable

CONSTANTS Sid,         \* storage ids
          Disks,       \* the disks at first: [pt, partitions]
          Swaps,       \* the new partitions that clients put a swap on
          Lengths,     \* lengths clients choose, besides a whole slot
          MaxEdits     \* bound of the calls that edit staging

VARIABLES
  pt,        \* the type of the partition table, "MSDOS" or "GPT"
  disk,      \* type, number and region of the partitions on disk
  swapped,   \* the partitions the kernel swaps to
  fstab,     \* the numbers in the entries, by the partition they are meant for
  system, staging,   \* the partition table in the device graphs
  phase,     \* "edit" or "commit"
  todo,      \* actions not committed yet
  edits

vars == <<pt, disk, swapped, fstab, system, staging, phase, todo, edits>>

Listed(t) == {p \in DOMAIN t : t[p].listed}
Active(t) == {p \in DOMAIN t : t[p].active}

OnDisk(t) == [p \in DOMAIN t |-> [type |-> t[p].type, number |-> t[p].number, region |-> t[p].region]]
Entries(t) == [p \in Listed(t) |-> t[p].number]

Partition == [type : {"PRIMARY", "EXTENDED", "LOGICAL"}, number : Nat,
              region : [start : Int, length : Int], listed : BOOLEAN, active : BOOLEAN]

\* What partition numbers are: every partition has its own, primary and extended
\* partitions have those below the limit of the table, and only an MS-DOS table has
\* others, of which n logical partitions have the first n.
Sound(type, t) ==
  /\ IsFiniteSet(DOMAIN t)
  /\ \A p, q \in DOMAIN t : t[p].number = t[q].number => p = q
  /\ \A p \in DOMAIN t :
       /\ {"type", "number"} \subseteq DOMAIN t[p]
       /\ t[p].number \in Nat \ {0}
       /\ t[p].type # "LOGICAL" => t[p].number <= MaxPrimary(type)
       /\ t[p].type = "LOGICAL" => t[p].number \in MaxPrimary(type) + 1 .. MaxPrimary(type) + NumLogical(t)
       /\ type # "MSDOS" => t[p].type = "PRIMARY"

\* The regions parted accepts: a logical partition has a sector in front of it for
\* its EBR.  The gap behind the MBR is a matter of the library.
Fits(type, t) ==
  LET logicals == OfType(t, "LOGICAL")
      room(q) == Sectors(t[q].region) \cup IF q \in logicals THEN {t[q].region.start - 1} ELSE {}
      disjoint(S) == \A p, q \in S : p # q => room(p) \cap room(q) = {}
      first == IF type = "MSDOS" THEN 1 ELSE UnusableFront(type)
  IN  /\ disjoint(DOMAIN t \ logicals) /\ disjoint(logicals)
      /\ \A p, q \in OfType(t, "EXTENDED") : p = q
      /\ \A q \in logicals : HasExtended(t) /\ room(q) \subseteq Sectors(t[Extended(t)].region)
      /\ \A q \in DOMAIN t : /\ t[q].region.length > 0
                             /\ Sectors(t[q].region) \subseteq first .. End(UsableRegion(type))

ASSUME ClientAssumption == Lengths \subseteq Nat \ {0} /\ MaxEdits \in Nat

\* Block numbers do not overflow, and the offset of the alignment (a few sectors) is
\* less than what the EBRs take.
ASSUME AlignmentAssumption == /\ DiskLength + Grain <= Word
                              /\ NumEbrs > 0 /\ Offset <= NumEbrs

\* A disk whose numbers and regions are sound.  The number of a logical partition
\* starts at 5 also if the kernel has fewer than five device nodes for a disk; then the
\* numbers in staging, which start behind MaxPrimary, are not those on disk.
Proper(d) == /\ d.pt \in {"MSDOS", "GPT"}
             /\ d.pt = "MSDOS" => DeviceRange > 4
             /\ Offset <= UnusableFront(d.pt)
             /\ Sound(d.pt, d.partitions)
             /\ Fits(d.pt, d.partitions)
             /\ DOMAIN d.partitions \subseteq Sid
             /\ \A p \in DOMAIN d.partitions : d.partitions[p] \in Partition

ASSUME DisksAssumption == \A d \in Disks : Proper(d)

Init == \E d \in Disks :
          /\ pt = d.pt
          /\ disk = OnDisk(d.partitions)
          /\ swapped = Active(d.partitions)
          /\ fstab = Entries(d.partitions)
          /\ system = d.partitions
          /\ staging = d.partitions
          /\ phase = "edit"
          /\ todo = {}
          /\ edits = 0

-----------------------------------------------------------------------------
(* The client                                                              *)

Edit(t) == /\ phase = "edit"
           /\ edits < MaxEdits
           /\ staging' = t
           /\ edits' = edits + 1
           /\ UNCHANGED <<pt, disk, swapped, fstab, system, phase, todo>>

\* The slot, or the beginning of it, aligned.
Chosen(slot) ==
  {slot.region}
  \cup UNION {Align([slot.region EXCEPT !.length = n]) :
                n \in {x \in Lengths : x <= slot.region.length}}

\* A client may want a number of its own (do_create_calc_hack).
NumbersFor(slot, type) ==
  {slot.number} \cup IF type = "LOGICAL" THEN {} ELSE 1 .. MaxPrimary(pt) \ Numbers(staging)

Create ==
  \E p \in Sid \ (DOMAIN staging \cup DOMAIN system), slot \in UnusedSlots(pt, staging) :
     \E type \in slot.types, region \in Chosen(slot) : \E number \in NumbersFor(slot, type) :
        Edit(CreatePartition(staging, p, type, number, region, p \in Swaps /\ type # "EXTENDED"))

Delete ==
  \E p \in DOMAIN staging :
     RemoveOK(staging, p) /\ Edit(DeletePartition(staging, p, system))

\* An empty partition, within what detect_resize_info allows.  Two duties of the
\* client that are not part of it: the end is aligned, and the sector in front of
\* another partition, where its EBR may be, is left alone.
Resize ==
  \E p \in DOMAIN staging \ (OfType(staging, "EXTENDED") \cup Listed(staging)), n \in Lengths :
     \E region \in AlignKeepStart([staging[p].region EXCEPT !.length = n]) :
        /\ region # staging[p].region
        /\ End(region) <= LastSector(pt, staging, p)
        /\ \A q \in DOMAIN staging : staging[q].region.start # End(region) + 1
        /\ Edit([staging EXCEPT ![p].region = region])

\* MountPoint::set_active(false)
Deactivate ==
  \E p \in Active(staging) : Edit([staging EXCEPT ![p].active = FALSE])

-----------------------------------------------------------------------------
(* The actions and their order                                             *)

Act(op, p) == [op |-> op, sid |-> p]

Actions(L, R) ==
  LET both == DOMAIN L \cap DOMAIN R
      lhs == DOMAIN L \ DOMAIN R
      rhs == DOMAIN R \ DOMAIN L
      of(op, S) == {Act(op, p) : p \in S}
  IN  of("shrink", {p \in both : R[p].region.length < L[p].region.length})
      \cup of("grow", {p \in both : R[p].region.length > L[p].region.length})
      \cup of("rename_in", {p \in both \cap Listed(L) : R[p].number # L[p].number})
      \cup of("create", rhs) \cup of("add_fstab", rhs \cap Listed(R))
      \cup of("delete", lhs) \cup of("remove_fstab", lhs \cap Listed(L))
      \cup of("unmount", Active(L) \ Active(R))

\* key_fnc2: numbers that get smaller first and in order, then numbers that get
\* larger backwards.
RenameKey(p, L, R) == IF L[p].number > R[p].number THEN R[p].number ELSE - L[p].number

\* Mutant of Place: the partition with the lowest number is deleted first.
PlaceDeleteForwards(a, L, R) ==
  CASE a.op = "shrink" -> <<1, L[a.sid].number>>
    [] a.op = "delete" -> <<2, L[a.sid].number>>
    [] a.op = "rename_in" -> <<3, RenameKey(a.sid, L, R)>>
    [] a.op = "create" -> <<4, R[a.sid].number>>
    [] a.op = "grow" -> <<5, R[a.sid].number>>

\* Mutant of Place: what gets the highest number is renamed first.
PlaceRenameBackwards(a, L, R) ==
  CASE a.op = "shrink" -> <<1, L[a.sid].number>>
    [] a.op = "delete" -> <<2, - L[a.sid].number>>
    [] a.op = "rename_in" -> <<3, - R[a.sid].number>>
    [] a.op = "create" -> <<4, R[a.sid].number>>
    [] a.op = "grow" -> <<5, R[a.sid].number>>

\* The place of an action in the chain.
Place(a, L, R) ==
  CASE a.op = "shrink" -> <<1, L[a.sid].number>>
    [] a.op = "delete" -> <<2, - L[a.sid].number>>
    [] a.op = "rename_in" -> <<3, RenameKey(a.sid, L, R)>>
    [] a.op = "create" -> <<4, R[a.sid].number>>
    [] a.op = "grow" -> <<5, R[a.sid].number>>

InChain == {"shrink", "delete", "rename_in", "create", "grow"}

\* b comes before a: in the chain of the partition table, or in the chains and
\* dependencies of one partition and its mount point.
After(a, b, L, R) ==
  \/ /\ {a.op, b.op} \subseteq InChain
     /\ LET x == Place(a, L, R)
            y == Place(b, L, R)
        IN  y[1] < x[1] \/ (y[1] = x[1] /\ y[2] < x[2])
  \/ /\ a.sid = b.sid
     /\ <<b.op, a.op>> \in {<<"remove_fstab", "unmount">>, <<"remove_fstab", "delete">>,
                            <<"unmount", "delete">>, <<"create", "add_fstab">>}

Ready == {a \in todo : \A b \in todo : ~ After(a, b, system, staging)}

CalculateActiongraph ==
  /\ phase = "edit"
  /\ todo' = Actions(system, staging)
  /\ phase' = "commit"
  /\ UNCHANGED <<pt, disk, swapped, fstab, system, staging, edits>>

-----------------------------------------------------------------------------
(* Commit.  parted and the kernel are external.                            *)

Numbered(n) == {p \in DOMAIN disk : disk[p].number = n}

\* The partition a command names: the number is that of LHS, for create and grow
\* that of RHS.
Named(a) == Numbered(IF a.op = "grow" THEN staging[a.sid].number ELSE system[a.sid].number)

\* The number mkpart gives to a partition after k more were created, if there is
\* one left.
NextNumbers(type, k) ==
  IF type = "LOGICAL" THEN {5 + NumLogical(disk)}
  ELSE {n \in 1 .. MaxPrimary(pt) :
          Numbered(n) = {} /\ Cardinality({m \in 1 .. n - 1 : Numbered(m) = {}}) = k}

\* The tool succeeds.
Commit(a, newDisk, newSwapped, newFstab) ==
  /\ phase = "commit"
  /\ disk' = newDisk
  /\ swapped' = newSwapped
  /\ fstab' = newFstab
  /\ todo' = todo \ {a}
  /\ UNCHANGED <<pt, system, staging, phase, edits>>

\* rm: numbers of logical partitions close the gap.
DeletionOK(q) ==
  /\ Removed(disk, q) \cap swapped = {}
  /\ disk[q].type = "LOGICAL" => \A r \in swapped : disk[r].number < disk[q].number

CommitDelete(a) ==
  a.op = "delete" /\ \E q \in Named(a) :
     LET rest == Without(disk, Removed(disk, q))
     IN  /\ DeletionOK(q)
         /\ Commit(a,
                   IF disk[q].type = "LOGICAL" THEN ShiftLogicals(rest, disk[q].number) ELSE rest,
                   swapped, fstab)

\* resizepart
Resized(q, p) == [disk EXCEPT ![q].region = Region(@.start, End(staging[p].region))]

CommitResize(a) ==
  a.op \in {"shrink", "grow"} /\ \E q \in Named(a) :
     Fits(pt, Resized(q, a.sid)) /\ Commit(a, Resized(q, a.sid), swapped, fstab)

\* do_create_calc_hack: the numbers below that are not in use in staging.
TemporaryNumbers(p) ==
  IF staging[p].type = "LOGICAL" THEN {}
  ELSE (1 .. staging[p].number - 1) \ Numbers(staging)

\* do_create with do_create_pre_hack and do_create_post_hack: temporary
\* partitions at the end of the region take the numbers that are too low and are
\* removed by number.
Created(p) ==
  LET tmps == TemporaryNumbers(p)
      kept == {q \in DOMAIN disk : disk[q].number \notin tmps}
  IN  {[q \in kept \cup {p} |->
          IF q = p THEN [type |-> staging[p].type, number |-> number, region |-> staging[p].region]
                   ELSE disk[q]] :
        number \in NextNumbers(staging[p].type, Cardinality(tmps))}

\* "Fails miserable if main partition is very small."
TooSmall(p) == Cardinality(TemporaryNumbers(p)) >= staging[p].region.length

CreationOK(p) == ~ TooSmall(p) /\ \E t \in Created(p) : Fits(pt, t)

CommitCreate(a) ==
  a.op = "create" /\ \E t \in Created(a.sid) :
     ~ TooSmall(a.sid) /\ Fits(pt, t) /\ Commit(a, t, swapped, fstab)

\* find_etc_fstab_entries finds entries by name and mount point.
Found(p) == {q \in DOMAIN fstab : fstab[q] = system[p].number}

\* Action::RenameIn, MountPoint::Impl::do_rename_in_etc_fstab
CommitRename(a) ==
  a.op = "rename_in" /\ Commit(a, disk, swapped,
         [q \in DOMAIN fstab |-> IF q \in Found(a.sid) THEN staging[a.sid].number ELSE fstab[q]])

CommitAddFstab(a) ==
  a.op = "add_fstab" /\ Commit(a, disk, swapped,
         [q \in DOMAIN fstab \cup {a.sid} |-> IF q = a.sid THEN staging[q].number ELSE fstab[q]])

CommitRemoveFstab(a) ==
  a.op = "remove_fstab" /\ Commit(a, disk, swapped, Without(fstab, Found(a.sid)))

\* swapoff
CommitUnmount(a) ==
  a.op = "unmount" /\ \E q \in Named(a) \cap swapped :
     Commit(a, disk, swapped \ {q}, fstab)

\* After a commit, or after a tool failed and the user stopped.  Probing attaches
\* an entry of fstab to the partition with its number.  (Entries with other numbers
\* stay in the file and are not of interest any more.)
Probe ==
  LET named == {p \in DOMAIN disk : \E q \in DOMAIN fstab : fstab[q] = disk[p].number}
      found == [p \in DOMAIN disk |->
                  [type |-> disk[p].type, number |-> disk[p].number, region |-> disk[p].region,
                   listed |-> p \in named, active |-> p \in swapped]]
  IN  /\ phase = "commit"
      /\ edits < MaxEdits
      /\ system' = found
      /\ staging' = found
      /\ fstab' = Entries(found)
      /\ phase' = "edit"
      /\ todo' = {}
      /\ UNCHANGED <<pt, disk, swapped, edits>>

Next == \/ Create
        \/ Delete
        \/ Resize
        \/ Deactivate
        \/ CalculateActiongraph
        \/ \E a \in Ready : \/ CommitDelete(a)
                            \/ CommitResize(a)
                            \/ CommitCreate(a)
                            \/ CommitRename(a)
                            \/ CommitAddFstab(a)
                            \/ CommitRemoveFstab(a)
                            \/ CommitUnmount(a)
        \/ Probe

Spec == Init /\ [][Next]_vars

-----------------------------------------------------------------------------
TypeOK == /\ pt \in {"MSDOS", "GPT"}
          /\ \A t \in {system, staging} : DOMAIN t \subseteq Sid /\ \A p \in DOMAIN t : t[p] \in Partition
          /\ DOMAIN disk \subseteq Sid
          /\ swapped \subseteq Sid
          /\ DOMAIN fstab \subseteq Sid
          /\ phase \in {"edit", "commit"}
          /\ edits \in 0 .. MaxEdits

\* In staging no two partitions have one number, whatever was created, deleted
\* and renumbered, and primary and extended partitions have numbers the
\* partition table has.
NumbersSound ==
  /\ \A p, q \in DOMAIN staging : staging[p].number = staging[q].number => p = q
  /\ \A p \in DOMAIN staging \ OfType(staging, "LOGICAL") : staging[p].number <= MaxPrimary(pt)

\* Every command of a commit names the partition it is meant for, however the
\* numbers have moved since the system was probed, and parted can do it.  (Only the
\* hack for numbers the client chose needs a region that is large enough.)
RightPartition ==
  phase = "commit" => \A a \in Ready :
     /\ a.op \in {"delete", "shrink", "grow", "unmount"} => Named(a) = {a.sid}
     /\ a.op \in {"shrink", "grow"} => Fits(pt, Resized(a.sid, a.sid))
     /\ a.op = "create" => CreationOK(a.sid) \/ TooSmall(a.sid)

\* A commit without an error leaves the disk and fstab as staging has them, with
\* the numbers staging predicted.
EndsAsStaging == phase = "commit" /\ todo = {} => /\ disk = OnDisk(staging)
                                                   /\ swapped = Active(staging)
                                                   /\ fstab = Entries(staging)

\* Every slot offered lies in free space with room for EBRs and its number is
\* free; the types said to be possible have a number left.  No free sector that
\* a partition could start at is missing in the slots.  (The last sector of the
\* usable region is, if it is alone.)
SlotsSound ==
  LET primaries == DOMAIN staging \ OfType(staging, "LOGICAL")
      logicals == OfType(staging, "LOGICAL")
      used(S) == UNION {Sectors(staging[p].region) : p \in S}
      outer(logical) == IF logical THEN Sectors(staging[Extended(staging)].region)
                                   ELSE Sectors(UsableRegion(pt))
      free(logical) == outer(logical) \ used(IF logical THEN logicals ELSE primaries)
      \* sectors x with n more free sectors in front and behind, up to the end
      spaced(x, n, F, O) == x - n .. x \subseteq F /\ (x + 1 .. x + 1 + n) \cap O \subseteq F
      found(slots) == UNION {Sectors(s.region) : s \in slots}
  IN  phase = "edit" =>
      /\ \A s \in PrimarySlots(pt, staging) :
            /\ Sectors(s.region) \subseteq free(FALSE)
            /\ s.number \notin Numbers(staging)
            /\ s.types # {} => s.number <= MaxPrimary(pt)
      /\ \A s \in LogicalSlots(pt, staging) :
            /\ (s.region.start - NumEbrs .. End(s.region) + NumEbrs) \cap outer(TRUE) \subseteq free(TRUE)
            /\ s.region.start - NumEbrs \in outer(TRUE)
            /\ s.number \notin Numbers(staging)
            /\ s.types # {} => s.number <= MaxLogical(pt)
      /\ {x \in free(FALSE) : AlignStart(x) = x /\ x + 1 \in free(FALSE)}
            \subseteq found(PrimarySlots(pt, staging))
      /\ HasExtended(staging) =>
           {x \in free(TRUE) : AlignStart(x) = x /\ x + 1 \in free(TRUE)
                                 /\ spaced(x, NumEbrs, free(TRUE), outer(TRUE))}
             \subseteq found(LogicalSlots(pt, staging))

\* No deletion takes a partition the kernel swaps to, or moves its number.
\* (FreeInfo.h: deleting a partition is not allowed when it "would result in
\* renumbering of partitions with active stuff on them".  Only staging is asked:
\* nothing orders the deletion and the swapoff of a swap with a higher number that
\* the client has deactivated there.)
ActiveKeepNumber ==
  phase = "commit" /\ (\A a \in todo : a.op = "unmount" => a.sid \notin DOMAIN staging) =>
    \A a \in Ready : a.op = "delete" => DeletionOK(a.sid)
=============================================================================
