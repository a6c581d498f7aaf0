---------------------------------- MODULE Pool ----------------------------------
(***************************************************************************)
(* Pool::Impl (storage/PoolImpl.cc): the largest size the pool offers for  *)
(* a number of partitions and the creation of partitions, one per disk,    *)
(* from the unused slots of the partition tables in staging.               *)
(*                                                                         *)
(* The pool has the disk of Partitions and another one, which no one else  *)
(* edits.  A function that throws returns the empty set, otherwise a set   *)
(* with its result.                                                        *)
(***************************************************************************)
EXTENDS Partitions

CONSTANT OtherDisk   \* [pt, partitions]

ASSUME OtherDiskAssumption == Proper(OtherDisk)

\* PartitionTable::Impl::get_used_size
UsedSize(t) == MapThenSumSet(LAMBDA p : t[p].region.length, DOMAIN t \ OfType(t, "EXTENDED"))

\* get_partitionable_candidates: the least used disk first, otherwise by name.
Candidates ==
  LET edited == [name |-> "edited", pt |-> pt, partitions |-> staging]
      other == [name |-> "other", pt |-> OtherDisk.pt, partitions |-> OtherDisk.partitions]
  IN  IF UsedSize(other.partitions) < UsedSize(staging) THEN <<other, edited>> ELSE <<edited, other>>

\* Mutant of PossibleSlots: the limits of the partition table are forgotten.
PossibleSlotsAny(d) == UnusedSlots(d.pt, d.partitions)

\* Slots where a primary or logical partition is possible.
PossibleSlots(d) == {s \in UnusedSlots(d.pt, d.partitions) : s.types \cap {"PRIMARY", "LOGICAL"} # {}}

\* Regions are compared by their start: the "biggest" is the last one, the
\* "smallest" the first one.  None if there are no slots.
Biggest(slots) == {s \in slots : \A x \in slots : x.region.start <= s.region.start}
Smallest(slots) == {s \in slots : \A x \in slots : s.region.start <= x.region.start}

\* The smallest among the "number" biggest, one of each candidate with a slot.
MaxPartitionSize(number) ==
  LET disks == Candidates
      offering == {i \in DOMAIN disks : PossibleSlots(disks[i]) # {}}
      size == [i \in offering |-> (CHOOSE s \in Biggest(PossibleSlots(disks[i])) : TRUE).region.length]
  IN  {n \in {size[i] : i \in offering} :
         /\ Cardinality({i \in offering : size[i] > n}) < number
         /\ Cardinality({i \in offering : size[i] >= n}) >= number}

Fitting(d, size) == {s \in PossibleSlots(d) : s.region.length >= size}

\* The partition in a slot.
Partitioned(d, slot, size) ==
  {[disk |-> d, region |-> r, number |-> slot.number,
    type |-> IF "PRIMARY" \in slot.types THEN "PRIMARY" ELSE "LOGICAL"] :
     r \in Align([slot.region EXCEPT !.length = size])}

\* create_partitions: the partitions, by the candidates they are on.  (They are in
\* staging then; that is what Create of Partitions does.)
CreatePartitions(number, size) ==
  LET disks == Candidates
      fitting == [i \in DOMAIN disks |-> Fitting(disks[i], size)]
      usable == {i \in DOMAIN disks : fitting[i] # {}}
      taken == {i \in usable : Cardinality({j \in usable : j < i}) < number}
      created == [i \in taken |-> Partitioned(disks[i], CHOOSE s \in Smallest(fitting[i]) : TRUE, size)]
  IN  IF Cardinality(usable) < number THEN {}
      ELSE {ps \in [taken -> UNION {created[i] : i \in taken}] : \A i \in taken : ps[i] \in created[i]}

-----------------------------------------------------------------------------
\* Partition p is in space that is free, with room for EBRs, has a number its table has
\* left, and is smaller than what was asked for by less than a grain.
Right(p, size) ==
  LET t == p.disk.partitions
      outer == IF p.type = "LOGICAL" THEN t[Extended(t)].region ELSE UsableRegion(p.disk.pt)
      around == IF p.type = "LOGICAL" THEN p.region.start - NumEbrs .. End(p.region) + NumEbrs
                                      ELSE Sectors(p.region)
  IN  /\ p.number \notin Numbers(t)
      /\ p.number <= IF p.type = "LOGICAL" THEN MaxLogical(p.disk.pt) ELSE MaxPrimary(p.disk.pt)
      /\ Sectors(p.region) \subseteq Sectors(outer)
      /\ \A q \in DOMAIN t : (t[q].type = "LOGICAL") = (p.type = "LOGICAL") =>
                                around \cap Sectors(t[q].region) = {}
      /\ p.region.length \in size - Grain + 1 .. size

\* What max_partition_size offers, create_partitions keeps, also for smaller sizes:
\* it does not run out of space and makes the partitions on as many disks, each in its
\* right place.  (A size below a grain cannot be aligned and throws.)
PoolKept ==
  phase = "edit" =>
    \A number \in 1 .. 2 : \A max \in MaxPartitionSize(number) : \A size \in ({max} \cup Lengths) \cap Grain .. max :
       \E ps \in CreatePartitions(number, size) :
          /\ \A i \in DOMAIN ps : Right(ps[i], size)
          /\ Cardinality({ps[i].disk.name : i \in DOMAIN ps}) = number
=============================================================================
