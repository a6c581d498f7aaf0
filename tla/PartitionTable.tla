---------------------------- MODULE PartitionTable ----------------------------
(***************************************************************************)
(* The partition table of one disk as storage/Devices/PartitionTableImpl,  *)
(* MsdosImpl, GptImpl and PartitionImpl keep it in a device graph: slots,  *)
(* numbers and regions.  Regions (Utils/RegionImpl) and alignment          *)
(* (Utils/AlignmentImpl) are in sectors of the disk.                       *)
(*                                                                         *)
(* A partition table is a function from storage ids to partitions.  The    *)
(* name of a partition is its number.                                      *)
(***************************************************************************)
EXTENDS Integers, FiniteSets, FiniteSetsExt

CONSTANTS DiskLength,    \* sectors of the disk
          MaxSectors,    \* sectors MS-DOS can address, UINT32_MAX
          MbrGap,        \* minimal_mbr_gap in sectors
          GptEntries,    \* sectors for the partition entries of GPT
          PartitionSlots,  \* partition entries of GPT
          DeviceRange,   \* device nodes for the disk and its partitions
          NumEbrs,       \* Msdos::Impl::num_ebrs
          Grain, Offset, \* alignment in sectors
          Word           \* 2^64 for block numbers

ASSUME GeometryAssumption ==
  /\ {DiskLength, MaxSectors, MbrGap, GptEntries, NumEbrs, Offset} \subseteq Nat
  /\ {PartitionSlots, Grain, Word} \subseteq Nat \ {0}
  /\ DeviceRange \in Nat \ {0, 1}

End(r) == r.start + r.length - 1
Sectors(r) == r.start .. End(r)
Region(first, last) == [start |-> first, length |-> last - first + 1]

Numbers(t) == {t[p].number : p \in DOMAIN t}
OfType(t, type) == {p \in DOMAIN t : t[p].type = type}
Regions(t, S) == {t[p].region : p \in S}

-----------------------------------------------------------------------------
(* Region::Impl::unused_regions                                            *)

\* The used regions are passed in order of their starts; in front of each there may
\* be a gap, from the first sector behind all those passed before. A last region of
\* one sector is not reported (end > start).
UnusedRegions(region, used) ==
  LET inside == {u \in used : End(u) >= region.start /\ u.start <= End(region)}
      behind(S) == Max({region.start} \cup {End(u) + 1 : u \in S})
      gaps == {Region(behind({v \in inside : v.start < u.start}), u.start - 1) : u \in inside}
      last == Region(behind(inside), End(region))
  IN  {r \in gaps : r.length > 0} \cup {r \in {last} : r.length > 1}

-----------------------------------------------------------------------------
(* Alignment::Impl.  Block numbers are unsigned, a difference wraps.       *)

AlignStart(block) ==
  LET b == (block - Offset) % Word
      rest == b % Grain
  IN  IF rest = 0 THEN block ELSE (b + Grain - rest + Offset) % Word

\* The end blocks a region may get: none if it cannot be aligned.
AlignEnd(block) ==
  LET b == (block - Offset) % Word
      rest == ((b + 1) % Word) % Grain
  IN  IF rest > b THEN {} ELSE {(b - rest + Offset) % Word}

\* ALIGN_START_KEEP_END
AlignKeepEnd(r) == LET start == AlignStart(r.start)
                   IN  IF r.length <= start - r.start THEN {} ELSE {Region(start, End(r))}

\* KEEP_START_ALIGN_END
AlignKeepStart(r) == {Region(r.start, e) : e \in {x \in AlignEnd(End(r)) : x + 1 > r.start}}

\* ALIGN_START_AND_END
Align(r) == LET start == AlignStart(r.start)
            IN  {Region(start, e) : e \in {x \in AlignEnd(End(r)) : x + 1 > start}}

-----------------------------------------------------------------------------
(* What a partition table allows                                           *)

\* unusable_sectors of Msdos and Gpt
UnusableFront(pt) == IF pt = "MSDOS" THEN Max({1, MbrGap}) ELSE 2 + GptEntries
UnusableBack(pt) == IF pt = "MSDOS" THEN Max({0, DiskLength - MaxSectors}) ELSE 1 + GptEntries

HasUsableRegion(pt) == DiskLength > UnusableFront(pt) + UnusableBack(pt)
UsableRegion(pt) == Region(UnusableFront(pt), DiskLength - UnusableBack(pt) - 1)

MaxPrimary(pt) == Min({IF pt = "MSDOS" THEN 4 ELSE PartitionSlots, DeviceRange - 1})

MaxLogical(pt) == LET n == Min({256, DeviceRange}) - 1
                  IN  IF pt # "MSDOS" \/ n < 5 THEN 0 ELSE n

\* max_logical() - max_primary(): unsigned ints.
LogicalRoom(pt) == (MaxLogical(pt) - MaxPrimary(pt)) % Word

NumLogical(t) == Cardinality(OfType(t, "LOGICAL"))
HasExtended(t) == OfType(t, "EXTENDED") # {}
Extended(t) == CHOOSE p \in OfType(t, "EXTENDED") : TRUE

PrimaryPossible(pt, t) == Cardinality(DOMAIN t) - NumLogical(t) < MaxPrimary(pt)
LogicalPossible(pt, t) == HasExtended(t) /\ NumLogical(t) < LogicalRoom(pt)

\* first_missing_number(partitions, 1)
FirstMissing(S) == CHOOSE n \in 1 .. Cardinality(S) + 1 : n \notin S /\ \A m \in 1 .. n - 1 : m \in S

-----------------------------------------------------------------------------
(* PartitionTable::Impl::get_unused_partition_slots with                   *)
(* ALIGN_START_KEEP_END.  Partition types that are possible in a slot are  *)
(* its "types".                                                            *)

PrimarySlots(pt, t) ==
  LET others == Regions(t, DOMAIN t \ OfType(t, "LOGICAL"))
      types == IF ~ PrimaryPossible(pt, t) THEN {}
               ELSE {"PRIMARY"} \cup IF pt = "MSDOS" /\ ~ HasExtended(t) THEN {"EXTENDED"} ELSE {}
  IN  IF HasUsableRegion(pt)
      THEN [region : UNION {AlignKeepEnd(r) : r \in UnusedRegions(UsableRegion(pt), others)},
            number : {FirstMissing(Numbers(t))}, types : {types}]
      ELSE {}

\* Mutant of LogicalSlots: no space is kept for the EBR of the next partition.
LogicalSlotsOneEbr(pt, t) ==
  LET extended == t[Extended(t)].region
      adjusted(r) == [start |-> r.start + NumEbrs, length |-> r.length - NumEbrs]
  IN  IF HasExtended(t)
      THEN [region : UNION {AlignKeepEnd(adjusted(r)) :
                              r \in {x \in UnusedRegions(extended, Regions(t, OfType(t, "LOGICAL"))) :
                                       x.length > NumEbrs}},
            number : {MaxPrimary(pt) + NumLogical(t) + 1},
            types : {IF LogicalPossible(pt, t) THEN {"LOGICAL"} ELSE {}}]
      ELSE {}

LogicalSlots(pt, t) ==
  LET extended == t[Extended(t)].region
      ebrs(r) == NumEbrs * IF End(r) = End(extended) THEN 1 ELSE 2
      adjusted(r) == [start |-> r.start + NumEbrs, length |-> r.length - ebrs(r)]
  IN  IF HasExtended(t)
      THEN [region : UNION {AlignKeepEnd(adjusted(r)) :
                              r \in {x \in UnusedRegions(extended, Regions(t, OfType(t, "LOGICAL"))) :
                                       x.length > ebrs(x)}},
            number : {MaxPrimary(pt) + NumLogical(t) + 1},
            types : {IF LogicalPossible(pt, t) THEN {"LOGICAL"} ELSE {}}]
      ELSE {}

UnusedSlots(pt, t) == PrimarySlots(pt, t) \cup LogicalSlots(pt, t)

-----------------------------------------------------------------------------
(* Editing                                                                 *)

\* create_partition: the region is aligned before.
CreatePartition(t, p, type, number, region, listed) ==
  [q \in DOMAIN t \cup {p} |->
     IF q = p THEN [type |-> type, number |-> number, region |-> region,
                    listed |-> listed, active |-> FALSE]
              ELSE t[q]]

Without(t, S) == [q \in DOMAIN t \ S |-> t[q]]

\* The partition and its descendants.
Removed(t, p) == {p} \cup IF t[p].type = "EXTENDED" THEN OfType(t, "LOGICAL") ELSE {}

\* PartitionTable::Impl::delete_partition: the primary and extended partitions
\* behind old that are not in the system take, one after the other, the number
\* of the one before.
CloseGap(t, old, system) ==
  LET shifted == {q \in DOMAIN t : /\ t[q].type # "LOGICAL"
                                   /\ t[q].number > old
                                   /\ q \notin DOMAIN system}
      taken == {old} \cup {t[q].number : q \in shifted}
  IN  [q \in DOMAIN t |->
         IF q \in shifted THEN [t[q] EXCEPT !.number = Max({n \in taken : n < t[q].number})]
                          ELSE t[q]]

\* Msdos::Impl::delete_partition for a logical partition.
ShiftLogicals(t, old) ==
  [q \in DOMAIN t |-> IF t[q].number > old THEN [t[q] EXCEPT !.number = @ - 1] ELSE t[q]]

\* Mutant of DeletePartition: logical partitions keep their numbers.
DeletePartitionNoShift(t, p, system) ==
  LET rest == Without(t, Removed(t, p))
  IN  IF t[p].type = "LOGICAL" THEN rest ELSE CloseGap(rest, t[p].number, system)

DeletePartition(t, p, system) ==
  LET rest == Without(t, Removed(t, p))
  IN  IF t[p].type = "LOGICAL" THEN ShiftLogicals(rest, t[p].number)
                               ELSE CloseGap(rest, t[p].number, system)

\* Mutant of RemoveOK: what is looked at is the partition itself.
RemoveOKItself(t, p) == t[p].type = "LOGICAL" => ~ t[p].active

\* Partition::Impl::detect_remove_info: a logical partition must not be removed
\* if partitions with higher numbers are in use.
RemoveOK(t, p) == t[p].type = "LOGICAL" =>
                    \A q \in DOMAIN t : t[q].number > t[p].number => ~ t[q].active

\* Partition::Impl::detect_resize_info: the last sector a partition may have
\* (get_unused_surrounding_region).
LastSector(pt, t, p) ==
  LET logical == t[p].type = "LOGICAL"
      within == IF logical THEN t[Extended(t)].region
                ELSE IF HasUsableRegion(pt) THEN UsableRegion(pt) ELSE t[p].region
      behind == {q \in DOMAIN t : /\ (t[q].type = "LOGICAL") = logical
                                  /\ t[q].region.start > End(t[p].region)}
  IN  Min({End(within)} \cup {t[q].region.start - 1 : q \in behind})
=============================================================================
