----------------------------- MODULE Devicegraph -----------------------------
(***************************************************************************)
(* Device graphs (storage/DevicegraphImpl.cc, storage/Devices/) and the    *)
(* functions a client edits them with.  A device graph is a function from  *)
(* the devices in it (their storage ids) to records: "parents" are the     *)
(* sources of the holders to the device, the other fields the attributes   *)
(* that end up in actions.                                                 *)
(*                                                                         *)
(* Sizes are counted in an arbitrary unit; a LUKS has the size of the      *)
(* device it is on (its header is not counted).                            *)
(***************************************************************************)
EXTENDS Integers, FiniteSets, Sequences, TLC

CONSTANTS Disk, Table, Partition, Luks, Pv, Vg, Lv, Filesystem, MountPoint

Blk == Disk \cup Partition \cup Luks \cup Lv

Device == Blk \cup Table \cup Pv \cup Vg \cup Filesystem \cup MountPoint

\* A device is of one class.
ASSUME ClassAssumption ==
  /\ Disk \cap (Table \cup Partition \cup Luks \cup Pv \cup Vg \cup Lv \cup Filesystem \cup MountPoint) = {}
  /\ Table \cap (Partition \cup Luks \cup Pv \cup Vg \cup Lv \cup Filesystem \cup MountPoint) = {}
  /\ Partition \cap (Luks \cup Pv \cup Vg \cup Lv \cup Filesystem \cup MountPoint) = {}
  /\ Luks \cap (Pv \cup Vg \cup Lv \cup Filesystem \cup MountPoint) = {}
  /\ Pv \cap (Vg \cup Lv \cup Filesystem \cup MountPoint) = {}
  /\ Vg \cap (Lv \cup Filesystem \cup MountPoint) = {}
  /\ Lv \cap (Filesystem \cup MountPoint) = {}
  /\ Filesystem \cap MountPoint = {}

\* size: of a disk, partition or logical volume.  start: of a partition.
\* name: the number of a partition, the name of a volume group or logical
\* volume, the path of a mount point (a sequence, << >> for "/").
\* active: of a LUKS or a mount point.  listed: the mount point is in
\* /etc/fstab, the LUKS in /etc/crypttab.
Blank(parents) == [parents |-> parents, size |-> 0, start |-> 0, name |-> 0,
                   active |-> FALSE, listed |-> FALSE]

In(S, g) == S \cap DOMAIN g

Children(g, d) == {c \in DOMAIN g : d \in g[c].parents}

Parent(g, d) == CHOOSE p \in g[d].parents : TRUE

\* descendants(vertex, false, View::REMOVE)
Descendants(g, d) ==
  LET down[n \in 0 .. Cardinality(DOMAIN g)] ==
        IF n = 0 THEN {d}
        ELSE LET s == down[n - 1] IN s \cup UNION {Children(g, c) : c \in s}
  IN  down[Cardinality(DOMAIN g)] \ {d}

\* remove_vertex for each of S: the holders disappear with the devices.
Remove(g, S) == [d \in DOMAIN g \ S |-> [g[d] EXCEPT !.parents = @ \ S]]

Size(g, b) == IF b \in Luks THEN g[Parent(g, b)].size ELSE g[b].size

Sum(S, f(_)) ==
  LET sum[T \in SUBSET S] ==
        IF T = {} THEN 0
        ELSE LET x == CHOOSE x \in T : TRUE IN f(x) + sum[T \ {x}]
  IN  sum[S]

\* The size of a volume group (LvmVg::Impl::calculate_region) and what its
\* logical volumes use.
Capacity(g, v) == Sum(g[v].parents, LAMBDA pv : Size(g, Parent(g, pv)))
Used(g, v) == Sum(Children(g, v), LAMBDA lv : g[lv].size)

Blocks(r) == r.start .. r.start + r.size - 1

\* The blocks of the disk of table t that no partition but p uses.
Unused(g, t, p) ==
  (0 .. g[Parent(g, t)].size - 1) \ UNION {Blocks(g[c]) : c \in Children(g, t) \ {p}}

-----------------------------------------------------------------------------
(* The graphs the library handles.                                         *)

\* What a device may be on.
MayBeOn(d, p) == \/ d \in Table /\ p \in Disk
                 \/ d \in Partition /\ p \in Table
                 \/ d \in Luks /\ p \in Partition \cup Lv
                 \/ d \in Pv \cup Filesystem /\ p \in Blk
                 \/ d \in Vg /\ p \in Pv
                 \/ d \in Lv /\ p \in Vg
                 \/ d \in MountPoint /\ p \in Filesystem

\* All but disks and volume groups are on one device; mount points have paths.
Placed(g, d) == /\ \A p \in g[d].parents : p \in DOMAIN g /\ MayBeOn(d, p)
                /\ d \notin Disk \cup Vg => \E b \in DOMAIN g : g[d].parents = {b}
                /\ d \in MountPoint => g[d].name \in Seq(STRING)

\* A block device has one device only on it.
Exclusive(g) == \A b \in In(Blk, g) : \A c1, c2 \in Children(g, b) : c1 = c2

Shape(g) == /\ IsFiniteSet(DOMAIN g) /\ DOMAIN g \subseteq Device
            /\ \A d \in DOMAIN g : DOMAIN g[d] = DOMAIN Blank({}) /\ Placed(g, d)
            /\ Exclusive(g)

\* Among any devices is one that is on no other one of them: no cycles.
Grounded(g) == \A S \in (SUBSET DOMAIN g) \ {{}} : \E d \in S : g[d].parents \cap S = {}

\* What is on a LUKS can be found only if it is active.
Opened(g) == \A d \in DOMAIN g : \A l \in g[d].parents \cap Luks : g[l].active

-----------------------------------------------------------------------------
(* The functions clients call.                                             *)

\* add_vertex and add_edge: device d, as r says, to g.
Add(g, d, r) == [x \in DOMAIN g \cup {d} |-> IF x = d THEN r ELSE g[x]]

\* first_missing_number
FreeNumber(g, t) ==
  CHOOSE n \in 1 .. Cardinality(Children(g, t)) + 1 :
     /\ \A c \in Children(g, t) : g[c].name # n
     /\ \A m \in 1 .. n - 1 : \E c \in Children(g, t) : g[c].name = m

create_partition(g, t, p, start, size) ==
  Add(g, p, [Blank({t}) EXCEPT !.start = start, !.size = size, !.name = FreeNumber(g, t)])

\* On GPT the numbers of the partitions behind that are not in the system move
\* down, each to the number of the one before.
delete_partition(g, system, p) ==
  LET rest == Remove(g, Descendants(g, p) \cup {p})
      moving == {c \in Children(rest, Parent(g, p)) : /\ g[c].name > g[p].name
                                                      /\ c \notin DOMAIN system}
      number(c) ==
        LET lower == {g[b].name : b \in {x \in moving : g[x].name < g[c].name}}
        IN  CHOOSE n \in lower \cup {g[p].name} : \A m \in lower : m <= n
  IN  [c \in DOMAIN rest |-> IF c \in moving THEN [rest[c] EXCEPT !.name = number(c)]
                                             ELSE rest[c]]

set_size(g, b, size) == [g EXCEPT ![b].size = size]

create_partition_table(g, disk, t) == Add(g, t, Blank({disk}))

create_blk_filesystem(g, b, f) == Add(g, f, Blank({b}))

\* The children of b become children of the new LUKS.
create_encryption(g, b, l, listed) ==
  LET moved == [d \in DOMAIN g |-> IF d \in Children(g, b) THEN [g[d] EXCEPT !.parents = {l}]
                                                           ELSE g[d]]
  IN  Add(moved, l, [Blank({b}) EXCEPT !.active = TRUE, !.listed = listed])

create_mount_point(g, f, m, path, active, listed) ==
  Add(g, m, [Blank({f}) EXCEPT !.name = path, !.active = active, !.listed = listed])

set_path(g, m, path) == [g EXCEPT ![m].name = path]

set_active(g, m, active) == [g EXCEPT ![m].active = active]

set_in_etc_fstab(g, m, listed) == [g EXCEPT ![m].listed = listed]

set_in_etc_crypttab(g, l, listed) == [g EXCEPT ![l].listed = listed]

remove_descendants(g, d) == Remove(g, Descendants(g, d))

\* LvmVg::create.
create_lvm_vg(g, v, name) == Add(g, v, [Blank({}) EXCEPT !.name = name])

\* A physical volume of b that is in no volume group is taken, otherwise pv is
\* created.
add_lvm_pv(g, v, b, pv) ==
  IF Children(g, b) = {}
  THEN [Add(g, pv, Blank({b})) EXCEPT ![v].parents = @ \cup {pv}]
  ELSE [g EXCEPT ![v].parents = @ \cup Children(g, b)]

\* Only the vertex of the physical volume is removed.
remove_lvm_pv(g, b) == Remove(g, Children(g, b))

create_lvm_lv(g, v, lv, name, size) ==
  Add(g, lv, [Blank({v}) EXCEPT !.name = name, !.size = size])

\* delete_lvm_lv, and remove_device after remove_descendants in general.
delete_device(g, d) == Remove(g, Descendants(g, d) \cup {d})
=============================================================================
