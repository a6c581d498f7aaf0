-------------------------------- MODULE Commit --------------------------------
(***************************************************************************)
(* The life of a Storage object: the system is probed, a client edits      *)
(* staging, the action graph from the system to staging is calculated      *)
(* and committed action by action (Actiongraph::Impl::commit), with        *)
(* failures on which the commit callbacks decide.  The commit ends in      *)
(* tools that change the system: what they need and what they do is the    *)
(* external part of the model.                                             *)
(*                                                                         *)
(* The order of the actions is any one that respects the dependencies:     *)
(* module ActionOrder shows that the order computed by the code does.      *)
(***************************************************************************)
EXTENDS Actiongraph

CONSTANTS Path,          \* the paths clients use for mount points
          PartitionSize, LvSize,   \* the sizes clients choose
          VgName, LvName,
          ActiveChoice,  \* BOOLEAN, or {TRUE}: only active mount points
          Probes,        \* the device graphs the system is probed as at first
          MaxEdits,      \* bound of the calls that edit staging
          MaxIgnored     \* bound of the errors the callbacks ignore

VARIABLES
  probed,    \* the system as it was probed: LHS when the actions are made
  system,    \* the system device graph, kept up to date by the actions
  staging,
  world,     \* the devices that exist; size is the size of the content of a
             \* LUKS, physical volume or filesystem
  mounts,    \* what is mounted, in the order of mounting
  fstab, crypttab,
  phase,
  todo,      \* actions not committed yet
  deps,      \* dependencies between the actions
  clear,     \* history: Clear held whenever actions were calculated
  edits, ignored

vars == <<probed, system, staging, world, mounts, fstab, crypttab, phase, todo, deps,
          clear, edits, ignored>>

SwapPath == <<"swap">>          \* the path of all mount points of swaps

Content == Luks \cup Pv \cup Filesystem

Entry(g, m) == [mp |-> m, fs |-> Parent(g, m), path |-> g[m].name]

\* The lists of the mount points in S with those closer to the root first.
Nested(g, S) ==
  {s \in [1 .. Cardinality(S) -> {Entry(g, m) : m \in S}] :
     /\ {s[i].mp : i \in DOMAIN s} = S
     /\ \A i, j \in DOMAIN s : i < j => Len(s[i].path) <= Len(s[j].path)}

\* A filesystem has one mount point at most ("Anything else is not supported since
\* rejected by the product owner", MountableImpl.cc); that of a swap has its path.
Mountables(g) == /\ \A f \in In(Filesystem, g) : \A m, n \in Children(g, f) : m = n
                 /\ \A m \in In(MountPoint, g) : g[m].parents \subseteq Swap => g[m].name = SwapPath

ASSUME ProbesAssumption ==
  \A g \in Probes : Shape(g) /\ Grounded(g) /\ Opened(g) /\ Mountables(g)
ASSUME PathAssumption == Path \subseteq Seq(STRING)

\* The system that is probed as device graph g, its content as large as can be.
Init == /\ probed \in Probes
        /\ system = probed
        /\ staging = probed
        /\ world = [d \in DOMAIN probed \ MountPoint |->
                      IF d \in Content THEN [probed[d] EXCEPT !.size = Size(probed, Parent(probed, d))]
                                       ELSE probed[d]]
        /\ mounts \in Nested(probed, {m \in In(MountPoint, probed) : probed[m].active})
        /\ fstab = {Entry(probed, m) : m \in {x \in In(MountPoint, probed) : probed[x].listed}}
        /\ crypttab = {l \in In(Luks, probed) : probed[l].listed}
        /\ phase = "edit"
        /\ todo = {}
        /\ deps = {}
        /\ clear = TRUE
        /\ edits = 0
        /\ ignored = 0

-----------------------------------------------------------------------------
(* The client edits staging.                                               *)

Edit(g) == /\ phase = "edit"
           /\ edits < MaxEdits
           /\ staging' = g
           /\ edits' = edits + 1
           /\ UNCHANGED <<probed, system, world, mounts, fstab, crypttab, phase, todo, deps,
                          clear, ignored>>

\* The next storage id.
New(S) == LET free == S \ (DOMAIN staging \cup DOMAIN system)
          IN  IF free = {} THEN {} ELSE {CHOOSE d \in free : TRUE}

\* Devices in staging that something can be put on.
Usable == {b \in In(Partition \cup Lv, staging) : Children(staging, b) = {}}
          \cup {l \in In(Luks, staging) : staging[l].active /\ Children(staging, l) = {}}

PathsInUse == {staging[m].name : m \in In(MountPoint, staging)}

CreatePartitionTable ==
  \E d \in In(Disk, staging), t \in New(Table) :
     Children(staging, d) = {} /\ Edit(create_partition_table(staging, d, t))

CreatePartition ==
  \E t \in In(Table, staging), p \in New(Partition), size \in PartitionSize :
     \E start \in Unused(staging, t, p) :
        /\ start .. start + size - 1 \subseteq Unused(staging, t, p)
        /\ Edit(create_partition(staging, t, p, start, size))

DeletePartition ==
  \E p \in In(Partition, staging) : Edit(delete_partition(staging, system, p))

\* ResizeInfo: a physical volume of the system is not shrunk.
ResizePartition ==
  \E p \in In(Partition, staging), size \in PartitionSize :
     LET resized == set_size(staging, p, size)
     IN  /\ size # staging[p].size
         /\ Blocks(resized[p]) \subseteq Unused(staging, Parent(staging, p), p)
         /\ Descendants(staging, p) \cap Pv \cap DOMAIN system # {} => size > staging[p].size
         /\ Edit(resized)

\* What is moved to the LUKS must not be in the system.
CreateEncryption ==
  \E b \in In(Partition \cup Lv, staging), l \in New(Luks), listed \in BOOLEAN :
     /\ Children(staging, b) \cap (Luks \cup DOMAIN system) = {}
     /\ Edit(create_encryption(staging, b, l, listed))

CreateBlkFilesystem ==
  \E b \in Usable, f \in New(Filesystem) : Edit(create_blk_filesystem(staging, b, f))

RemoveDescendants ==
  \E b \in In(Disk \cup Partition \cup Luks \cup Lv, staging) :
     Children(staging, b) # {} /\ Edit(remove_descendants(staging, b))

CreateMountPoint ==
  \E f \in In(Filesystem, staging), m \in New(MountPoint), path \in Path \ PathsInUse,
     active \in ActiveChoice, listed \in BOOLEAN :
        /\ Children(staging, f) = {}
        /\ f \in Swap <=> path = SwapPath
        /\ Edit(create_mount_point(staging, f, m, path, active, listed))

RemoveMountPoint ==
  \E m \in In(MountPoint, staging) : Edit(Remove(staging, {m}))

SetPath ==
  \E m \in In(MountPoint, staging), path \in Path \ (PathsInUse \cup {SwapPath}) :
     staging[m].name # SwapPath /\ Edit(set_path(staging, m, path))

SetActive ==
  \E m \in In(MountPoint, staging), active \in ActiveChoice :
     staging[m].active # active /\ Edit(set_active(staging, m, active))

SetInEtcFstab ==
  \E m \in In(MountPoint, staging) : Edit(set_in_etc_fstab(staging, m, ~ staging[m].listed))

SetInEtcCrypttab ==
  \E l \in In(Luks, staging) : Edit(set_in_etc_crypttab(staging, l, ~ staging[l].listed))

\* A volume group starts with one physical volume.
CreateLvmVg ==
  \E v \in New(Vg), pv \in New(Pv), name \in VgName, b \in Usable :
     /\ \A w \in In(Vg, staging) : staging[w].name # name
     /\ Edit(add_lvm_pv(create_lvm_vg(staging, v, name), v, b, pv))

AddLvmPv ==
  \E v \in In(Vg, staging), pv \in New(Pv), b \in In(Partition, staging) :
     /\ Children(staging, b) \subseteq {x \in In(Pv, staging) : Children(staging, x) = {}}
     /\ Edit(add_lvm_pv(staging, v, b, pv))

RemoveLvmPv ==
  \E v \in In(Vg, staging) : \E pv \in staging[v].parents :
     Edit(remove_lvm_pv(staging, Parent(staging, pv)))

CreateLvmLv ==
  \E v \in In(Vg, staging), lv \in New(Lv), name \in LvName, size \in LvSize :
     /\ \A x \in Children(staging, v) : staging[x].name # name
     /\ Edit(create_lvm_lv(staging, v, lv, name, size))

ResizeLvmLv ==
  \E lv \in In(Lv, staging), size \in LvSize :
     staging[lv].size # size /\ Edit(set_size(staging, lv, size))

DeleteLvm == \E d \in In(Lv \cup Vg, staging) : Edit(delete_device(staging, d))

EditStaging == \/ CreatePartitionTable \/ CreatePartition \/ DeletePartition \/ ResizePartition
               \/ CreateEncryption \/ CreateBlkFilesystem \/ RemoveDescendants
               \/ CreateMountPoint \/ RemoveMountPoint
               \/ SetPath \/ SetActive \/ SetInEtcFstab \/ SetInEtcCrypttab
               \/ CreateLvmVg \/ AddLvmPv \/ RemoveLvmPv
               \/ CreateLvmLv \/ ResizeLvmLv \/ DeleteLvm

-----------------------------------------------------------------------------
(* What a commit can rely on.                                              *)

\* A path above the other one or equal to it; swaps are not in the tree.
Covers(p, q) == SwapPath \notin {p, q} /\ (p = q \/ Above(p, q))

\* Volume groups have physical volumes and room for their logical volumes.
Consistent(g) == \A v \in In(Vg, g) : g[v].parents # {} /\ Used(g, v) <= Capacity(g, v)

\* The fields of a mount point's block device and filesystem.
On(g, m) == Parent(g, Parent(g, m))

\* Two mount points of which one is unmounted from and the other one is
\* mounted to the same or to nested directories: the dependencies order the
\* actions only if the filesystem is replaced on its device, or if the upper
\* one is mounted again.
PathsClear(L, R, A) ==
  \A u \in {a \in A : a.op = "unmount"}, m \in {a \in A : a.op = "mount"} :
     LET p == L[u.sid].name
         q == R[m.sid].name
     IN  u.sid # m.sid /\ (Covers(p, q) \/ Covers(q, p))
         => \/ On(L, u.sid) = On(R, m.sid)
            \/ Act("mount", u.sid) \in A /\ Above(p, q) /\ Above(R[u.sid].name, q)

\* What is mounted below a directory is unmounted and mounted with it.
NestedClear(L, R, A) ==
  /\ \A u \in {a \in A : a.op = "unmount"}, n \in In(MountPoint, L) :
        L[n].active /\ Covers(L[u.sid].name, L[n].name) => Act("unmount", n) \in A
  /\ \A m \in {a \in A : a.op = "mount"}, n \in In(MountPoint, R) :
        R[n].active /\ Covers(R[m.sid].name, R[n].name) => Act("mount", n) \in A

Lesser(x, y) == IF x < y THEN x ELSE y

\* In a volume group that stays, the physical volumes that stay hold the
\* logical volumes that stay ("only unused extents of physical volume can be
\* removed", LvmVgImpl.cc).  A physical volume of a volume group that is
\* deleted is not added to another one that exists.
VgsClear(L, R) ==
  \A v \in Vg \cap DOMAIN L \cap DOMAIN R :
     LET lvs == Children(L, v) \cap Children(R, v)
         pvs == L[v].parents \cap R[v].parents
     IN  /\ pvs # {}
         /\ Sum(lvs, LAMBDA lv : Lesser(L[lv].size, R[lv].size))
            <= Sum(pvs, LAMBDA pv : Size(L, Parent(L, pv)))
         /\ (R[v].parents \ L[v].parents) \cap DOMAIN L
               \subseteq {pv \in DOMAIN L : Children(L, pv) = {}}

\* The library knows everything that is mounted or in fstab, and the physical
\* volumes fill their devices (an aborted commit can leave smaller ones).
Known(L) ==
  /\ \A pv \in In(Pv, world) : world[pv].size = Size(L, Parent(L, pv))
  /\ {mounts[i] : i \in DOMAIN mounts} = {Entry(L, m) : m \in {x \in In(MountPoint, L) : L[x].active}}
  /\ fstab = {Entry(L, m) : m \in {x \in In(MountPoint, L) : L[x].listed}}

\* The active mount points have paths of their own.
Distinct(g) == \A m, n \in {x \in In(MountPoint, g) : g[x].active /\ g[x].name # SwapPath} :
                  g[m].name = g[n].name => m = n

Clear(L, R, A) == /\ Known(L) /\ Distinct(L) /\ Distinct(R)
                  /\ PathsClear(L, R, A) /\ NestedClear(L, R, A) /\ VgsClear(L, R)

-----------------------------------------------------------------------------
(* Storage::calculate_actiongraph.                                         *)

CalculateActiongraph ==
  /\ phase = "edit"
  /\ Consistent(staging)
  /\ LET C == Chains(system, staging)
         A == Actions(system, staging)
     IN  /\ todo' = A
         /\ deps' = Dependencies(C, A, system, staging)
         /\ clear' = (clear /\ Clear(system, staging, A))
  /\ phase' = IF Throws(system, staging) THEN "thrown" ELSE "commit"
  /\ UNCHANGED <<probed, system, staging, world, mounts, fstab, crypttab, edits, ignored>>

\* The actions whose turn it may be.
Ready == {a \in todo : phase = "commit" /\ \A d \in deps : d[2] = a => d[1] \notin todo}

\* The action is committed.
Done(a) == /\ a \in Ready
           /\ todo' = todo \ {a}
           /\ UNCHANGED <<probed, staging, phase, deps, clear, edits, ignored>>

-----------------------------------------------------------------------------
(* The actions and the tools they use.                                     *)

Mounted(f) == \E i \in DOMAIN mounts : mounts[i].fs = f

\* wipefs, vgremove, lvremove, cryptsetup and the kernel refuse what is in use.
InUse(d) == Mounted(d) \/ \E c \in Children(world, d) :
                             c \in Vg \cup Lv \/ (c \in Luks /\ world[c].active) \/ Mounted(c)

\* The device a LUKS, physical volume or filesystem is created on is there and
\* has nothing on it.
CanCreateContent(d) ==
  \A b \in staging[d].parents : /\ b \in DOMAIN world
                                /\ b \in Luks => world[b].active
                                /\ Children(world, b) = {}

VgCapacity(v) == Sum(world[v].parents, LAMBDA pv : world[pv].size)

CanCreate(d) ==
  LET new == staging[d]
  IN  CASE d \in Table -> Children(world, Parent(staging, d)) = {}
        [] d \in Partition ->
             LET t == Parent(staging, d)
             IN  /\ t \in DOMAIN world
                 /\ Blocks(new) \subseteq Unused(world, t, d)
                 /\ \A c \in Children(world, t) : world[c].name # new.name
        [] d \in Vg -> /\ \A v \in In(Vg, world) : world[v].name # new.name
                       /\ \A pv \in new.parents : pv \in DOMAIN world /\ Children(world, pv) = {}
        [] d \in Lv -> LET v == Parent(staging, d)
                       IN  /\ v \in DOMAIN world
                           /\ \A c \in Children(world, v) : world[c].name # new.name
                           /\ Used(world, v) + new.size <= VgCapacity(v)
        [] OTHER -> CanCreateContent(d)

\* do_create of the device in staging.
CommitCreate(a) ==
  /\ a.op = "create"
  /\ CanCreate(a.sid)
  /\ world' = Add(world, a.sid,
                  [staging[a.sid] EXCEPT
                     !.active = FALSE, !.listed = FALSE,
                     !.size = IF a.sid \in Content THEN world[Parent(staging, a.sid)].size ELSE @])
  /\ Done(a)
  /\ UNCHANGED <<system, mounts, fstab, crypttab>>

CanDelete(d) == d \in DOMAIN world /\ ~ InUse(d) /\ ~ world[d].active

\* do_delete of the device in the system.
CommitDelete(a) ==
  /\ a.op = "delete"
  /\ CanDelete(a.sid)
  /\ world' = [d \in DOMAIN world \ {a.sid} |->
                  IF a.sid \in Pv THEN [world[d] EXCEPT !.parents = @ \ {a.sid}] ELSE world[d]]
  /\ Done(a)
  /\ UNCHANGED <<system, mounts, fstab, crypttab>>

CanActivate(l) == l \in DOMAIN world

CommitActivate(a) ==
  /\ a.op = "activate"
  /\ CanActivate(a.sid)
  /\ world' = [world EXCEPT ![a.sid].active = TRUE]
  /\ Done(a)
  /\ UNCHANGED <<system, mounts, fstab, crypttab>>

CanDeactivate(l) == l \in DOMAIN world /\ ~ InUse(l)

CommitDeactivate(a) ==
  /\ a.op = "deactivate"
  /\ CanDeactivate(a.sid)
  /\ world' = [world EXCEPT ![a.sid].active = FALSE]
  /\ Done(a)
  /\ UNCHANGED <<system, mounts, fstab, crypttab>>

\* The size after a resize: of a partition or logical volume that of staging, of
\* what is on it the size of the device it is on: in staging when it shrinks,
\* the real one when it grows.
Resized(a) == IF a.sid \notin Content THEN staging[a.sid].size
              ELSE IF a.op = "shrink" THEN Size(staging, Parent(staging, a.sid))
              ELSE world[Parent(world, a.sid)].size

CanResize(a) ==
  /\ a.sid \in DOMAIN world
  /\ a.sid \in Partition =>
        LET t == Parent(world, a.sid)
        IN  Blocks([world[a.sid] EXCEPT !.size = Resized(a)]) \subseteq Unused(world, t, a.sid)
  /\ a.sid \in Lv =>
        LET v == Parent(world, a.sid)
        IN  Used(world, v) - world[a.sid].size + Resized(a) <= VgCapacity(v)
  /\ a.sid \in Filesystem /\ Mounted(a.sid) =>
        a.sid \in (IF a.op = "shrink" THEN OnlineShrink ELSE OnlineGrow)

CommitResize(a) ==
  /\ is_resize(a)
  /\ CanResize(a)
  /\ world' = [world EXCEPT ![a.sid].size = Resized(a)]
  /\ Done(a)
  /\ UNCHANGED <<system, mounts, fstab, crypttab>>

\* vgextend takes a physical volume that is in no volume group; vgreduce takes
\* away an unused one that is not the last one.
CanReallot(a) ==
  /\ {a.sid, a.dev} \subseteq DOMAIN world
  /\ a.op = "extend" => Children(world, a.dev) = {}
  /\ a.op = "reduce" => /\ world[a.sid].parents # {a.dev}
                        /\ Used(world, a.sid) + world[a.dev].size <= VgCapacity(a.sid)

CommitReallot(a) ==
  /\ a.op \in {"extend", "reduce"}
  /\ CanReallot(a)
  /\ world' = [world EXCEPT ![a.sid].parents = IF a.op = "extend" THEN @ \cup {a.dev} ELSE @ \ {a.dev}]
  /\ Done(a)
  /\ UNCHANGED <<system, mounts, fstab, crypttab>>

\* The kernel refuses to mount a filesystem a second time at the same place.
CanMount(m) == LET f == Parent(staging, m)
               IN  /\ f \in DOMAIN world
                   /\ \A b \in In(Luks, world) : f \in Children(world, b) => world[b].active
                   /\ \A i \in DOMAIN mounts : mounts[i].fs = f => mounts[i].path # staging[m].name

\* The system device graph knows the mount point only if it was probed.
SetActiveInSystem(m, active) ==
  system' = IF m \in DOMAIN system THEN [system EXCEPT ![m].active = active] ELSE system

\* Mountable::Impl::immediate_activate
CommitMount(a) ==
  /\ a.op = "mount"
  /\ CanMount(a.sid)
  /\ mounts' = Append(mounts, Entry(staging, a.sid))
  /\ SetActiveInSystem(a.sid, TRUE)
  /\ Done(a)
  /\ UNCHANGED <<world, fstab, crypttab>>

\* The entry that swapoff or umount of the path works on, or 0: the last one
\* with the path, unless something is mounted over it or below it.
UnmountIndex(m) ==
  LET path == system[m].name
      candidates == {i \in DOMAIN mounts : IF path = SwapPath THEN mounts[i].mp = m
                                                             ELSE mounts[i].path = path}
      on(i) == \E j \in DOMAIN mounts : /\ j > i
                                        /\ \/ Covers(path, mounts[j].path)
                                           \/ Covers(mounts[j].path, path)
      free == {i \in candidates : ~ on(i)}
  IN  IF free = {} THEN 0 ELSE CHOOSE i \in free : TRUE

\* A failure is ignored when the filesystem is not mounted at present.
CanUnmount(m) == UnmountIndex(m) # 0 \/ ~ Mounted(Parent(system, m))

\* Mutant of CommitUnmount: the device graph of the system is not updated.
CommitUnmountSilently(a) ==
  /\ a.op = "unmount"
  /\ CanUnmount(a.sid)
  /\ LET n == UnmountIndex(a.sid)
     IN  mounts' = IF n = 0 THEN mounts ELSE SubSeq(mounts, 1, n - 1) \o SubSeq(mounts, n + 1, Len(mounts))
  /\ Done(a)
  /\ UNCHANGED <<system, world, fstab, crypttab>>

\* Mountable::Impl::immediate_deactivate
CommitUnmount(a) ==
  /\ a.op = "unmount"
  /\ CanUnmount(a.sid)
  /\ LET n == UnmountIndex(a.sid)
     IN  mounts' = IF n = 0 THEN mounts ELSE SubSeq(mounts, 1, n - 1) \o SubSeq(mounts, n + 1, Len(mounts))
  /\ SetActiveInSystem(a.sid, FALSE)
  /\ Done(a)
  /\ UNCHANGED <<world, fstab, crypttab>>

Without(entries, m) == {e \in entries : e.mp # m}

CommitFstab(a) ==
  /\ \/ /\ a.op \in {"add_fstab", "update_fstab"}
        /\ fstab' = Without(fstab, a.sid) \cup {Entry(staging, a.sid)}
     \/ /\ a.op = "remove_fstab"
        /\ fstab' = Without(fstab, a.sid)
  /\ Done(a)
  /\ UNCHANGED <<system, world, mounts, crypttab>>

CommitCrypttab(a) ==
  /\ \/ /\ a.op = "add_crypttab"
        /\ crypttab' = crypttab \cup {a.sid}
     \/ /\ a.op = "remove_crypttab"
        /\ crypttab' = crypttab \ {a.sid}
  /\ Done(a)
  /\ UNCHANGED <<system, world, mounts, fstab>>

\* The tools of the action do not refuse.
Accepted(a) == CASE a.op = "create" -> CanCreate(a.sid)
                 [] a.op = "delete" -> CanDelete(a.sid)
                 [] a.op = "activate" -> CanActivate(a.sid)
                 [] a.op = "deactivate" -> CanDeactivate(a.sid)
                 [] is_resize(a) -> CanResize(a)
                 [] a.op \in {"extend", "reduce"} -> CanReallot(a)
                 [] a.op = "mount" -> CanMount(a.sid)
                 [] a.op = "unmount" -> CanUnmount(a.sid)
                 [] OTHER -> TRUE

\* The action fails.  Without callbacks, or if they do not ignore the error, the
\* commit is aborted; otherwise it goes on with the next action.
Fail(a) ==
  /\ a \in Ready
  /\ \/ /\ phase' = "aborted"
        /\ UNCHANGED <<todo, ignored>>
     \/ /\ ignored < MaxIgnored
        /\ todo' = todo \ {a}
        /\ ignored' = ignored + 1
        /\ UNCHANGED phase
  /\ UNCHANGED <<probed, system, staging, world, mounts, fstab, crypttab, deps, clear, edits>>

EndCommit == /\ phase = "commit"
             /\ todo = {}
             /\ phase' = "done"
             /\ UNCHANGED <<probed, system, staging, world, mounts, fstab, crypttab, todo, deps,
                            clear, edits, ignored>>

\* The devices that can be found: not those on a device that is gone.
Found ==
  LET lost == {d \in DOMAIN world : \E p \in world[d].parents :
                  p \notin DOMAIN world \/ (p \in Luks /\ ~ world[p].active)}
  IN  DOMAIN world \ UNION {Descendants(world, d) \cup {d} : d \in lost}

\* What is mounted or in fstab of filesystem f; of more than one path, the one
\* the mount point of f gets (Mountable::Impl::probe_pass_2b).
MountedOf(f) == {e \in {mounts[i] : i \in DOMAIN mounts} : e.fs = f}
ListedOf(f) == {e \in fstab : e.fs = f}

SelectedEntry(f) ==
  LET both == {e \in MountedOf(f) : \E l \in ListedOf(f) : l.path = e.path}
      best == IF both # {} THEN both
              ELSE IF MountedOf(f) # {} THEN MountedOf(f)
              ELSE ListedOf(f)
  IN  CHOOSE e \in best : \A x \in best : Len(e.path) <= Len(x.path)

\* What is probed: the devices that are found and one mount point for each
\* filesystem that is mounted or in fstab.
Probed ==
  LET selected == {SelectedEntry(f) : f \in {x \in Filesystem \cap Found :
                                               MountedOf(x) \cup ListedOf(x) # {}}}
      device(d) == [world[d] EXCEPT !.size = IF d \in Content THEN 0 ELSE @,
                                    !.listed = d \in crypttab]
      mount_point(e) == [Blank({e.fs}) EXCEPT
                           !.name = e.path,
                           !.active = e \in MountedOf(e.fs),
                           !.listed = \E l \in ListedOf(e.fs) : l.path = e.path]
  IN  [d \in Found \cup {e.mp : e \in selected} |->
         IF d \in Found THEN device(d)
                        ELSE mount_point(CHOOSE e \in selected : e.mp = d)]

\* Storage::probe: all device graphs are made anew.  (What is not found, and the
\* entries for it, is of no further interest.)
Probe == /\ phase \in {"done", "aborted", "thrown"}
         /\ edits < MaxEdits
         /\ probed' = Probed
         /\ system' = Probed
         /\ staging' = Probed
         /\ phase' = "edit"
         /\ todo' = {}
         /\ deps' = {}
         /\ world' = [d \in Found |-> world[d]]
         /\ fstab' = {e \in fstab : e.fs \in Found}
         /\ crypttab' = crypttab \cap Found
         /\ UNCHANGED <<mounts, clear, edits, ignored>>

CommitAction == \E a \in todo : \/ CommitCreate(a) \/ CommitDelete(a)
                                \/ CommitActivate(a) \/ CommitDeactivate(a)
                                \/ CommitResize(a) \/ CommitReallot(a)
                                \/ CommitMount(a) \/ CommitUnmount(a)
                                \/ CommitFstab(a) \/ CommitCrypttab(a)
                                \/ Fail(a)

Next == EditStaging \/ CalculateActiongraph \/ CommitAction \/ EndCommit \/ Probe

Spec == Init /\ [][Next]_vars

-----------------------------------------------------------------------------

IsGraph(g) == /\ DOMAIN g \subseteq Device
              /\ \A d \in DOMAIN g : /\ g[d].parents \subseteq DOMAIN g
                                     /\ g[d].size \in Nat
                                     /\ g[d].start \in Nat
                                     /\ {g[d].active, g[d].listed} \subseteq BOOLEAN

TypeOK == /\ IsGraph(probed) /\ IsGraph(system) /\ IsGraph(staging)
          /\ DOMAIN world \subseteq Device \ MountPoint
          /\ \A i \in DOMAIN mounts : mounts[i].mp \in MountPoint /\ mounts[i].fs \in Filesystem
          /\ \A e \in fstab : e.mp \in MountPoint
          /\ crypttab \subseteq Luks
          /\ phase \in {"edit", "commit", "done", "aborted", "thrown"}

\* No error was ignored so far, and what Clear demands was so.
Undisturbed == ignored = 0 /\ clear

\* The constructor of Actiongraph finds an order for whatever the client edits:
\* the dependencies of the device types, of the dependency managers, of the
\* actions and of the mounts together have no cycle, and every parent that is
\* new has a create action.
NeverThrows == phase = "thrown" => ~ clear

\* Whatever order the dependencies allow, no tool refuses its work because an
\* action that it needs comes later or one that is in its way came before.
NeverRefused == Undisturbed => \A a \in Ready : Accepted(a)

\* No content is ever cut off, wherever the commit stops: filesystems and
\* physical volumes are shrunk before what they are on and grown after it.
ContentFits ==
  Undisturbed => /\ \A d \in In(Content, world) : world[d].size <= world[Parent(world, d)].size
                 /\ \A v \in In(Vg, world) : Used(world, v) <= VgCapacity(v)

\* Every legal staging can be committed: the calculation of the actions does not
\* throw and, whatever order the dependencies allow, every tool finds what it needs
\* and cuts nothing off.
Committable == NeverThrows /\ NeverRefused /\ ContentFits

\* Cardinal rules (doc/action-dependencies.md): children are deleted before
\* their parents and created after their parents.  At every point of the
\* commit, so also when it is aborted, nothing exists without its parents and
\* nothing is on a closed LUKS.
CardinalRules ==
  Undisturbed => \A d \in DOMAIN world : \A p \in world[d].parents :
                    p \in DOMAIN world /\ (p \in Luks => world[p].active)

\* No mount ever hides another one.
NothingHidden ==
  Undisturbed => \A i, j \in DOMAIN mounts :
                    i < j => ~ Covers(mounts[j].path, mounts[i].path)

\* The system device graph, which the library uses to find out whether it has
\* to mount, knows what is mounted, also after failures.
SystemCurrent ==
  clear => \A m \in In(MountPoint, system) :
              system[m].active <=> \E i \in DOMAIN mounts : mounts[i].mp = m

Dangling == {e \in fstab : e.fs \notin DOMAIN world}

\* Entries of mount points that are active are added after the filesystem was
\* created and removed before it is deleted: a reboot after an aborted commit
\* finds the filesystems of fstab.  (Nothing orders the entries of mount points
\* that are not active.)
FstabCurrent ==
  [][Undisturbed => \A e \in Dangling' \ Dangling :
                      \/ e.mp \in DOMAIN probed /\ ~ probed[e.mp].active
                      \/ e.mp \in DOMAIN staging /\ ~ staging[e.mp].active]_vars

Bare(r) == [parents |-> r.parents, start |-> r.start, name |-> r.name, active |-> r.active]

\* "During commit ... the system is modified to match staging"
\* (doc/devicegraphs.md): a commit without ignored errors ends with the devices,
\* the mounts and the tables of staging, and what is on a resized device fills it.
MatchesStaging ==
  LET devices == DOMAIN staging \ MountPoint
      mps == In(MountPoint, staging)
  IN  /\ DOMAIN world = devices
      /\ \A d \in devices : /\ Bare(world[d]) = Bare(staging[d])
                            /\ d \notin Content => world[d].size = staging[d].size
      /\ \A d \in Content \cap devices \cap DOMAIN probed :
            LET now == Size(staging, Parent(staging, d))
            IN  Size(probed, Parent(probed, d)) # now => world[d].size = now
      /\ {mounts[i] : i \in DOMAIN mounts} = {Entry(staging, m) : m \in {x \in mps : staging[x].active}}
      /\ fstab = {Entry(staging, m) : m \in {x \in mps : staging[x].listed}}
      /\ crypttab = {l \in In(Luks, staging) : staging[l].listed}

\* EndsAsStaging: what MatchesStaging says is so after the last action of every commit
\* without ignored errors.
EndsAsStaging == phase = "done" /\ Undisturbed => MatchesStaging

\* What is legal can be committed in every order the dependencies allow and ends
\* as staging has it.
ReachesStaging == Committable /\ EndsAsStaging
=============================================================================
