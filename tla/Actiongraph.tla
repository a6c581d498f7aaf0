----------------------------- MODULE Actiongraph -----------------------------
(***************************************************************************)
(* The constructor of Actiongraph::Impl (storage/ActiongraphImpl.cc): the  *)
(* actions that lead from a device graph L (LHS, the system) to a device   *)
(* graph R (RHS, staging) and the dependencies between them.               *)
(*                                                                         *)
(* An action is identified by what it does, so mount and unmount actions   *)
(* that are inserted more than once are one element of the set, with the   *)
(* dependencies of all of them (remove_duplicates).  Actions that only     *)
(* set attributes, sync-only actions and the special order of DASDs are    *)
(* left out.                                                               *)
(***************************************************************************)
EXTENDS Devicegraph

CONSTANTS Swap,          \* filesystems of type swap
          OnlineShrink,  \* filesystems with supports_mounted_shrink
          OnlineGrow     \* filesystems with supports_mounted_grow

ASSUME FilesystemAssumption ==
  Swap \cup OnlineShrink \cup OnlineGrow \subseteq Filesystem

\* An action of the device sid.  dev is the device that a reallot adds or
\* removes.
Act(op, sid) == [op |-> op, sid |-> sid, dev |-> sid]
Reallot(op, sid, dev) == [op |-> op, sid |-> sid, dev |-> dev]

\* Action::Mount is derived from Action::Create, Action::Unmount from
\* Action::Delete.
is_create(a) == a.op \in {"create", "mount"}
is_delete(a) == a.op \in {"delete", "unmount"}
is_resize(a) == a.op \in {"shrink", "grow"}

Elements(s) == {s[i] : i \in DOMAIN s}

-----------------------------------------------------------------------------
(* Chains of actions.  Each is added by add_chain(), which marks the first *)
(* and the last action.  Of an action that is in two chains the marks of   *)
(* the one with the lower rank survive: remove_duplicates keeps the vertex *)
(* that was added first.                                                   *)

When(condition, op, d) == IF condition THEN <<Act(op, d)>> ELSE << >>

Chain(rank, actions) == [rank |-> rank, actions |-> actions, last |-> Len(actions)]

\* add_create_actions of Device, Encryption and MountPoint.  For an encryption
\* the last action is always its activation.
CreateChain(R, d) ==
  CASE d \in MountPoint -> Chain(1, When(R[d].active, "mount", d) \o When(R[d].listed, "add_fstab", d))
    [] d \in Luks -> [rank |-> 1, last |-> 2,
                      actions |-> <<Act("create", d), Act("activate", d)>>
                                  \o When(R[d].listed, "add_crypttab", d)]
    [] OTHER -> Chain(1, <<Act("create", d)>>)

\* Mutant of DeleteChain: unmount before the entry is removed.
DeleteChainSwapped(L, d) ==
  Chain(4, CASE d \in MountPoint -> When(L[d].active, "unmount", d) \o When(L[d].listed, "remove_fstab", d)
             [] d \in Luks -> When(L[d].listed, "remove_crypttab", d)
                              \o When(L[d].active, "deactivate", d) \o <<Act("delete", d)>>
             [] OTHER -> <<Act("delete", d)>>)

\* add_delete_actions of Device, Encryption and MountPoint.
DeleteChain(L, d) ==
  Chain(4, CASE d \in MountPoint -> When(L[d].listed, "remove_fstab", d) \o When(L[d].active, "unmount", d)
             [] d \in Luks -> When(L[d].listed, "remove_crypttab", d)
                              \o When(L[d].active, "deactivate", d) \o <<Act("delete", d)>>
             [] OTHER -> <<Act("delete", d)>>)

\* Mutant of MountPointChain: the entry in fstab keeps the old path.
MountPointChainStale(L, R, m) ==
  LET moved == L[m].name # R[m].name
  IN  Chain(3, When(L[m].listed /\ ~ R[m].listed, "remove_fstab", m)
               \o When(L[m].active /\ (~ R[m].active \/ moved), "unmount", m)
               \o When(R[m].active /\ (~ L[m].active \/ moved), "mount", m)
               \o When(~ L[m].listed /\ R[m].listed, "add_fstab", m))

\* MountPoint::Impl::add_modify_actions
MountPointChain(L, R, m) ==
  LET moved == L[m].name # R[m].name
  IN  Chain(3, When(L[m].listed /\ ~ R[m].listed, "remove_fstab", m)
               \o When(L[m].active /\ (~ R[m].active \/ moved), "unmount", m)
               \o When(L[m].listed /\ R[m].listed /\ moved, "update_fstab", m)
               \o When(R[m].active /\ (~ L[m].active \/ moved), "mount", m)
               \o When(~ L[m].listed /\ R[m].listed, "add_fstab", m))

\* What is on b and has to be resized with it, from b up.  (One device at most
\* is on a LUKS or on a partition.)
LuksOn(g, b) == Children(g, b) \cap Luks
ContentOn(g, b) ==
  Children(g, IF LuksOn(g, b) = {} THEN b ELSE CHOOSE l \in LuksOn(g, b) : TRUE)
    \cap (Pv \cup Filesystem)

devices_to_resize(g, b) == LuksOn(g, b) \cup ContentOn(g, b)

One(op, S) == IF S = {} THEN << >> ELSE <<Act(op, CHOOSE x \in S : TRUE)>>

\* insert_mount_action and insert_unmount_action, for those of S in g and h.
InsertMountAction(op, g, h, S) ==
  One(op, {m \in MountPoint \cap DOMAIN g :
             g[m].active /\ g[m].parents \subseteq S \cap Filesystem \cap DOMAIN h})

Shrinks(L, R, b) == One("shrink", ContentOn(L, b) \cap DOMAIN R)
                    \o One("shrink", LuksOn(L, b) \cap DOMAIN R)
Grows(L, R, b) == One("grow", LuksOn(R, b) \cap DOMAIN L)
                  \o One("grow", ContentOn(R, b) \cap DOMAIN L)

\* Mutant of ResizeChain: the device is shrunk before what is on it.
ResizeChainDeviceFirst(L, R, b) ==
  Chain(2, IF Size(R, b) < Size(L, b) THEN <<Act("shrink", b)>> \o Shrinks(L, R, b)
                                      ELSE <<Act("grow", b)>> \o Grows(L, R, b))

\* BlkDevice::Impl::add_modify_actions for a partition or a logical volume
\* whose size changes.
ResizeChain(L, R, b) ==
  LET shrink == Size(R, b) < Size(L, b)
      onL == devices_to_resize(L, b)
      onR == devices_to_resize(R, b)
      unmount == ~ onR \cap Filesystem \subseteq (IF shrink THEN OnlineShrink ELSE OnlineGrow)
  IN  Chain(2, (IF unmount THEN InsertMountAction("unmount", L, R, onL) ELSE << >>)
               \o (IF shrink THEN Shrinks(L, R, b) \o <<Act("shrink", b)>>
                             ELSE <<Act("grow", b)>> \o Grows(L, R, b))
               \o (IF unmount THEN InsertMountAction("mount", R, L, onR) ELSE << >>))

\* get_device_actions
Chains(L, R) ==
  {CreateChain(R, d) : d \in DOMAIN R \ DOMAIN L}
  \cup {DeleteChain(L, d) : d \in DOMAIN L \ DOMAIN R}
  \cup {MountPointChain(L, R, m) : m \in MountPoint \cap DOMAIN L \cap DOMAIN R}
  \cup {ResizeChain(L, R, b) : b \in {x \in (Partition \cup Lv) \cap DOMAIN L \cap DOMAIN R :
                                         Size(L, x) # Size(R, x)}}

\* Actions added with add_vertex(), which are neither first nor last:
\* Device::Impl::add_reallot_actions and Encryption::Impl::add_modify_actions.
Singles(L, R) ==
  LET common == DOMAIN L \cap DOMAIN R
      reallots(d) == {Reallot("extend", d, p) : p \in R[d].parents \ L[d].parents}
                     \cup {Reallot("reduce", d, p) : p \in L[d].parents \ R[d].parents}
  IN  (UNION {reallots(d) : d \in common})
      \cup {Act("add_crypttab", l) : l \in {x \in common \cap Luks : ~ L[x].listed /\ R[x].listed}}
      \cup {Act("remove_crypttab", l) : l \in {x \in common \cap Luks : L[x].listed /\ ~ R[x].listed}}

Actions(L, R) == (UNION {Elements(c.actions) : c \in Chains(L, R)}) \cup Singles(L, R)

-----------------------------------------------------------------------------
(* Dependencies: <<a, b>> if a comes before b.  C are the chains and A the *)
(* actions.                                                                *)

ChainDependencies(C) ==
  UNION {{<<c.actions[i], c.actions[i + 1]>> : i \in 1 .. Len(c.actions) - 1} : c \in C}

\* The chains whose marks count for action a.
Marking(C, a) == LET holding == {c \in C : a \in Elements(c.actions)}
                 IN  {c \in holding : \A b \in holding : c.rank <= b.rank}

\* actions_with_sid(d, ONLY_FIRST) and actions_with_sid(d, ONLY_LAST)
FirstActions(C, A, d) ==
  {a \in A : a.sid = d /\ \E c \in Marking(C, a) : c.actions[1] = a}
LastActions(C, A, d) ==
  {a \in A : a.sid = d /\ \E c \in Marking(C, a) : c.actions[c.last] = a}

\* Create::add_device_dependencies: after the last action of a parent that is
\* new, and after the deletion of what was on a parent that is not.  (A new
\* device has one last action.)
CreateDependencies(C, A, L, R) ==
  UNION {LET new == R[a.sid].parents \ DOMAIN L
             old == IF a.sid \in Partition THEN {} ELSE R[a.sid].parents \cap DOMAIN L
             deleted == UNION {Children(L, p) : p \in old}
         IN  {<<b, a>> : b \in UNION {LastActions(C, A, p) : p \in new}}
             \cup {<<b, a>> : b \in {x \in UNION {LastActions(C, A, d) : d \in deleted} :
                                        is_delete(x)}}
         : a \in {x \in A : is_create(x)}}

\* "no parent create action" is thrown.
NoParentCreateAction(C, A, L, R) ==
  \E a \in {x \in A : is_create(x)} :
     \E p \in R[a.sid].parents \ DOMAIN L : LastActions(C, A, p) = {}

\* Mutant of DeleteDependencies.
NoDeleteDependencies(C, A, L) == {}

\* Delete::add_device_dependencies
DeleteDependencies(C, A, L) ==
  UNION {{<<a, b>> : b \in UNION {FirstActions(C, A, p) : p \in L[a.sid].parents}}
         : a \in {x \in A : is_delete(x)}}

\* Resize::add_dependencies
ResizeDependencies(A, R) ==
  {p \in {x \in A : is_resize(x)} \X {x \in A : is_create(x)} :
     p[2].sid \in Children(R, p[1].sid)}

\* Reallot::add_dependencies
ReallotDependencies(C, A) ==
  (UNION {{<<a, b>> : b \in FirstActions(C, A, a.dev)} : a \in {x \in A : x.op = "reduce"}})
  \cup
  (UNION {{<<b, a>> : b \in LastActions(C, A, a.dev)
                            \cup {x \in A : x.op = "reduce" /\ x.dev = a.dev}}
          : a \in {x \in A : x.op = "extend"}})

\* mount_root_filesystem
MountRoot(A, R) == {a \in A : a.op = "mount" /\ R[a.sid].name = << >>}

Swaps(g, a) == g[a.sid].parents \subseteq Swap

\* AddToEtcFstab::add_dependencies (for swap only) and
\* AddToEtcCrypttab::add_dependencies
EtcDependencies(A, R) ==
  MountRoot(A, R) \X {a \in A : \/ a.op = "add_crypttab"
                                \/ a.op = "add_fstab" /\ Swaps(R, a)}

\* A directory above the other one.
Above(p, q) == Len(p) < Len(q) /\ p = SubSeq(q, 1, Len(p))

\* find_mount_parent: of those above a directory the closest one.
MountParents(M, g) ==
  LET above(b) == {a \in M : Above(g[a.sid].name, g[b.sid].name)}
      closest(b) == {a \in above(b) :
                       \A c \in above(b) : Len(g[c.sid].name) <= Len(g[a.sid].name)}
  IN  UNION {{<<a, b>> : a \in closest(b)} : b \in M}

Reversed(pairs) == {<<p[2], p[1]>> : p \in pairs}

\* Mutant of MountDependencies: mounts and unmounts the other way round.
MountDependenciesReversed(A, L, R) ==
  Reversed(MountParents({a \in A : a.op = "mount" /\ ~ Swaps(R, a)}, R))
  \cup MountParents({a \in A : a.op = "unmount" /\ ~ Swaps(L, a)}, L)

\* add_mount_dependencies
MountDependencies(A, L, R) ==
  MountParents({a \in A : a.op = "mount" /\ ~ Swaps(R, a)}, R)
  \cup Reversed(MountParents({a \in A : a.op = "unmount" /\ ~ Swaps(L, a)}, L))

\* Where PartitionTable::Impl::run_dependency_manager puts an action.
Position(a, L, R) == CASE a.op = "shrink" -> <<1, L[a.sid].name>>
                       [] a.op = "delete" -> <<2, - L[a.sid].name>>
                       [] a.op = "create" -> <<3, R[a.sid].name>>
                       [] a.op = "grow" -> <<4, R[a.sid].name>>

\* The actions on the partitions of one partition table are in a chain.
PartitionTableDependencies(A, L, R) ==
  LET table(a) == IF a.op = "delete" THEN L[a.sid].parents ELSE R[a.sid].parents
      actions == {a \in A : a.sid \in Partition}
      before(x, y) == x[1] < y[1] \/ (x[1] = y[1] /\ x[2] < y[2])
  IN  {p \in actions \X actions :
         /\ table(p[1]) = table(p[2])
         /\ before(Position(p[1], L, R), Position(p[2], L, R))}

\* Mutant of VgDependencies: only what frees space comes first.
VgDependenciesFreeing(A, L, R) ==
  UNION {{<<a, b>> : b \in {x \in A : x.op \in {"extend", "reduce"} /\ L[a.sid].parents = {x.sid}}}
         : a \in {x \in A : x.sid \in Lv /\ x.op \in {"delete", "shrink"}}}

\* LvmVg::Impl::add_dependencies: first what frees space in the volume group,
\* then what changes its physical volumes, then what uses space.
VgDependencies(A, L, R) ==
  UNION {LET decrease == {a \in A : a.sid \in Lv /\ a.op \in {"delete", "shrink"}
                                    /\ v \in L[a.sid].parents}
             change == {a \in A : \/ a.op \in {"extend", "reduce"} /\ a.sid = v
                                  \/ is_resize(a) /\ a.sid \in R[v].parents}
             increase == {a \in A : a.sid \in Lv /\ a.op \in {"create", "grow"}
                                    /\ v \in R[a.sid].parents}
         IN  (decrease \X change) \cup (change \X increase)
             \cup (IF change = {} THEN decrease \X increase ELSE {})
         : v \in Vg \cap DOMAIN R}

\* LvmVg::Impl::run_dependency_manager: delete a volume group before another
\* with its name is created.
VgNameDependencies(A, L, R) ==
  LET of(op) == {a \in A : a.op = op /\ a.sid \in Vg}
  IN  {p \in of("delete") \X of("create") : L[p[1].sid].name = R[p[2].sid].name}

\* add_dependencies
Dependencies(C, A, L, R) ==
  ChainDependencies(C) \cup VgDependencies(A, L, R)
  \cup PartitionTableDependencies(A, L, R) \cup VgNameDependencies(A, L, R)
  \cup CreateDependencies(C, A, L, R) \cup DeleteDependencies(C, A, L)
  \cup ResizeDependencies(A, R) \cup ReallotDependencies(C, A)
  \cup EtcDependencies(A, R) \cup MountDependencies(A, L, R)

\* The actions that stay when actions without a predecessor are taken away
\* until there is none: prioritised_topological_sort cannot order them.
Circular(A, deps) ==
  LET rest[n \in 0 .. Cardinality(A)] ==
        IF n = 0 THEN A
        ELSE LET r == rest[n - 1]
             IN  {a \in r : \E d \in deps : d[1] \in r /\ d[2] = a}
  IN  rest[Cardinality(A)]

\* The constructor throws.
Throws(L, R) ==
  LET C == Chains(L, R)
      A == Actions(L, R)
  IN  \/ \E p \in Partition \cap DOMAIN L \cap DOMAIN R : L[p].start # R[p].start
      \/ NoParentCreateAction(C, A, L, R)
      \/ Circular(A, Dependencies(C, A, L, R)) # {}
=============================================================================
