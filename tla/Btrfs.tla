---------------------------------- MODULE Btrfs ----------------------------------
(***************************************************************************)
(* A Btrfs on a disk with its subvolumes, its default subvolume and its    *)
(* quota groups (Filesystems/BtrfsImpl.cc, BtrfsSubvolumeImpl.cc,          *)
(* BtrfsQgroupImpl.cc, Holders/BtrfsQgroupRelationImpl.cc), from the edits *)
(* of a client to the end of a commit.  Some of what staging has is made   *)
(* or removed by btrfs itself, along with something else: its actions only *)
(* synchronise, do nothing or are not there at all.  Ids of subvolumes are *)
(* not known before they are created.                                      *)
(*                                                                         *)
(* Devices of the Btrfs, snapshots, mount points and labels are left out.  *)
(***************************************************************************)
EXTENDS Naturals, Sequences, FiniteSets, FiniteSetsExt, SequencesExt

CONSTANTS Name,        \* names of subvolumes in their parents
          QgroupId,    \* <<level, number>>, the ids clients choose, of levels above 0
          Limit,       \* limits of quota groups; 0 is none
          Probes,      \* what may be on disk at first
          MaxEdits     \* bound of the calls that edit staging

VARIABLES
  disk,      \* what is on disk, by the ids of btrfs
  nextId,    \* the id of the next subvolume
  system, staging,   \* the device graphs, by storage ids
  phase,     \* "edit" or "commit"
  todo,      \* actions not committed yet
  edits

vars == <<disk, nextId, system, staging, phase, todo, edits>>

TopId == 5
FirstId == 256

\* Instead of a storage id or an id; also BtrfsSubvolume::Impl::unknown_id.
None == 0

Put(f, x, y) == [z \in DOMAIN f \cup {x} |-> IF z = x THEN y ELSE f[z]]
Without(f, S) == [z \in DOMAIN f \ S |-> f[z]]

-----------------------------------------------------------------------------
(* Device graphs                                                           *)
(*   btrfs, default   storage ids, or None                                 *)
(*   subs             by storage id: parent, name and id of subvolumes     *)
(*   qgroups          by storage id: id and limit of quota groups          *)
(*   owns, rel        BtrfsQgroupRelation: of a subvolume and its quota    *)
(*                    group, of a quota group and one it is assigned to    *)

Empty == << >>

NoBtrfs == [btrfs |-> None, quota |-> FALSE, default |-> None, subs |-> Empty,
            qgroups |-> Empty, owns |-> {}, rel |-> {}]

Sids(g) == ({g.btrfs} \ {None}) \cup DOMAIN g.subs \cup DOMAIN g.qgroups

Top(g) == CHOOSE s \in DOMAIN g.subs : g.subs[s].id = TopId

Owners(g, q) == {s \in DOMAIN g.subs : <<s, q>> \in g.owns}
OwnQgroups(g, s) == {q \in DOMAIN g.qgroups : <<s, q>> \in g.owns}

\* g as it is on disk.
OnDisk(g) ==
  LET id(s) == IF s = None THEN None ELSE g.subs[s].id
      qid(q) == g.qgroups[q].id
  IN  [there |-> g.btrfs # None,
       quota |-> g.quota,
       default |-> id(g.default),
       subs |-> {[id |-> id(s), on |-> id(g.subs[s].on), name |-> g.subs[s].name] : s \in DOMAIN g.subs},
       qgroups |-> {g.qgroups[q] : q \in DOMAIN g.qgroups},
       rel |-> {<<qid(e[1]), qid(e[2])>> : e \in g.rel}]

\* Storage ids for things, in the order of sorted.
Sid(n, sorted, x) == n + (CHOOSE i \in DOMAIN sorted : sorted[i] = x)

\* Btrfs::Impl::probe_pass_2a.
Found ==
  LET ids == SetToSortSeq({s.id : s \in disk.subs}, <)
      qids == SetToSortSeq({q.id : q \in disk.qgroups},
                           LAMBDA x, y : x[1] < y[1] \/ (x[1] = y[1] /\ x[2] < y[2]))
      sub(id) == IF id = None THEN None ELSE Sid(1, ids, id)
      qgroup(id) == Sid(1 + Len(ids), qids, id)
  IN  [btrfs |-> IF disk.there THEN 1 ELSE None,
       quota |-> disk.quota,
       default |-> sub(disk.default),
       subs |-> [s \in {sub(x.id) : x \in disk.subs} |->
                   LET x == CHOOSE x \in disk.subs : sub(x.id) = s
                   IN  [on |-> sub(x.on), name |-> x.name, id |-> x.id]],
       qgroups |-> [q \in {qgroup(x.id) : x \in disk.qgroups} |->
                      CHOOSE x \in disk.qgroups : qgroup(x.id) = q],
       owns |-> {<<sub(x.id), qgroup(<<0, x.id>>)>> : x \in {y \in disk.subs : <<0, y.id>> \in Range(qids)}},
       rel |-> {<<qgroup(e[1]), qgroup(e[2])>> : e \in disk.rel}]

Init == /\ disk \in Probes
        /\ nextId = Max({FirstId} \cup {s.id + 1 : s \in disk.subs})
        /\ system = Found
        /\ staging = Found
        /\ phase = "edit"
        /\ todo = {}
        /\ edits = 0

-----------------------------------------------------------------------------
(* The client                                                              *)

Edit(g) == /\ phase = "edit"
           /\ edits < MaxEdits
           /\ staging' = g
           /\ edits' = edits + 1
           /\ UNCHANGED <<disk, nextId, system, phase, todo>>

\* (An id that was given away and is gone again may come twice.)
NewSid == 1 + Max({None} \cup Sids(system) \cup Sids(staging))

\* BlkDevice::create_filesystem and Btrfs::create.
CreateBtrfs ==
  /\ staging.btrfs = None
  /\ Edit([NoBtrfs EXCEPT !.btrfs = NewSid, !.default = NewSid + 1,
                          !.subs = Put(Empty, NewSid + 1, [on |-> None, name |-> None, id |-> TopId])])

\* remove_descendants of the disk.
RemoveBtrfs == staging.btrfs # None /\ Edit(NoBtrfs)

\* BtrfsSubvolume::Impl::create_btrfs_qgroup for the subvolumes S, the first of
\* them with storage id n.
WithOwnQgroups(g, S, n) ==
  LET sorted == SetToSortSeq(S, <)
      qgroup(s) == Sid(n - 1, sorted, s)
      new == {qgroup(s) : s \in S}
  IN  [g EXCEPT !.qgroups = [q \in DOMAIN @ \cup new |->
                               IF q \in new THEN [id |-> <<0, g.subs[sorted[q - n + 1]].id>>, limit |-> 0]
                                            ELSE @[q]],
                !.owns = @ \cup {<<s, qgroup(s)>> : s \in S}]

\* create_btrfs_subvolume.  (Clients choose the parent that the path tells.)
CreateSubvolume ==
  \E p \in DOMAIN staging.subs, name \in Name :
     LET g == [staging EXCEPT !.subs = Put(@, NewSid, [on |-> p, name |-> name, id |-> None])]
     IN  /\ \A s \in DOMAIN staging.subs : ~ (staging.subs[s].on = p /\ staging.subs[s].name = name)
         /\ Edit(IF g.quota THEN WithOwnQgroups(g, {NewSid}, NewSid + 1) ELSE g)

\* A subvolume and those in it, at any depth.
Subtree(g, s) ==
  LET up[x \in DOMAIN g.subs] == x = s \/ (g.subs[x].on # None /\ up[g.subs[x].on])
  IN  {x \in DOMAIN g.subs : up[x]}

\* g without some quota groups.
WithoutQgroups(g, S) ==
  [g EXCEPT !.qgroups = Without(@, S),
            !.owns = {o \in @ : o[2] \notin S},
            !.rel = {e \in @ : {e[1], e[2]} \cap S = {}}]

\* BtrfsQgroupRelation::Impl::is_in_view(View::REMOVE): the quota group of a new
\* subvolume goes with it, others stay.
GoesAlong(g, q) == g.qgroups[q].id = <<0, None>>

\* remove_descendants(View::REMOVE) and remove_device.
RemoveSubvolume ==
  \E s \in {x \in DOMAIN staging.subs : staging.subs[x].id # TopId} :
     LET gone == Subtree(staging, s)
         along == {q \in DOMAIN staging.qgroups : Owners(staging, q) \cap gone # {} /\ GoesAlong(staging, q)}
         g == WithoutQgroups(staging, along)
     IN  Edit([g EXCEPT !.subs = Without(@, gone),
                        !.owns = {o \in @ : o[1] \notin gone},
                        !.default = IF @ \in gone THEN None ELSE @])

SetDefault ==
  \E s \in DOMAIN staging.subs \ {staging.default} : Edit([staging EXCEPT !.default = s])

\* Mutant of QuotaOn: all subvolumes get a new quota group.
QuotaOnAnew(L, g) == WithOwnQgroups([g EXCEPT !.quota = TRUE], DOMAIN g.subs, NewSid)

\* set_quota(true): what "probed" has is restored.
QuotaOn(L, g) ==
  LET on == [g EXCEPT !.quota = TRUE]
  IN  IF L.btrfs = g.btrfs /\ L.quota
      THEN WithOwnQgroups([on EXCEPT !.qgroups = L.qgroups,
                                     !.owns = {o \in L.owns : o[1] \in DOMAIN g.subs},
                                     !.rel = L.rel],
                          DOMAIN g.subs \ DOMAIN L.subs, NewSid)
      ELSE WithOwnQgroups(on, DOMAIN g.subs, NewSid)

QuotaOff(g) == [WithoutQgroups(g, DOMAIN g.qgroups) EXCEPT !.quota = FALSE]

SetQuota == /\ staging.btrfs # None
            /\ Edit(IF staging.quota THEN QuotaOff(staging) ELSE QuotaOn(system, staging))

\* Btrfs::Impl::create_btrfs_qgroup.
CreateQgroup ==
  \E id \in QgroupId \ {staging.qgroups[q].id : q \in DOMAIN staging.qgroups} :
     /\ staging.quota
     /\ Edit([staging EXCEPT !.qgroups = Put(@, NewSid, [id |-> id, limit |-> 0])])

CreateOwnQgroup ==
  \E s \in DOMAIN staging.subs :
     /\ staging.quota /\ OwnQgroups(staging, s) = {}
     /\ Edit(WithOwnQgroups(staging, {s}, NewSid))

\* BtrfsQgroup::Impl::add_create_actions: btrfs makes the quota group when it
\* creates the subvolume or when quota is enabled.
Automatic(L, R, q) ==
  /\ R.qgroups[q].id[1] = 0
  /\ \E s \in Owners(R, q) : s \notin DOMAIN L.subs \/ L.btrfs # R.btrfs \/ ~ L.quota

\* One that btrfs makes itself is not removed.
RemoveQgroup ==
  \E q \in DOMAIN staging.qgroups :
     /\ q \in DOMAIN system.qgroups \/ ~ Automatic(system, staging, q)
     /\ Edit(WithoutQgroups(staging, {q}))

Assign ==
  \E q, r \in DOMAIN staging.qgroups :
     /\ staging.qgroups[q].id[1] < staging.qgroups[r].id[1]
     /\ <<q, r>> \notin staging.rel
     /\ Edit([staging EXCEPT !.rel = @ \cup {<<q, r>>}])

Unassign == \E e \in staging.rel : Edit([staging EXCEPT !.rel = @ \ {e}])

\* set_referenced_limit, set_exclusive_limit
SetLimit ==
  \E q \in DOMAIN staging.qgroups : \E n \in Limit \ {staging.qgroups[q].limit} :
     Edit([staging EXCEPT !.qgroups[q].limit = n])

-----------------------------------------------------------------------------
(* The actions and their order, from L to R                                *)

\* An action on a device or, of a pair, on a relation of quota groups.
Act(op, d) == [op |-> op, of |-> <<d>>]
RelAct(op, e) == [op |-> op, of |-> e]

If(condition, op) == IF condition THEN <<op>> ELSE << >>

\* add_create_actions
Created(R, d) ==
  <<"create">> \o (CASE d = R.btrfs -> If(R.quota, "quota")
                     [] d \in DOMAIN R.subs -> If(R.default = d /\ R.subs[d].id # TopId, "default")
                     [] d \in DOMAIN R.qgroups -> If(R.qgroups[d].limit # 0, "limit"))

\* btrfs_qgroup_delete_is_nop
QgroupDeleteIsNop(L, R) == L.quota /\ (R.btrfs # L.btrfs \/ ~ R.quota)

\* add_delete_actions
Deleted(L, R, d) == If(d \in DOMAIN L.qgroups => ~ QgroupDeleteIsNop(L, R), "delete")

\* BtrfsQgroup::Impl::add_modify_actions
Modified(L, R, d) == If(d \in DOMAIN L.qgroups /\ L.qgroups[d].limit # R.qgroups[d].limit, "limit")

\* The actions of a device that are in a chain.
Chain(L, R, d) == CASE d \notin Sids(L) -> Created(R, d)
                    [] d \notin Sids(R) -> Deleted(L, R, d)
                    [] OTHER -> Modified(L, R, d)

\* add_modify_actions of Btrfs and subvolumes: actions that are in no chain.
Loose(L, R) ==
  (IF L.btrfs = R.btrfs /\ L.quota # R.quota THEN {Act("quota", R.btrfs)} ELSE {})
  \cup (IF R.default \in DOMAIN L.subs /\ R.default # L.default THEN {Act("default", R.default)} ELSE {})

RelActions(L, R) ==
  {RelAct("assign", e) : e \in R.rel \ L.rel}
  \cup {RelAct("unassign", e) : e \in IF QgroupDeleteIsNop(L, R) THEN {} ELSE L.rel \ R.rel}

Actions(L, R) ==
  UNION {{Act(op, d) : op \in Range(Chain(L, R, d))} : d \in Sids(L) \cup Sids(R)}
  \cup Loose(L, R) \cup RelActions(L, R)

First(L, R, d) == {Act(op, d) : op \in {Chain(L, R, d)[i] : i \in {1} \cap DOMAIN Chain(L, R, d)}}
Final(L, R, d) == LET c == Chain(L, R, d) IN {Act(op, d) : op \in {c[i] : i \in {Len(c)} \cap DOMAIN c}}

\* get_parents, without the disk.
Parents(g, d) ==
  CASE d = g.btrfs -> {}
    [] d \in DOMAIN g.subs -> {IF g.subs[d].on = None THEN g.btrfs ELSE g.subs[d].on}
    [] d \in DOMAIN g.qgroups -> {g.btrfs} \cup Owners(g, d) \cup {e[1] : e \in {x \in g.rel : x[2] = d}}

\* get_children(View::REMOVE) in the system.
RemovedWith(g, p) ==
  {s \in DOMAIN g.subs : p \in Parents(g, s)} \cup IF p = g.btrfs THEN DOMAIN g.qgroups ELSE {}

\* Mutant of AfterEnabling: nothing waits for quota.
AfterEnablingNothing(L, R, q) == {}

\* BtrfsQgroup::Impl::add_dependencies
AfterEnabling(L, R, q) ==
  IF q \in DOMAIN R.qgroups /\ R.btrfs = L.btrfs /\ R.quota THEN {Act("quota", R.btrfs)} ELSE {}

\* Action::Create::add_device_dependencies: all that comes before d is created.
BeforeCreate(L, R, d) ==
  (IF d = R.btrfs /\ L.btrfs # None THEN {Act("delete", L.btrfs)} ELSE {})
  \cup UNION {IF p \notin Sids(L) THEN Final(L, R, p)
              ELSE {Act("delete", c) : c \in RemovedWith(L, p)} : p \in Parents(R, d)}

\* Action::Delete::add_device_dependencies
BeforeDelete(L, d) == IF d \in Sids(L) THEN {Act("delete", x) : x \in RemovedWith(L, d)} ELSE {}

\* BtrfsQgroupRelation::Impl::add_dependencies
AfterAssigned(L, R, e) == Final(L, R, e[1]) \cup Final(L, R, e[2])
AfterUnassigning(L, d) == {RelAct("unassign", e) : e \in {x \in L.rel : d \in {x[1], x[2]}}}

\* What comes directly before an action.
Before(L, R, a) ==
  LET d == a.of[1]
      c == Chain(L, R, d)
  IN  CASE a.op = "assign" -> AfterAssigned(L, R, a.of)
        [] a.op = "unassign" -> {}
        [] OTHER ->
             {Act(c[i - 1], d) : i \in {j \in 2 .. Len(c) : c[j] = a.op}}
             \cup (IF a.op = "create" THEN BeforeCreate(L, R, d) ELSE {})
             \cup (IF a \in First(L, R, d)
                   THEN AfterEnabling(L, R, d) \cup BeforeDelete(L, d) \cup AfterUnassigning(L, d)
                   ELSE {})

CalculateActiongraph ==
  /\ phase = "edit"
  \* doc/btrfs.md: "a new default btrfs subvolume has to be set"
  /\ staging.btrfs # None => staging.default # None
  /\ todo' = Actions(system, staging)
  /\ phase' = "commit"
  /\ UNCHANGED <<disk, nextId, system, staging, edits>>

Ready == {a \in todo : Before(system, staging, a) \cap todo = {}}

-----------------------------------------------------------------------------
(* Commit.  The kernel and the tools are external.                         *)

\* Synchronises only (its neighbours in the graph stay in their order), or nop.
DoesNothing(L, R, a) ==
  LET d == a.of[1]
  IN  /\ Len(a.of) = 1
      /\ \/ a.op = "create" /\ d \in DOMAIN R.subs /\ R.subs[d].id = TopId
         \/ a.op = "create" /\ d \in DOMAIN R.qgroups /\ Automatic(L, R, d)
         \/ a.op = "delete" /\ d \in DOMAIN L.subs /\ (L.subs[d].id = TopId \/ L.btrfs # R.btrfs)

Qids(S) == {q.id : q \in S}
Qid(g, q) == g.qgroups[q].id
SubId(g, s) == g.subs[s].id
SubIds == {s.id : s \in disk.subs}

KernelQgroup(id) == [id |-> id, limit |-> 0]

\* An executed command works.
Accepted(a) ==
  LET d == a.of[1]
      g == IF a.op \in {"delete", "unassign"} THEN system ELSE staging
  IN  CASE a.op = "quota" -> disk.there
        [] a.op = "default" -> SubId(g, d) \in SubIds
        [] a.op = "limit" -> Qid(g, d) \in Qids(disk.qgroups)
        [] a.op = "assign" -> /\ {Qid(g, d), Qid(g, a.of[2])} \subseteq Qids(disk.qgroups)
                              /\ <<Qid(g, d), Qid(g, a.of[2])>> \notin disk.rel
        [] a.op = "unassign" -> <<Qid(g, d), Qid(g, a.of[2])>> \in disk.rel
        [] d = g.btrfs -> a.op = "create" => ~ disk.there
        [] a.op = "create" /\ d \in DOMAIN g.subs ->
             /\ SubId(g, g.subs[d].on) \in SubIds
             /\ \A s \in disk.subs : ~ (s.on = SubId(g, g.subs[d].on) /\ s.name = g.subs[d].name)
        [] a.op = "create" -> disk.quota /\ Qid(g, d) \notin Qids(disk.qgroups)
        [] a.op = "delete" /\ d \in DOMAIN g.subs ->
             /\ SubId(g, d) \in SubIds
             /\ disk.default # SubId(g, d)
             /\ \A s \in disk.subs : s.on # SubId(g, d)
        [] a.op = "delete" -> /\ Qid(g, d) \in Qids(disk.qgroups)
                              /\ \A e \in disk.rel : e[2] # Qid(g, d)

\* The disk after a command.  Deleting a subvolume leaves its quota group.
Effect(a) ==
  LET d == a.of[1]
      g == IF a.op \in {"delete", "unassign"} THEN system ELSE staging
  IN  CASE a.op = "quota" ->
             [disk EXCEPT !.quota = g.quota,
                          !.qgroups = IF g.quota THEN {KernelQgroup(<<0, id>>) : id \in SubIds} ELSE {},
                          !.rel = {}]
        [] a.op = "default" -> [disk EXCEPT !.default = SubId(g, d)]
        [] a.op = "limit" ->
             [disk EXCEPT !.qgroups = {q \in @ : q.id # Qid(g, d)} \cup {g.qgroups[d]}]
        [] a.op = "assign" -> [disk EXCEPT !.rel = @ \cup {<<Qid(g, d), Qid(g, a.of[2])>>}]
        [] a.op = "unassign" -> [disk EXCEPT !.rel = @ \ {<<Qid(g, d), Qid(g, a.of[2])>>}]
        [] d = g.btrfs ->
             OnDisk(IF a.op = "delete" THEN NoBtrfs
                    ELSE [NoBtrfs EXCEPT !.btrfs = d, !.default = Top(g),
                                         !.subs = Put(Empty, Top(g), g.subs[Top(g)])])
        [] a.op = "create" /\ d \in DOMAIN g.subs ->
             [disk EXCEPT !.subs = @ \cup {[id |-> nextId, on |-> SubId(g, g.subs[d].on),
                                            name |-> g.subs[d].name]},
                          !.qgroups = IF disk.quota THEN @ \cup {KernelQgroup(<<0, nextId>>)} ELSE @]
        [] a.op = "create" -> [disk EXCEPT !.qgroups = @ \cup {KernelQgroup(Qid(g, d))}]
        [] a.op = "delete" /\ d \in DOMAIN g.subs ->
             [disk EXCEPT !.subs = {s \in @ : s.id # SubId(g, d)}]
        [] a.op = "delete" -> [disk EXCEPT !.qgroups = {q \in @ : q.id # Qid(g, d)},
                                           !.rel = {e \in @ : e[1] # Qid(g, d)}]

\* BtrfsSubvolume::Impl::do_create asks for the id and sets that of its quota group.
WithId(s, id) ==
  [staging EXCEPT !.subs[s].id = id,
                  !.qgroups = [q \in DOMAIN @ |-> IF q \in OwnQgroups(staging, s)
                                                  THEN [@[q] EXCEPT !.id = <<0, id>>] ELSE @[q]]]

CommitNothing == /\ phase = "commit"
                 /\ \E a \in Ready : /\ DoesNothing(system, staging, a)
                                     /\ todo' = todo \ {a}
                 /\ UNCHANGED <<disk, nextId, system, staging, phase, edits>>

CommitAction ==
  /\ phase = "commit"
  /\ \E a \in Ready :
        LET isNew == a.op = "create" /\ a.of[1] \in DOMAIN staging.subs
        IN  /\ ~ DoesNothing(system, staging, a)
            /\ Accepted(a)
            /\ disk' = Effect(a)
            /\ nextId' = IF isNew THEN nextId + 1
                         ELSE IF a = Act("create", staging.btrfs) THEN FirstId ELSE nextId
            /\ staging' = IF isNew THEN WithId(a.of[1], nextId) ELSE staging
            /\ todo' = todo \ {a}
  /\ UNCHANGED <<system, phase, edits>>

\* After a commit, or after an action failed and the user stopped.
Probe == /\ phase = "commit" /\ edits < MaxEdits
         /\ system' = Found
         /\ staging' = Found
         /\ phase' = "edit"
         /\ todo' = {}
         /\ UNCHANGED <<disk, nextId, edits>>

Next == \/ CreateBtrfs
        \/ RemoveBtrfs
        \/ CreateSubvolume
        \/ RemoveSubvolume
        \/ SetDefault
        \/ SetQuota
        \/ CreateQgroup
        \/ CreateOwnQgroup
        \/ RemoveQgroup
        \/ Assign
        \/ Unassign
        \/ SetLimit
        \/ CalculateActiongraph
        \/ CommitNothing
        \/ CommitAction
        \/ Probe

Spec == Init /\ [][Next]_vars

-----------------------------------------------------------------------------
SameBtrfs == system.btrfs = staging.btrfs /\ system.btrfs # None

\* Nothing makes the deletion of the old default subvolume wait for the new one.
DefaultKept == SameBtrfs => system.default \in DOMAIN staging.subs

\* No subvolume is deleted when quota is enabled: nothing orders the two, and
\* whether its quota group is made depends on the order.
EnablesAlone == SameBtrfs /\ ~ system.quota /\ staging.quota => DOMAIN system.subs \subseteq DOMAIN staging.subs

Clear == DefaultKept /\ EnablesAlone

\* In every order the dependencies allow, every command finds what it needs: a
\* quota group waits for quota and for the subvolume that brings it, what is
\* recreated waits for the deletion, also where the action in between does nothing;
\* and there is always an action that can be next.
Committable ==
  phase = "commit" /\ Clear =>
    /\ todo # {} => Ready # {}
    /\ \A a \in Ready : DoesNothing(system, staging, a) \/ Accepted(a)

\* A commit without an error leaves what staging has: what btrfs made or removed
\* by itself is just what no action made or removed, with the ids staging has now.
EndsAsStaging == phase = "commit" /\ todo = {} /\ Clear => disk = OnDisk(staging)

ReachesStaging == Committable /\ EndsAsStaging

\* "This is done so that no qgroup related actions will be done during commit"
\* (Btrfs.h): whatever else the client does, quota that is turned on, or off and on
\* again, needs nothing but the action that enables it; nothing on disk is lost.
NoQgroupActions ==
  [][UNCHANGED system /\ ~ staging.quota /\ staging'.quota =>
       \A a \in Actions(system, staging') :
          /\ a.op = "quota" => ~ system.quota \/ system.btrfs # staging.btrfs
          /\ a.op \notin {"limit", "assign", "unassign"}
          /\ a.of[1] \in DOMAIN system.qgroups \cup DOMAIN staging'.qgroups =>
                DoesNothing(system, staging', a)]_vars
=============================================================================
