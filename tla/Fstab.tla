--------------------------------- MODULE Fstab ---------------------------------
(***************************************************************************)
(* /etc/fstab from probing over a client's changes of mount points to the  *)
(* end of a commit: storage/EtcFstab, the fstab part of MountableImpl and  *)
(* MountPointImpl, and CommitData of storage/ActiongraphImpl.  CommitData  *)
(* reads the file when the first action needs it and keeps it; every       *)
(* action writes it.  An entry is found by the device and path it had when *)
(* it was probed.                                                          *)
(*                                                                         *)
(* The only actions are those of mount points of filesystems that stay,    *)
(* none of them a swap.  Storage ids are numbers, since vertices are added *)
(* to the graph in their order.                                            *)
(***************************************************************************)
EXTENDS CommentedConfigFile

CONSTANTS FsSeq,       \* the filesystems in the order they are probed
          PathSeq,     \* the paths, sorted as strings; a path is a sequence of pieces
          Options,     \* mount options
          Files,       \* what fstab may have at first: a sequence of lines
          Mounts,      \* what may be mounted at first: a set of [fs, path]
          Added,       \* an entry that the administrator may append
          MaxEdits     \* bound of the calls that edit staging

VARIABLES
  file,      \* the lines of fstab
  cache,     \* CommitData::etc_fstab, Null if not read
  mounts,    \* the kernel's mounts
  system, staging,   \* the mount points of the device graphs
  phase,     \* "edit" or "commit"
  todo,      \* what is left of the order
  edits

vars == <<file, cache, mounts, system, staging, phase, todo, edits>>

Null == [header |-> "null"]

Filesystem == Range(FsSeq)
Path == Range(PathSeq)
Root == <<"/">>

\* Path p is below q.
Beneath(p, q) == IF q = Root THEN p # Root ELSE IsPrefix(q \o <<"/">>, p)

Entries(lines) == {l \in Range(lines) : l.kind = "entry"}
EntryOf(m) == [kind |-> "entry", spec |-> m.fs, path |-> m.path, opts |-> m.opts]

-----------------------------------------------------------------------------
(* Probing: join_entries and Mountable::Impl::probe_pass_2b                *)

\* The mount points found for a filesystem, those of fstab and the others.
JointEntries(lines, ms, fs) ==
  LET listed == {l \in Entries(lines) : l.spec = fs}
      mounted == {m.path : m \in {x \in ms : x.fs = fs}}
  IN  {[fs |-> fs, path |-> l.path, opts |-> l.opts, listed |-> TRUE, active |-> l.path \in mounted]
         : l \in listed}
      \cup {[fs |-> fs, path |-> p, opts |-> CHOOSE o \in Options : TRUE, listed |-> FALSE, active |-> TRUE]
              : p \in mounted \ {l.path : l \in listed}}

\* The shortest active one in fstab, or active one, or one.
Selected(joint) ==
  LET active == {j \in joint : j.active}
      both == {j \in active : j.listed}
      best == IF both # {} THEN both ELSE IF active # {} THEN active ELSE joint
  IN  CHOOSE j \in best : \A k \in best : Len(j.path) <= Len(k.path)

\* One mount point per filesystem.
Probed(lines, ms) ==
  [s \in {n \in DOMAIN FsSeq : JointEntries(lines, ms, FsSeq[n]) # {}} |->
     Selected(JointEntries(lines, ms, FsSeq[s]))]

Init == /\ file \in Files
        /\ mounts \in Mounts
        /\ cache = Null
        /\ system = Probed(file, mounts)
        /\ staging = system
        /\ phase = "edit"
        /\ todo = << >>
        /\ edits = 0

-----------------------------------------------------------------------------
(* The client.  It uses a path once, and it does not remove a mount point  *)
(* and create it anew for the same filesystem and path: nothing orders     *)
(* the removal of the old entry of fstab before the addition of the new    *)
(* one, and the removal takes both.                                        *)

Edit(g) == /\ phase = "edit"
           /\ edits < MaxEdits
           /\ staging' = g
           /\ edits' = edits + 1
           /\ UNCHANGED <<file, cache, mounts, system, phase, todo>>

UnusedPaths == Path \ {staging[s].path : s \in DOMAIN staging}

\* A new mount point for what is in fstab already.
Recreated(fs, path) == \E s \in DOMAIN system : /\ system[s].listed
                                                /\ system[s].fs = fs
                                                /\ system[s].path = path

\* Mountable::create_mount_point
CreateMountPoint ==
  LET new == Max(DOMAIN FsSeq \cup DOMAIN staging) + 1
  IN  \E f \in Filesystem \ {staging[s].fs : s \in DOMAIN staging}, path \in UnusedPaths, active \in BOOLEAN :
         /\ ~ Recreated(f, path)
         /\ Edit([s \in DOMAIN staging \cup {new} |->
                    IF s \in DOMAIN staging THEN staging[s]
                    ELSE [fs |-> f, path |-> path, opts |-> CHOOSE o \in Options : TRUE,
                          listed |-> TRUE, active |-> active]])

\* Mountable::remove_mount_point
RemoveMountPoint ==
  \E s \in DOMAIN staging : Edit([x \in DOMAIN staging \ {s} |-> staging[x]])

\* set_path, set_mount_options, set_in_etc_fstab and set_active
ChangeMountPoint ==
  \E s \in DOMAIN staging :
     \/ \E path \in UnusedPaths : /\ s \notin DOMAIN system => ~ Recreated(staging[s].fs, path)
                                  /\ Edit([staging EXCEPT ![s].path = path])
     \/ \E opts \in Options \ {staging[s].opts} : Edit([staging EXCEPT ![s].opts = opts])
     \/ Edit([staging EXCEPT ![s].listed = ~ @])
     \/ Edit([staging EXCEPT ![s].active = ~ @])

\* Something else changes fstab after it was probed and before the commit reads it.
Administrate == /\ cache = Null
                /\ Added \notin Entries(file)
                /\ file' = Append(file, Added)
                /\ UNCHANGED <<cache, mounts, system, staging, phase, todo, edits>>

-----------------------------------------------------------------------------
(* The actions and their order                                             *)

Act(op, s) == [op |-> op, sid |-> s]

Absent == [listed |-> FALSE, active |-> FALSE]
At(g, s) == IF s \in DOMAIN g THEN g[s] ELSE Absent

Needed(op, l, r) ==
  CASE op = "remove" -> l.listed /\ ~ r.listed
    [] op = "unmount" -> l.active /\ (~ r.active \/ l.path # r.path)
    [] op = "update" -> l.listed /\ r.listed /\ (l.opts # r.opts \/ l.path # r.path)
    [] op = "mount" -> r.active /\ (~ l.active \/ l.path # r.path)
    [] op = "add" -> ~ l.listed /\ r.listed

\* add_create_actions, add_modify_actions and add_delete_actions: the chain of a
\* mount point.
Chain(s) ==
  LET ops == SelectSeq(<<"remove", "unmount", "update", "mount", "add">>,
                       LAMBDA op : Needed(op, At(system, s), At(staging, s)))
  IN  [i \in DOMAIN ops |-> Act(ops[i], s)]

\* get_device_actions: the actions of created, common and deleted mount points.
Chains ==
  LET sorted(S) == SetToSortSeq(S, <)
      sids == sorted(DOMAIN staging \ DOMAIN system) \o sorted(DOMAIN staging \cap DOMAIN system)
                \o sorted(DOMAIN system \ DOMAIN staging)
  IN  [i \in DOMAIN sids |-> Chain(sids[i])]

Vertices == FlattenSeq(Chains)

ChainEdges == FlattenSeq([i \in DOMAIN Chains |->
                            [j \in 1 .. Len(Chains[i]) - 1 |-> <<Chains[i][j], Chains[i][j + 1]>>]])

\* Create::add_device_dependencies: a filesystem is mounted after its old mount
\* point was unmounted, if that is the last action of it.
UnmountEdges ==
  LET mount == SelectSeq(Vertices, LAMBDA v : v.op = "mount")
      old(v) == {s \in DOMAIN system : /\ system[s].fs = staging[v.sid].fs
                                       /\ Chain(s) # << >> /\ Last(Chain(s)).op = "unmount"}
  IN  FlattenSeq([i \in DOMAIN mount |->
                    SetToSeq({<<Act("unmount", s), mount[i]>> : s \in old(mount[i])})])

\* add_mount_dependencies: the path of an action and that of its nearest parent.
PathEdges(op, g) ==
  LET used == {v \in Range(Vertices) : v.op = op}
      at(path) == {v \in used : g[v.sid].path = path}
      parents(path) == {w \in used : Beneath(path, g[w.sid].path)}
      nearest(path) == {w \in parents(path) :
                          \A x \in parents(path) : ~ Beneath(g[x.sid].path, g[w.sid].path)}
  IN  FlattenSeq([i \in DOMAIN PathSeq |->
        SetToSeq({IF op = "mount" THEN <<w, v>> ELSE <<v, w>> :
                    v \in at(PathSeq[i]), w \in nearest(PathSeq[i])})])

\* prioritised_topological_sort without priorities.  (No edge is there twice.)
Order ==
  LET edges == ChainEdges \o UnmountEdges \o PathEdges("mount", staging) \o PathEdges("unmount", system)
      free(v, done) == \A e \in Range(edges) : e[2] = v => e[1] \in Range(done)
      children(v) == LET out == SelectSeq(edges, LAMBDA e : e[1] = v)
                     IN  [i \in DOMAIN out |-> out[i][2]]
      next(run, n) == LET v == Last(run.q)
                          done == Append(run.order, v)
                      IN  [q |-> Front(run.q) \o SelectSeq(children(v), LAMBDA w : free(w, done)),
                           order |-> done]
      start == [q |-> SelectSeq(Vertices, LAMBDA v : free(v, << >>)), order |-> << >>]
  IN  FoldLeft(next, start, Vertices).order

CalculateActiongraph ==
  /\ phase = "edit"
  /\ todo' = Order
  /\ phase' = "commit"
  /\ UNCHANGED <<file, cache, mounts, system, staging, edits>>

-----------------------------------------------------------------------------
(* Commit                                                                  *)

\* CommitData::get_etc_fstab
Read == IF cache = Null THEN Parse(file) ELSE cache

Write(fstab) == cache' = fstab /\ file' = Format(fstab)

\* Mutant of Anchor: what the mount point is in staging.
AnchorInStaging(s) == IF s \in DOMAIN staging THEN staging[s] ELSE system[s]

\* MountPoint::Impl::get_fstab_anchor: what the entry was when it was probed.
Anchor(s) == system[s]

\* find_all_by_spec_and_mount_point
IsEntryOf(line, s) == line.spec = Anchor(s).fs /\ line.path = Anchor(s).path

EntriesOf(s) == {l \in {e.line : e \in Range(Read.entries)} : IsEntryOf(l, s)}
HasEntry(s) == EntriesOf(s) # {}

\* Mutant of SortIndex: new entries are put at the end.
SortIndexEnd(entries, path) == Len(entries) + 1

\* find_sort_index: before what is mounted into the tree, compared as strings.
SortIndex(entries, path) ==
  Min({n \in DOMAIN entries : IsPrefix(path, entries[n].line.path)} \cup {Len(entries) + 1})

Begin(op) == phase = "commit" /\ todo # << >> /\ Head(todo).op = op

Done == /\ todo' = Tail(todo)
        /\ UNCHANGED <<system, staging, phase, edits>>

\* do_remove_from_etc_fstab
CommitRemove ==
  LET s == Head(todo).sid
  IN  /\ Begin("remove")
      /\ IF HasEntry(s) THEN Write(RemoveEntries(Read, EntriesOf(s)))
                        ELSE cache' = Read /\ UNCHANGED file
      /\ Done /\ UNCHANGED mounts

\* do_update_in_etc_fstab: the entry stays where it is.
CommitUpdate ==
  LET s == Head(todo).sid
      new(e) == IF IsEntryOf(e.line, s) THEN [e EXCEPT !.line = EntryOf(staging[s])] ELSE e
  IN  /\ Begin("update")
      /\ IF HasEntry(s) THEN Write([Read EXCEPT !.entries = [n \in DOMAIN @ |-> new(@[n])]])
                        ELSE cache' = Read /\ UNCHANGED file
      /\ Done /\ UNCHANGED mounts

\* do_add_to_etc_fstab
CommitAdd ==
  LET m == staging[Head(todo).sid]
  IN  /\ Begin("add")
      /\ Write(InsertEntry(Read, SortIndex(Read.entries, m.path), EntryOf(m)))
      /\ Done /\ UNCHANGED mounts

CommitMount ==
  LET m == staging[Head(todo).sid]
  IN  /\ Begin("mount")
      /\ mounts' = mounts \cup {[fs |-> m.fs, path |-> m.path]}
      /\ Done /\ UNCHANGED <<file, cache>>

CommitUnmount ==
  LET m == system[Head(todo).sid]
  IN  /\ Begin("unmount")
      /\ mounts' = mounts \ {[fs |-> m.fs, path |-> m.path]}
      /\ Done /\ UNCHANGED <<file, cache>>

\* After a commit, or after an action failed and the user stopped.
Probe == /\ phase = "commit"
         /\ edits < MaxEdits
         /\ cache' = Null
         /\ system' = Probed(file, mounts)
         /\ staging' = Probed(file, mounts)
         /\ phase' = "edit"
         /\ todo' = << >>
         /\ UNCHANGED <<file, mounts, edits>>

Next == \/ CreateMountPoint
        \/ RemoveMountPoint
        \/ ChangeMountPoint
        \/ Administrate
        \/ CalculateActiongraph
        \/ CommitRemove
        \/ CommitUpdate
        \/ CommitAdd
        \/ CommitMount
        \/ CommitUnmount
        \/ Probe

Spec == Init /\ [][Next]_vars

-----------------------------------------------------------------------------
\* A commit without an error leaves fstab and the mounts as staging has them:
\* every listed mount point has its entry, what was removed, moved or is not
\* listed any more has none, and likewise for what is mounted.
EndsAsStaging ==
  LET entries(g) == {EntryOf(g[s]) : s \in {x \in DOMAIN g : g[x].listed}}
      mounted(g) == {[fs |-> g[s].fs, path |-> g[s].path] : s \in {x \in DOMAIN g : g[x].active}}
  IN  phase = "commit" /\ todo = << >> =>
        /\ entries(staging) \subseteq Entries(file)
        /\ (entries(system) \ entries(staging)) \cap Entries(file) = {}
        /\ mounted(staging) \subseteq mounts
        /\ (mounted(system) \ mounted(staging)) \cap mounts = {}

\* A mount point comes after those it is mounted in.
Mountable(lines) ==
  \A i, j \in {n \in DOMAIN lines : lines[n].kind = "entry"} :
     Beneath(lines[i].path, lines[j].path) => j < i

\* No action makes a file that can be mounted in order one that cannot, but for
\* the update of an entry with another path, which stays where it is.
OrderKept ==
  [][phase = "commit" /\ Mountable(file) /\ ~ Mountable(file') =>
       LET a == Head(todo)
       IN  a.op = "update" /\ staging[a.sid].path # system[a.sid].path]_vars

\* The entries of others and of filesystems without a mount point.
Others(lines) ==
  SelectSeq([i \in DOMAIN lines |-> i],
            LAMBDA i : /\ lines[i].kind = "entry"
                       /\ \A s \in DOMAIN system : lines[i].spec # system[s].fs
                       /\ \A s \in DOMAIN staging : lines[i].spec # staging[s].fs)

\* The entries of others stay, in their order, each with its own comments right
\* before it, also behind a line that cannot be parsed, which goes with its comments.
OthersKept ==
  [][todo # << >> /\ todo' = Tail(todo) =>
       LET old == Others(file)
           new == Others(file')
       IN  /\ Len(new) = Len(old)
           /\ \A n \in DOMAIN old :
                 /\ file'[new[n]] = file[old[n]]
                 /\ IsSuffix(CommentsBefore(file, HeaderEnd(file), old[n]),
                             CommentsBefore(file', 0, new[n]))]_file
=============================================================================
