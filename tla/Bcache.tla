-------------------------------- MODULE Bcache ---------------------------------
(***************************************************************************)
(* Bcaches and cache sets (Devices/BcacheImpl.cc, BcacheCsetImpl.cc) from  *)
(* the edits of a client to the end of a commit.  The kernel numbers the   *)
(* bcaches: a new one gets the lowest free number.  The library predicts   *)
(* the numbers in staging (reassign_numbers) and orders the actions on     *)
(* bcaches (run_dependency_manager) so that the prediction comes true.     *)
(*                                                                         *)
(* Bcaches with a backing device only; the library has no actions for      *)
(* those that are flash-only.  The disks below are always there.           *)
(***************************************************************************)
EXTENDS Naturals, FiniteSets, FiniteSetsExt

CONSTANTS Disk, Bcache, Cset,  \* block devices, storage ids of bcaches, cache sets
          Probes,              \* the devices at first
          None,
          MaxEdits             \* bound of the calls that edit staging

VARIABLES
  kernel,    \* the registered bcaches and cache sets
  probed,    \* the device graphs: a function from storage ids to records with
  staging,   \* the parent and, of bcaches, number, cache set and cache mode
  phase,     \* "edit", "commit", "thrown" or "done"
  todo,      \* actions not committed yet
  edits

vars == <<kernel, probed, staging, phase, todo, edits>>

\* A detached cache set is written back to the backing device before it is gone;
\* "bcache detach" does not wait for that.
Leaving == "leaving"

Bcaches(g) == Bcache \cap DOMAIN g
Csets(g) == Cset \cap DOMAIN g
Parents(g, d) == {g[d].on} \cup IF d \in Bcache THEN {g[d].cset} \ {None} ELSE {}
Children(g, d) == {c \in DOMAIN g : d \in Parents(g, c)}
Numbers(g) == {g[b].number : b \in Bcaches(g)}
Without(g, d) == [x \in DOMAIN g \ {d} |-> g[x]]
With(g, d, r) == [x \in DOMAIN g \cup {d} |-> IF x = d THEN r ELSE g[x]]

\* find_free_name; also how the kernel numbers bcaches.
FreeNumber(g) == Min({n \in 0 .. Cardinality(Bcaches(g)) : n \notin Numbers(g)})

\* A device below another one, at any distance.
Ancestors(g, d) ==
  LET up[n \in 0 .. Cardinality(DOMAIN g)] ==
        IF n = 0 THEN Parents(g, d)
        ELSE up[n - 1] \cup UNION {Parents(g, p) : p \in up[n - 1] \cap DOMAIN g}
  IN  up[Cardinality(DOMAIN g)]

\* What has a storage id, and the markers, are different things.
ClassAssumption ==
  /\ Disk \cap Bcache = {} /\ Disk \cap Cset = {} /\ Bcache \cap Cset = {}
  /\ {None, Leaving} \cap (Disk \cup Bcache \cup Cset) = {} /\ None # Leaving

ASSUME ClassAssumption

\* A graph of bcaches and cache sets: what they are on is there, a device has at
\* most one on it, no two bcaches have the same number.  M has the markers for a
\* bcache without a cache set.
Sound(g, M) ==
  /\ IsFiniteSet(DOMAIN g) /\ DOMAIN g \subseteq Bcache \cup Cset
  /\ \A b \in Bcaches(g) : g[b] \in [on : Disk \cup Bcaches(g), number : Nat,
                                   cset : Csets(g) \cup M, mode : {"through", "back"}]
  /\ \A s \in Csets(g) : g[s] \in [on : Disk \cup Bcaches(g)]
  /\ \A c, d \in DOMAIN g : g[c].on = g[d].on => c = d
  /\ \A b, c \in Bcaches(g) : g[b].number = g[c].number => b = c

\* What can be found at first.
ProbesAssumption == \A g \in Probes : Sound(g, {None})

ASSUME ProbesAssumption

Init == /\ kernel \in Probes
        /\ probed = kernel
        /\ staging = kernel
        /\ phase = "edit"
        /\ todo = {}
        /\ edits = 0

-----------------------------------------------------------------------------
(* The client                                                              *)

\* The bcaches that may move to a free number.
Above(g, free) == {b \in Bcaches(g) \ DOMAIN probed : g[b].number > free}

\* Of the bcaches in S the one with the lowest number.
Lowest(g, S) == CHOOSE b \in S : \A c \in S : g[b].number <= g[c].number

\* reassign_numbers.  Every bcache moves at most once.
ReassignNumbers(g) ==
  LET after[n \in 0 .. Cardinality(Bcaches(g))] ==
        IF n = 0 THEN g
        ELSE LET h == after[n - 1]
                 free == FreeNumber(h)
             IN  IF Above(h, free) = {} THEN h
                 ELSE [h EXCEPT ![Lowest(h, Above(h, free))].number = free]
  IN  after[Cardinality(Bcaches(g))]

Edit(g) == /\ phase = "edit"
           /\ edits < MaxEdits
           /\ staging' = g
           /\ edits' = edits + 1
           /\ UNCHANGED <<kernel, probed, phase, todo>>

BlkDevice(g) == Disk \cup Bcaches(g)

\* create_bcache with the name of find_free_name.  What is on the device, which
\* has to be new, will be on the bcache.
CreateBcache ==
  \E b \in Bcache \ (DOMAIN staging \cup DOMAIN probed), d \in BlkDevice(staging) :
     /\ Children(staging, d) \cap DOMAIN probed = {}
     /\ Edit(With([c \in DOMAIN staging |-> IF staging[c].on = d THEN [staging[c] EXCEPT !.on = b]
                                                                 ELSE staging[c]],
                  b, [on |-> d, number |-> FreeNumber(staging), cset |-> None, mode |-> "through"]))

\* create_bcache_cset throws if there are children.
CreateBcacheCset ==
  \E s \in Cset \ (DOMAIN staging \cup DOMAIN probed), d \in BlkDevice(staging) :
     Children(staging, d) = {} /\ Edit(With(staging, s, [on |-> d]))

\* attach_bcache_cset.  (A device graph has no cycles.)
AttachBcacheCset ==
  \E b \in Bcaches(staging), s \in Csets(staging) :
     /\ staging[b].cset = None
     /\ b \notin Ancestors(staging, s)
     /\ Edit([staging EXCEPT ![b].cset = s])

DetachBcacheCset ==
  \E b \in Bcaches(staging) : staging[b].cset # None /\ Edit([staging EXCEPT ![b].cset = None])

SetCacheMode ==
  \E b \in Bcaches(staging), m \in {"through", "back"} :
     staging[b].mode # m /\ Edit([staging EXCEPT ![b].mode = m])

\* Devicegraph::remove_device
RemoveDevice ==
  \E d \in DOMAIN staging :
     Children(staging, d) = {} /\ Edit(ReassignNumbers(Without(staging, d)))

-----------------------------------------------------------------------------
(* The actions and their order                                             *)

Act(op, d) == [op |-> op, sid |-> d]

\* Mutant of Modified: what is detached is not attached elsewhere.
ModifiedOnce(old, new) ==
  (IF old.cset = new.cset THEN {} ELSE IF old.cset # None THEN {"detach"} ELSE {"attach"})
  \cup (IF old.mode # new.mode THEN {"mode"} ELSE {})

\* add_modify_actions
Modified(old, new) ==
  (IF old.cset # None /\ old.cset # new.cset THEN {"detach"} ELSE {})
  \cup (IF new.cset # None /\ old.cset # new.cset THEN {"attach"} ELSE {})
  \cup (IF old.mode # new.mode THEN {"mode"} ELSE {})

\* add_create_actions
Created(new) == {"create"} \cup IF new.cset # None THEN {"attach"} ELSE {}

\* get_device_actions, add_delete_actions
Actions(L, R) ==
  LET ops(d) == CASE d \notin DOMAIN R -> {"deactivate", "delete"}
                  [] d \in DOMAIN R \ DOMAIN L -> IF d \in Bcache THEN Created(R[d]) ELSE {"create"}
                  [] OTHER -> IF d \in Bcache THEN Modified(L[d], R[d]) ELSE {}
  IN  UNION {{Act(op, d) : op \in ops(d)} : d \in DOMAIN L \cup DOMAIN R}

\* The order of the actions in the chain of a device.
Place(op) == CASE op \in {"create", "deactivate", "detach"} -> 1
               [] op \in {"delete", "attach"} -> 2
               [] op = "mode" -> 3

First(A, a) == \A b \in A : b.sid = a.sid => Place(a.op) <= Place(b.op)
Last(A, a) == \A b \in A : b.sid = a.sid => Place(b.op) <= Place(a.op)

\* Mutant of InChain: the bcaches are not sorted by number.
InChainUnsorted(a, b, L, R) == a.op = "delete" /\ b.op = "create"

\* run_dependency_manager: the deletions backwards, then the creations.
InChain(a, b, L, R) ==
  \/ a.op = "delete" /\ b.op = "create"
  \/ a.op = "delete" /\ b.op = "delete" /\ L[a.sid].number > L[b.sid].number
  \/ a.op = "create" /\ b.op = "create" /\ R[a.sid].number < R[b.sid].number

\* Mutant of CsetFirst: nothing makes a cache set wait.
CsetAnytime(a, b, R) == FALSE

\* Bcache::Impl::add_dependencies
CsetFirst(a, b, R) == /\ a.op = "create" /\ a.sid \in Cset
                      /\ b.op = "attach" /\ R[b.sid].cset = a.sid

\* Action::Create::add_device_dependencies
BeforeCreate(A, a, b, L, R) ==
  /\ b.op = "create"
  /\ \E p \in Parents(R, b.sid) :
        IF p \in DOMAIN L \cup Disk THEN a.op = "delete" /\ a.sid \in Children(L, p)
        ELSE a.sid = p /\ Last(A, a)

\* Action::Delete::add_device_dependencies
AfterDelete(A, a, b, L) ==
  a.op = "delete" /\ b.sid \in Parents(L, a.sid) /\ First(A, b)

\* a comes before b.
Before(A, a, b, L, R) ==
  \/ a.sid = b.sid /\ Place(a.op) < Place(b.op)
  \/ {a.sid, b.sid} \subseteq Bcache /\ InChain(a, b, L, R)
  \/ CsetFirst(a, b, R)
  \/ BeforeCreate(A, a, b, L, R)
  \/ AfterDelete(A, a, b, L)

\* Of every set of actions one comes first.
Acyclic(A, L, R) ==
  \A S \in (SUBSET A) \ {{}} : \E b \in S : \A a \in S : ~ Before(A, a, b, L, R)

CalculateActiongraph ==
  /\ phase = "edit"
  /\ LET A == Actions(probed, staging)
     IN  IF Acyclic(A, probed, staging) THEN todo' = A /\ phase' = "commit"
         ELSE todo' = {} /\ phase' = "thrown"
  /\ UNCHANGED <<kernel, probed, staging, edits>>

Ready == {a \in todo : \A b \in todo :
            ~ Before(Actions(probed, staging), b, a, probed, staging)}

-----------------------------------------------------------------------------
(* Commit.  The tools and the kernel are external.                         *)

There(d) == d \in Disk \cup DOMAIN kernel

\* do_create finds the bcache by its name: wait_for_devices fails if the kernel
\* has given another number, or finds another bcache.
Accepted(a) ==
  LET d == a.sid
  IN  CASE a.op = "create" -> There(staging[d].on) /\ Children(kernel, staging[d].on) = {}
        [] a.op = "attach" -> /\ There(d) /\ kernel[d].cset = None
                              /\ There(staging[d].cset)
        [] a.op \in {"detach", "mode"} -> There(d)
        [] a.op = "deactivate" -> There(d) /\ (d \in Bcache => Children(kernel, d) = {})
        [] a.op = "delete" -> There(probed[d].on)

\* The kernel detaches the bcaches of a cache set that is unregistered.
Unregistered(d) ==
  [x \in DOMAIN kernel \ {d} |->
     IF x \in Bcache /\ kernel[x].cset = d THEN [kernel[x] EXCEPT !.cset = None] ELSE kernel[x]]

\* do_create, do_attach_bcache_cset, do_detach_bcache_cset, do_update_cache_mode,
\* do_deactivate and do_delete.
Effect(a) ==
  LET d == a.sid
  IN  CASE a.op = "create" ->
             With(kernel, d, IF d \in Cset THEN [on |-> staging[d].on]
                             ELSE [on |-> staging[d].on, number |-> FreeNumber(kernel),
                                   cset |-> None, mode |-> staging[d].mode])
        [] a.op = "attach" -> [kernel EXCEPT ![d].cset = staging[d].cset]
        [] a.op = "detach" -> [kernel EXCEPT ![d].cset = IF @ = None THEN None ELSE Leaving]
        [] a.op = "mode" -> [kernel EXCEPT ![d].mode = staging[d].mode]
        [] a.op = "deactivate" -> Unregistered(d)
        [] a.op = "delete" -> kernel

CommitAction ==
  /\ phase = "commit"
  /\ \E a \in Ready : /\ Accepted(a)
                      /\ kernel' = Effect(a)
                      /\ todo' = todo \ {a}
  /\ UNCHANGED <<probed, staging, phase, edits>>

WrittenBack ==
  \E b \in Bcaches(kernel) : /\ kernel[b].cset = Leaving
                             /\ kernel' = [kernel EXCEPT ![b].cset = None]
                             /\ UNCHANGED <<probed, staging, phase, todo, edits>>

EndCommit == /\ phase = "commit" /\ todo = {}
             /\ phase' = "done"
             /\ UNCHANGED <<kernel, probed, staging, todo, edits>>

\* Also after a tool failed and the user stopped, or calculate_actiongraph threw.
\* A cache set that is leaving is waited for.
Probe == /\ phase # "edit" /\ edits < MaxEdits
         /\ \A b \in Bcaches(kernel) : kernel[b].cset # Leaving
         /\ probed' = kernel
         /\ staging' = kernel
         /\ phase' = "edit"
         /\ todo' = {}
         /\ UNCHANGED <<kernel, edits>>

Next == \/ CreateBcache
        \/ CreateBcacheCset
        \/ AttachBcacheCset
        \/ DetachBcacheCset
        \/ SetCacheMode
        \/ RemoveDevice
        \/ CalculateActiongraph
        \/ CommitAction
        \/ WrittenBack
        \/ EndCommit
        \/ Probe

Spec == Init /\ [][Next]_vars

-----------------------------------------------------------------------------
\* No bcache is above one with a higher number.
Ordered(g) == \A b \in Bcaches(g) : \A c \in Ancestors(g, b) \cap Bcaches(g) : g[c].number < g[b].number

\* No bcache changes from one cache set to another.
NoSwitch == \A b \in Bcaches(probed) \cap Bcaches(staging) :
               None \in {probed[b].cset, staging[b].cset} \/ probed[b].cset = staging[b].cset

Clear == Ordered(probed) /\ Ordered(staging) /\ NoSwitch

\* Whatever bcaches and cache sets are stacked, their actions have no cycle, and no
\* tool is called before it can do its work, if neither graph has a bcache above one
\* with a higher number and none changes from one cache set to another (Clear).
Committable == Clear => /\ phase # "thrown"
                        /\ phase = "commit" => \A a \in Ready : Accepted(a)

\* In every order the dependencies allow, and after commits that were aborted, a
\* bcache that is created gets the number, so the name, it has in staging: what is
\* done on /dev/bcache0 next is done to the right device.
NumbersCome ==
  /\ \A b \in Bcaches(kernel) \cap DOMAIN staging : kernel[b].number = staging[b].number
  /\ \A b, c \in Bcaches(staging) : staging[b].number = staging[c].number => b = c

\* A commit without an error leaves the bcaches and cache sets of staging.
EndsAsStaging ==
  phase = "done" => /\ DOMAIN kernel = DOMAIN staging
                    /\ \A d \in DOMAIN kernel :
                          \/ kernel[d] = staging[d]
                          \/ kernel[d].cset = Leaving /\ [kernel[d] EXCEPT !.cset = None] = staging[d]
=============================================================================
