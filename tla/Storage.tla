-------------------------------- MODULE Storage --------------------------------
(***************************************************************************)
(* Storage::Impl (storage/StorageImpl.cc) as the keeper of named device    *)
(* graphs, of the action graph, which points into two of them, and of      *)
(* storage ids remembered in pools and taboos, which outlive the graphs.   *)
(*                                                                         *)
(* A device graph is reduced to what its storage ids stand for: a function *)
(* from storage ids to things of the real world.  A pointer to a device    *)
(* graph is the name the graph has now, or "freed".                        *)
(*                                                                         *)
(* Duties of the client (doc/devicegraphs.md): of the three special graphs *)
(* it edits, removes and replaces staging only.  It commits at most once   *)
(* before it probes again.                                                 *)
(***************************************************************************)
EXTENDS Integers, FiniteSets

CONSTANTS Thing,       \* devices of the real world
          Present,     \* those there at first
          Taboo,       \* those named in LIBSTORAGE_TABOOS
          Backup,      \* names clients use for device graphs
          Saved,       \* files with device graphs that earlier programs saved
          KeepsForeign,  \* whether clients load those with keep_sids
          Null,
          FirstSid, MaxSid,  \* bound of the storage ids
          MaxKnown           \* bound of the devices in pools

ASSUME SidAssumption == FirstSid \in Nat /\ MaxSid \in Nat

ASSUME ThingAssumption == IsFiniteSet(Thing) /\ Present \subseteq Thing

\* Clients do not use the names of the special device graphs for theirs.
ASSUME NameAssumption == Backup \cap {"probed", "system", "staging"} = {}

ASSUME SavedAssumption ==
  \A g \in Saved \ {Null} : /\ DOMAIN g \subseteq Nat /\ IsFiniteSet(DOMAIN g)
                            /\ \A s \in DOMAIN g : g[s] \in Thing

VARIABLES
  graphs,      \* devicegraphs
  nextSid,     \* global_sid
  actiongraph, \* Null, or its two pointers and what they pointed to
  asked,       \* nothing the documentation forbids was done since
               \* calculate_actiongraph was called
  known,       \* taboos and the devices of pools, with what was meant
  file,        \* a file with a device graph
  own,         \* it was saved by this program
  world        \* the things that are there

vars == <<graphs, nextSid, actiongraph, asked, known, file, own, world>>

Special == {"probed", "system", "staging"}
Name == Special \cup Backup

Things(g) == {g[s] : s \in DOMAIN g}
Empty == [s \in {} |-> Null]

Set(name, g) == [n \in DOMAIN graphs \cup {name} |-> IF n = name THEN g ELSE graphs[n]]
Erase(names) == [n \in DOMAIN graphs \ names |-> graphs[n]]

\* The pointers of the action graph after graphs were erased.  What it was made from
\* is not remembered once it is out of date.
After(erased, outdated) ==
  /\ asked' = (asked /\ ~outdated)
  /\ actiongraph' =
       IF actiongraph = Null THEN Null
       ELSE [lhs |-> IF actiongraph.lhs \in erased THEN "freed" ELSE actiongraph.lhs,
             rhs |-> IF actiongraph.rhs \in erased THEN "freed" ELSE actiongraph.rhs,
             left |-> IF outdated THEN Null ELSE actiongraph.left,
             right |-> IF outdated THEN Null ELSE actiongraph.right]

\* The constructor.
Init == /\ graphs = [n \in Special |-> Empty]
        /\ nextSid = FirstSid
        /\ actiongraph = Null
        /\ asked = FALSE
        /\ known = {}
        /\ file \in Saved
        /\ own = FALSE
        /\ world = Present

-----------------------------------------------------------------------------
(* Probing                                                                 *)

\* Graphs that give the next storage ids to things.
Numbered(things) ==
  {g \in [nextSid .. nextSid + Cardinality(things) - 1 -> things] : Things(g) = things}

\* setup_taboos.  Taboos of earlier calls stay.
Tabooed(g) == {<<s, g[s]>> : s \in {x \in DOMAIN g : g[x] \in Taboo}}

Probe ==
  \E g \in Numbered(world) :
     /\ nextSid + Cardinality(world) <= MaxSid
     /\ graphs' = [n \in DOMAIN graphs \cup Special |-> IF n \in Special THEN g ELSE graphs[n]]
     /\ nextSid' = nextSid + Cardinality(world)
     /\ known' = known \cup Tabooed(g)
     /\ After(Special, TRUE)
     /\ UNCHANGED <<file, own, world>>

\* Prober throws, also when the client does not ignore an error: "system" has what
\* was found so far, the others are missing.
ProbeThrows ==
  \E found \in SUBSET world : \E g \in Numbered(found) :
     /\ nextSid + Cardinality(found) <= MaxSid
     /\ graphs' = [n \in (DOMAIN graphs \ Special) \cup {"system"} |->
                     IF n = "system" THEN g ELSE graphs[n]]
     /\ nextSid' = nextSid + Cardinality(found)
     /\ After(Special, TRUE)
     /\ UNCHANGED <<known, file, own, world>>

-----------------------------------------------------------------------------
(* The registry                                                            *)

Editable == Backup \cup {"staging"}

\* Changing staging ends what the documentation of calculate_actiongraph promises.
Touched(name) == After({}, name = "staging")

CreateDevice ==
  \E n \in Editable \cap DOMAIN graphs, t \in Thing :
     /\ t \notin Things(graphs[n]) \cup world
     /\ nextSid < MaxSid
     /\ graphs' = Set(n, [s \in DOMAIN graphs[n] \cup {nextSid} |->
                            IF s = nextSid THEN t ELSE graphs[n][s]])
     /\ nextSid' = nextSid + 1
     /\ Touched(n)
     /\ UNCHANGED <<known, file, own, world>>

RemoveDevice ==
  \E n \in Editable \cap DOMAIN graphs : \E s \in DOMAIN graphs[n] :
     /\ graphs' = Set(n, [x \in DOMAIN graphs[n] \ {s} |-> graphs[n][x]])
     /\ Touched(n)
     /\ UNCHANGED <<nextSid, known, file, own, world>>

\* create_devicegraph throws if the name is taken.
CopyDevicegraph ==
  \E source \in DOMAIN graphs, dest \in Editable \ DOMAIN graphs :
     /\ graphs' = Set(dest, graphs[source])
     /\ Touched(dest)
     /\ UNCHANGED <<nextSid, known, file, own, world>>

RemoveDevicegraph ==
  \E n \in Editable \cap DOMAIN graphs :
     /\ graphs' = Erase({n})
     /\ After({n}, n = "staging")
     /\ UNCHANGED <<nextSid, known, file, own, world>>

\* restore_devicegraph.  (With the name "staging" its iterator is used after the
\* graph was erased.)
RestoreDevicegraph ==
  \E n \in Backup \cap DOMAIN graphs :
     /\ "staging" \in DOMAIN graphs
     /\ graphs' = [x \in DOMAIN graphs \ {n} |-> IF x = "staging" THEN graphs[n] ELSE graphs[x]]
     /\ After({"staging"}, TRUE)
     /\ UNCHANGED <<nextSid, known, file, own, world>>

SaveDevicegraph ==
  \E n \in DOMAIN graphs :
     /\ file' = graphs[n]
     /\ own' = TRUE
     /\ UNCHANGED <<graphs, nextSid, actiongraph, asked, known, world>>

\* raise_global_sid for every device that is loaded: n is the next storage id then.
RaisedBy(g, n) == /\ nextSid <= n
                  /\ \A s \in DOMAIN g : s < n
                  /\ n = nextSid \/ n - 1 \in DOMAIN g

\* Mutant of Loaded: the storage ids of the file are kept.
LoadedAsSaved(g, n) == {[graph |-> g, next |-> n]}

\* The storage ids are replaced after all devices were loaded.
Loaded(g, n) ==
  LET size == Cardinality(DOMAIN g)
  IN  {[graph |-> [s \in n .. n + size - 1 |-> g[old[s]]], next |-> n + size] :
         old \in {f \in [n .. n + size - 1 -> DOMAIN g] : {f[s] : s \in DOMAIN f} = DOMAIN g}}

\* Devicegraph::load; it may throw after some devices, before the storage ids are
\* replaced.  (That of a foreign file leaves foreign storage ids, the client has to
\* remove that device graph.)
LoadDevicegraph ==
  \E n \in Editable \cap DOMAIN graphs, keep \in BOOLEAN, next \in nextSid .. MaxSid :
     /\ file # Null
     /\ keep => own \/ KeepsForeign
     /\ \/ /\ RaisedBy(file, next)
           /\ \E result \in IF keep THEN {[graph |-> file, next |-> next]} ELSE Loaded(file, next) :
                /\ result.next <= MaxSid
                /\ graphs' = Set(n, result.graph)
                /\ nextSid' = result.next
        \/ \E some \in SUBSET DOMAIN file :
              LET part == [s \in some |-> file[s]]
              IN  /\ own \/ KeepsForeign
                  /\ RaisedBy(part, next)
                  /\ graphs' = Set(n, part)
                  /\ nextSid' = next
     /\ Touched(n)
     /\ UNCHANGED <<known, file, own, world>>

\* Pool::add_device
AddToPool ==
  \E n \in DOMAIN graphs : \E s \in DOMAIN graphs[n] :
     /\ Cardinality(known) < MaxKnown
     /\ known' = known \cup {<<s, graphs[n][s]>>}
     /\ UNCHANGED <<graphs, nextSid, actiongraph, asked, file, own, world>>

-----------------------------------------------------------------------------
(* The action graph                                                        *)

\* Mutant of Forgotten: the old action graph is kept when the new one fails.
ForgottenLate == actiongraph

\* calculate_actiongraph frees the old one first.
Forgotten == Null

\* A graph is missing or the constructor throws.
CalculateThrows == /\ actiongraph' = Forgotten
                   /\ asked' = TRUE
                   /\ UNCHANGED <<graphs, nextSid, known, file, own, world>>

CalculateActiongraph ==
  /\ {"system", "staging"} \subseteq DOMAIN graphs
  /\ actiongraph' = [lhs |-> "system", rhs |-> "staging",
                     left |-> graphs["system"], right |-> graphs["staging"]]
  /\ asked' = TRUE
  /\ UNCHANGED <<graphs, nextSid, known, file, own, world>>

\* Any part of the work is done before an action throws.
Commit == /\ actiongraph # Null /\ asked
          /\ \E gone \in SUBSET (Things(actiongraph.left) \ Things(actiongraph.right)),
                new \in SUBSET (Things(actiongraph.right) \ Things(actiongraph.left)) :
                world' = (world \ gone) \cup new
          /\ After({}, TRUE)
          /\ UNCHANGED <<graphs, nextSid, known, file, own>>

Next == \/ Probe
        \/ ProbeThrows
        \/ CreateDevice
        \/ RemoveDevice
        \/ CopyDevicegraph
        \/ RemoveDevicegraph
        \/ RestoreDevicegraph
        \/ SaveDevicegraph
        \/ LoadDevicegraph
        \/ AddToPool
        \/ CalculateThrows
        \/ CalculateActiongraph
        \/ Commit

Spec == Init /\ [][Next]_vars

-----------------------------------------------------------------------------
\* Whoever obeys the documentation ("The actiongraph is only valid until either the
\* probed or staging devicegraph is modified.") finds no action graph or one of the
\* graphs that are now system and staging, alive and as they were, whatever was
\* copied, restored, saved and loaded in between and whether or not the last
\* calculation failed.
ActiongraphFits ==
  asked /\ actiongraph # Null =>
    /\ actiongraph.lhs = "system" /\ actiongraph.rhs = "staging"
    /\ {"system", "staging"} \subseteq DOMAIN graphs
    /\ graphs["system"] = actiongraph.left
    /\ graphs["staging"] = actiongraph.right

\* What a storage id stands for, in any device graph, pool or taboo.
Meant(g) == {<<s, g[s]>> : s \in DOMAIN g}
Meanings == known \cup UNION {Meant(graphs[n]) : n \in DOMAIN graphs}

\* A storage id stands for one thing, in all device graphs, pools and taboos, also
\* in those from before the last probing: an action graph never takes two devices
\* for one and a pool never returns another device than was added.
SidsUnique == \A a, b \in Meanings : a[1] = b[1] => a[2] = b[2]
=============================================================================
