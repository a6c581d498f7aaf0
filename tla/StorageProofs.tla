----------------------------- MODULE StorageProofs -----------------------------
(***************************************************************************)
(* Proofs about Storage, for any names, devices and files and any number   *)
(* of storage ids: the action graph fits, and a storage id stands for one  *)
(* thing.                                                                  *)
(***************************************************************************)
EXTENDS Storage, FiniteSetTheorems, TLAPS

-----------------------------------------------------------------------------
(* The action graph                                                        *)

LEMMA FitsStep == ActiongraphFits /\ [Next]_vars => ActiongraphFits'
<1> SUFFICES ASSUME ActiongraphFits, [Next]_vars
             PROVE  ActiongraphFits'
  OBVIOUS
<1> USE DEF ActiongraphFits
<1>1. CASE Probe
  BY <1>1 DEF Probe, After
<1>2. CASE ProbeThrows
  BY <1>2 DEF ProbeThrows, After
<1>3. ASSUME NEW n \in Editable, NEW g, graphs' = Set(n, g), Touched(n)
      PROVE  ActiongraphFits'
  <2>1. n # "system"
    BY NameAssumption DEF Editable
  <2> QED
    BY <1>3, <2>1 DEF Touched, After, Set
<1>4. CASE CreateDevice
  BY <1>3, <1>4 DEF CreateDevice
<1>5. CASE RemoveDevice
  BY <1>3, <1>5 DEF RemoveDevice
<1>6. CASE CopyDevicegraph
  BY <1>3, <1>6 DEF CopyDevicegraph
<1>7. CASE RemoveDevicegraph
  <2>1. PICK n \in Editable \cap DOMAIN graphs : graphs' = Erase({n}) /\ After({n}, n = "staging")
    BY <1>7 DEF RemoveDevicegraph
  <2>2. n # "system"
    BY NameAssumption DEF Editable
  <2> QED
    BY <2>1, <2>2 DEF After, Erase
<1>8. CASE RestoreDevicegraph
  BY <1>8 DEF RestoreDevicegraph, After
<1>9. CASE SaveDevicegraph
  BY <1>9 DEF SaveDevicegraph
<1>10. CASE LoadDevicegraph
  BY <1>3, <1>10 DEF LoadDevicegraph
<1>11. CASE AddToPool
  BY <1>11 DEF AddToPool
<1>12. CASE CalculateThrows
  BY <1>12 DEF CalculateThrows, Forgotten
<1>13. CASE CalculateActiongraph
  BY <1>13 DEF CalculateActiongraph
<1>14. CASE Commit
  BY <1>14 DEF Commit, After
<1>15. CASE UNCHANGED vars
  BY <1>15 DEF vars
<1> QED
  BY <1>1, <1>2, <1>4, <1>5, <1>6, <1>7, <1>8, <1>9, <1>10, <1>11, <1>12, <1>13, <1>14, <1>15
     DEF Next

\* The action graph of whoever obeys the documentation fits the device graphs: what
\* changes system or staging ends the promise, what does not leaves the pointers.
THEOREM Fits == Spec => []ActiongraphFits
<1>1. Init => ActiongraphFits
  BY DEF Init, ActiongraphFits
<1> QED
  BY <1>1, FitsStep, PTL DEF Spec

-----------------------------------------------------------------------------
(* Storage ids                                                             *)

\* Storage ids below n that stand for things.
Below(g, n) == /\ DOMAIN g \subseteq 0 .. n - 1
               /\ \A s \in DOMAIN g : g[s] \in Thing

\* A storage id that will be in a device graph again: from device graphs, pools,
\* taboos and the file, if its storage ids are kept.
Remembered == Meanings \cup IF own THEN Meant(file) ELSE {}

Unique(M) == \A a, b \in M : a[1] = b[1] => a[2] = b[2]

Typed == /\ nextSid \in Nat
         /\ world \subseteq Thing
         /\ \A n \in DOMAIN graphs : Below(graphs[n], nextSid)
         /\ known \subseteq (0 .. nextSid - 1) \X Thing
         /\ own => Below(file, nextSid)
         /\ ~ own => file \in Saved

\* What is remembered has storage ids below the next one, so new ones are new.
IInv == Typed /\ Unique(Remembered) /\ ActiongraphFits

LEMMA InitIInv == Init => IInv
<1> SUFFICES ASSUME Init PROVE IInv
  OBVIOUS
<1>1. Typed
  BY SidAssumption, ThingAssumption DEF Init, Typed, Below, Empty, Special
<1>2. Remembered = {}
  BY DEF Init, Remembered, Meanings, Meant, Empty, Special
<1>3. ActiongraphFits
  BY DEF Init, ActiongraphFits
<1> QED
  BY <1>1, <1>2, <1>3 DEF IInv, Unique

\* The numbers of finite sets of things.
LEMMA CountedThings ==
  ASSUME NEW S \in SUBSET Thing
  PROVE  Cardinality(S) \in Nat
BY ThingAssumption, FS_Subset, FS_CardinalityType

\* Fresh storage ids do not take the meaning of others.
LEMMA FreshUnique ==
  ASSUME Typed, Unique(Remembered), NEW g,
         \A s \in DOMAIN g : s \in Nat /\ nextSid <= s
  PROVE  Unique(Remembered \cup Meant(g))
<1>1. \A m \in Remembered : m[1] \in 0 .. nextSid - 1
  BY DEF Typed, Below, Remembered, Meanings, Meant
<1>2. \A m \in Meant(g) : m[1] \in Nat /\ nextSid <= m[1] /\ m[2] = g[m[1]]
  BY DEF Meant
<1>3. nextSid \in Nat
  BY DEF Typed
<1>4. SUFFICES ASSUME NEW a \in Remembered \cup Meant(g), NEW b \in Remembered \cup Meant(g),
                      a[1] = b[1]
               PROVE  a[2] = b[2]
  BY DEF Unique
<1>5. CASE a \in Remembered /\ b \in Remembered
  BY <1>4, <1>5 DEF Unique
<1>6. CASE a \in Meant(g) /\ b \in Meant(g)
  BY <1>2, <1>4, <1>6
<1> QED
  BY <1>1, <1>2, <1>3, <1>4, <1>5, <1>6

\* What remembers less is unique, too.
LEMMA FewerUnique ==
  ASSUME NEW M, NEW N, Unique(M), N \subseteq M
  PROVE  Unique(N)
BY DEF Unique

\* With a larger next storage id what was below stays below.
LEMMA StaysBelow ==
  ASSUME NEW g, NEW n \in Nat, NEW m \in Nat, Below(g, n), n <= m
  PROVE  Below(g, m)
BY DEF Below

\* Fresh storage ids from the next one on.
Fresh(g, n) == /\ \A s \in DOMAIN g : s \in nextSid .. n - 1
               /\ \A s \in DOMAIN g : g[s] \in Thing

LEMMA FreshBelow ==
  ASSUME nextSid \in Nat, NEW n \in Nat, NEW g, Fresh(g, n)
  PROVE  Below(g, n)
BY DEF Fresh, Below

\* Every action adds at most one device graph with fresh storage ids to what is
\* remembered.
LEMMA StepUnique ==
  ASSUME Typed, Unique(Remembered), NEW n, NEW g, Fresh(g, n),
         Remembered' \subseteq Remembered \cup Meant(g)
  PROVE  Unique(Remembered)'
<1>1. Unique(Remembered \cup Meant(g))
  BY FreshUnique DEF Fresh, Typed
<1> QED
  BY <1>1, FewerUnique DEF Unique

LEMMA NumberedFresh ==
  ASSUME Typed, NEW S \in SUBSET Thing, NEW g \in Numbered(S)
  PROVE  /\ nextSid + Cardinality(S) \in Nat
         /\ nextSid <= nextSid + Cardinality(S)
         /\ Fresh(g, nextSid + Cardinality(S))
<1>1. Cardinality(S) \in Nat
  BY CountedThings
<1>2. g \in [nextSid .. nextSid + Cardinality(S) - 1 -> S]
  BY DEF Numbered
<1> QED
  BY <1>1, <1>2 DEF Typed, Fresh

\* Probing: all special device graphs, or "system" only, are the new one.
LEMMA ProbeKeeps ==
  ASSUME Typed, Unique(Remembered), NEW S \in SUBSET Thing, NEW g \in Numbered(S),
         nextSid' = nextSid + Cardinality(S),
         \A n \in DOMAIN graphs' : graphs'[n] = g \/ (n \in DOMAIN graphs /\ graphs'[n] = graphs[n]),
         known' \subseteq known \cup Tabooed(g),
         UNCHANGED <<file, own, world>>
  PROVE  Typed' /\ Unique(Remembered)'
<1>1. /\ nextSid' \in Nat /\ nextSid \in Nat
      /\ nextSid <= nextSid'
      /\ Fresh(g, nextSid')
  BY NumberedFresh DEF Typed
<1>2. Below(g, nextSid')
  BY <1>1, FreshBelow
<1>3. \A n \in DOMAIN graphs' : Below(graphs'[n], nextSid')
  BY <1>1, <1>2, StaysBelow DEF Typed
<1>4. Tabooed(g) \subseteq Meant(g)
  BY DEF Tabooed, Meant
<1>5. Meant(g) \subseteq (0 .. nextSid' - 1) \X Thing
  BY <1>2 DEF Meant, Below
<1>6. known' \subseteq (0 .. nextSid' - 1) \X Thing
  BY <1>1, <1>4, <1>5 DEF Typed
<1>7. own => Below(file, nextSid')
  BY <1>1, StaysBelow DEF Typed
<1>8. Typed'
  BY <1>1, <1>3, <1>6, <1>7 DEF Typed, Below
<1>9. Remembered' \subseteq Remembered \cup Meant(g)
  BY <1>4 DEF Remembered, Meanings, Meant
<1> QED
  BY <1>1, <1>8, <1>9, StepUnique

\* Changes of the registry: a device graph is as before, or has only what is
\* remembered or fresh.
LEMMA RegistryKeeps ==
  ASSUME Typed, Unique(Remembered), NEW g,
         nextSid' \in Nat, nextSid <= nextSid', Fresh(g, nextSid'),
         \A n \in DOMAIN graphs' :
            \/ n \in DOMAIN graphs /\ graphs'[n] = graphs[n]
            \/ Below(graphs'[n], nextSid') /\ Meant(graphs'[n]) \subseteq Remembered \cup Meant(g),
         UNCHANGED <<known, file, own, world>>
  PROVE  Typed' /\ Unique(Remembered)'
<1>1. nextSid \in Nat
  BY DEF Typed
<1>2. \A n \in DOMAIN graphs' : Below(graphs'[n], nextSid')
  BY <1>1, StaysBelow DEF Typed
<1>3. own => Below(file, nextSid')
  BY <1>1, StaysBelow DEF Typed
<1>4. known' \subseteq (0 .. nextSid' - 1) \X Thing
  BY <1>1 DEF Typed
<1>5. Typed'
  BY <1>2, <1>3, <1>4 DEF Typed, Below
<1>6. \A n \in DOMAIN graphs' : Meant(graphs'[n]) \subseteq Remembered \cup Meant(g)
  BY DEF Remembered, Meanings
<1>7. Remembered' \subseteq Remembered \cup Meant(g)
  BY <1>6 DEF Remembered, Meanings, Meant
<1> QED
  BY <1>5, <1>7, StepUnique

\* Nothing fresh.
LEMMA NothingFresh == ASSUME NEW n PROVE Fresh(Empty, n) /\ Meant(Empty) = {}
BY DEF Fresh, Empty, Meant

LEMMA CreateKeeps == Typed /\ Unique(Remembered) /\ CreateDevice => Typed' /\ Unique(Remembered)'
<1> SUFFICES ASSUME Typed, Unique(Remembered), CreateDevice
             PROVE  Typed' /\ Unique(Remembered)'
  OBVIOUS
<1>1. PICK n \in DOMAIN graphs, t \in Thing :
         /\ graphs' = Set(n, [s \in DOMAIN graphs[n] \cup {nextSid} |->
                                IF s = nextSid THEN t ELSE graphs[n][s]])
         /\ nextSid' = nextSid + 1
         /\ UNCHANGED <<known, file, own, world>>
  BY DEF CreateDevice
<1> DEFINE g == [s \in {nextSid} |-> t]
<1>2. nextSid \in Nat /\ nextSid' \in Nat /\ nextSid <= nextSid'
  BY <1>1 DEF Typed
<1>3. Fresh(g, nextSid')
  BY <1>1, <1>2 DEF Fresh
<1>4. Below(graphs'[n], nextSid') /\ Meant(graphs'[n]) \subseteq Meant(graphs[n]) \cup Meant(g)
  BY <1>1, <1>2 DEF Set, Below, Meant, Typed
<1>5. Meant(graphs[n]) \subseteq Remembered
  BY DEF Remembered, Meanings
<1>6. \A m \in DOMAIN graphs' : \/ m \in DOMAIN graphs /\ graphs'[m] = graphs[m]
                                \/ m = n
  BY <1>1 DEF Set
<1> HIDE DEF g
<1> QED
  BY <1>1, <1>2, <1>3, <1>4, <1>5, <1>6, RegistryKeeps

\* Device graphs that are copied, moved, removed or get smaller.
LEMMA OldKeeps ==
  ASSUME Typed, Unique(Remembered),
         \A n \in DOMAIN graphs' :
            \E m \in DOMAIN graphs : \/ graphs'[n] = graphs[m]
                                     \/ \E s \in DOMAIN graphs[m] :
                                           graphs'[n] = [x \in DOMAIN graphs[m] \ {s} |-> graphs[m][x]],
         UNCHANGED <<nextSid, known, file, own, world>>
  PROVE  Typed' /\ Unique(Remembered)'
<1>1. nextSid' \in Nat /\ nextSid <= nextSid' /\ Fresh(Empty, nextSid')
  BY NothingFresh DEF Typed
<1>2. \A n \in DOMAIN graphs' : \E m \in DOMAIN graphs :
         Below(graphs'[n], nextSid') /\ Meant(graphs'[n]) \subseteq Meant(graphs[m])
  <2> TAKE n \in DOMAIN graphs'
  <2>1. PICK m \in DOMAIN graphs :
           \/ graphs'[n] = graphs[m]
           \/ \E s \in DOMAIN graphs[m] :
                 graphs'[n] = [x \in DOMAIN graphs[m] \ {s} |-> graphs[m][x]]
    OBVIOUS
  <2>2. Below(graphs[m], nextSid')
    BY DEF Typed
  <2>3. CASE graphs'[n] = graphs[m]
    BY <2>2, <2>3
  <2>4. ASSUME NEW s \in DOMAIN graphs[m],
               graphs'[n] = [x \in DOMAIN graphs[m] \ {s} |-> graphs[m][x]]
        PROVE  Below(graphs'[n], nextSid') /\ Meant(graphs'[n]) \subseteq Meant(graphs[m])
    BY <2>2, <2>4 DEF Below, Meant
  <2> QED
    BY <2>1, <2>3, <2>4
<1>3. \A m \in DOMAIN graphs : Meant(graphs[m]) \subseteq Remembered
  BY DEF Remembered, Meanings
<1> QED
  BY <1>1, <1>2, <1>3, RegistryKeeps

LEMMA LoadKeeps ==
  Typed /\ Unique(Remembered) /\ ~ KeepsForeign /\ LoadDevicegraph => Typed' /\ Unique(Remembered)'
<1> SUFFICES ASSUME Typed, Unique(Remembered), ~ KeepsForeign, LoadDevicegraph
             PROVE  Typed' /\ Unique(Remembered)'
  OBVIOUS
<1>1. PICK n \in DOMAIN graphs, keep \in BOOLEAN, next \in nextSid .. MaxSid :
         /\ file # Null
         /\ keep => own
         /\ \/ /\ RaisedBy(file, next)
               /\ \E result \in IF keep THEN {[graph |-> file, next |-> next]} ELSE Loaded(file, next) :
                    /\ graphs' = Set(n, result.graph)
                    /\ nextSid' = result.next
            \/ \E some \in SUBSET DOMAIN file :
                 LET part == [s \in some |-> file[s]]
                 IN  /\ own
                     /\ graphs' = Set(n, part)
                     /\ nextSid' = next
         /\ UNCHANGED <<known, file, own, world>>
  BY DEF LoadDevicegraph
<1>2. nextSid \in Nat /\ next \in Nat /\ nextSid <= next
  BY SidAssumption DEF Typed
<1>3. own => Meant(file) \subseteq Remembered /\ Below(file, next)
  BY <1>2, StaysBelow DEF Typed, Remembered
<1>4. ASSUME NEW g, graphs' = Set(n, g), nextSid' = next,
             Below(g, next), Meant(g) \subseteq Remembered
      PROVE  Typed' /\ Unique(Remembered)'
  <2>1. \A m \in DOMAIN graphs' : \/ m \in DOMAIN graphs /\ graphs'[m] = graphs[m]
                                  \/ graphs'[m] = g
    BY <1>4 DEF Set
  <2> QED
    BY <1>1, <1>2, <1>4, <2>1, NothingFresh, RegistryKeeps
<1>5. CASE keep /\ graphs' = Set(n, file) /\ nextSid' = next
  BY <1>1, <1>3, <1>4, <1>5
<1>6. ASSUME own, NEW some \in SUBSET DOMAIN file,
             graphs' = Set(n, [s \in some |-> file[s]]), nextSid' = next
      PROVE  Typed' /\ Unique(Remembered)'
  BY <1>3, <1>4, <1>6 DEF Below, Meant
<1>7. ASSUME NEW result \in Loaded(file, next), graphs' = Set(n, result.graph), nextSid' = result.next
      PROVE  Typed' /\ Unique(Remembered)'
  <2> DEFINE size == Cardinality(DOMAIN file)
  <2>1. size \in Nat /\ \A s \in DOMAIN file : file[s] \in Thing
    <3>1. CASE own
      <4>1. DOMAIN file \subseteq 0 .. nextSid - 1 /\ \A s \in DOMAIN file : file[s] \in Thing
        BY <3>1 DEF Typed, Below
      <4>2. IsFiniteSet(0 .. nextSid - 1)
        BY <1>2, FS_Interval
      <4> QED
        BY <4>1, <4>2, FS_Subset, FS_CardinalityType
    <3>2. CASE ~ own
      <4>1. file \in Saved \ {Null}
        BY <1>1, <3>2 DEF Typed
      <4> QED
        BY <4>1, SavedAssumption, FS_CardinalityType
    <3> QED
      BY <3>1, <3>2
  <2> HIDE DEF size
  <2>2. PICK old \in [next .. next + size - 1 -> DOMAIN file] :
           result = [graph |-> [s \in next .. next + size - 1 |-> file[old[s]]], next |-> next + size]
    BY <1>7 DEF Loaded, size
  <2> DEFINE g == [s \in next .. next + size - 1 |-> file[old[s]]]
  <2>3. result.graph = g /\ result.next = next + size
    BY <2>2
  <2>4. nextSid' = next + size /\ nextSid' \in Nat /\ nextSid <= nextSid'
    BY <1>2, <1>7, <2>1, <2>3
  <2>5. \A s \in DOMAIN g : s \in next .. next + size - 1 /\ g[s] \in Thing
    BY <2>1, <2>2
  <2> HIDE DEF g
  <2>6. Fresh(g, nextSid')
    BY <1>2, <2>1, <2>4, <2>5 DEF Fresh
  <2>7. Below(g, nextSid')
    BY <1>2, <2>4, <2>6, FreshBelow
  <2>8. \A m \in DOMAIN graphs' : \/ m \in DOMAIN graphs /\ graphs'[m] = graphs[m]
                                  \/ graphs'[m] = g
    BY <1>7, <2>3 DEF Set
  <2> QED
    BY <1>1, <2>4, <2>6, <2>7, <2>8, RegistryKeeps
<1>8. CASE \E result \in IF keep THEN {[graph |-> file, next |-> next]} ELSE Loaded(file, next) :
              /\ graphs' = Set(n, result.graph)
              /\ nextSid' = result.next
  <2>1. PICK result \in IF keep THEN {[graph |-> file, next |-> next]} ELSE Loaded(file, next) :
              /\ graphs' = Set(n, result.graph)
              /\ nextSid' = result.next
    BY <1>8
  <2>2. CASE keep
    <3>1. result = [graph |-> file, next |-> next]
      BY <2>1, <2>2
    <3>2. result.graph = file /\ result.next = next
      BY <3>1
    <3> QED
      BY <1>5, <2>1, <2>2, <3>2
  <2>3. CASE ~ keep
    <3>1. result \in Loaded(file, next)
      BY <2>1, <2>3
    <3> QED
      BY <1>7, <2>1, <3>1
  <2> QED
    BY <2>2, <2>3
<1>9. CASE \E some \in SUBSET DOMAIN file :
              LET part == [s \in some |-> file[s]]
              IN  own /\ graphs' = Set(n, part) /\ nextSid' = next
  BY <1>6, <1>9
<1> QED
  BY <1>1, <1>8, <1>9

LEMMA NextIInv == ~ KeepsForeign /\ IInv /\ [Next]_vars => IInv'
<1> SUFFICES ASSUME ~ KeepsForeign, Typed, Unique(Remembered), ActiongraphFits, [Next]_vars
             PROVE  Typed' /\ Unique(Remembered)'
  BY FitsStep DEF IInv
<1>1. CASE Probe
  <2>1. PICK g \in Numbered(world) :
           /\ graphs' = [n \in DOMAIN graphs \cup Special |-> IF n \in Special THEN g ELSE graphs[n]]
           /\ nextSid' = nextSid + Cardinality(world)
           /\ known' = known \cup Tabooed(g)
           /\ UNCHANGED <<file, own, world>>
    BY <1>1 DEF Probe
  <2>2. \A n \in DOMAIN graphs' : graphs'[n] = g \/ (n \in DOMAIN graphs /\ graphs'[n] = graphs[n])
    BY <2>1
  <2>3. world \in SUBSET Thing
    BY DEF Typed
  <2> QED
    BY <2>1, <2>2, <2>3, ProbeKeeps
<1>2. CASE ProbeThrows
  <2>1. PICK found \in SUBSET world : \E g \in Numbered(found) :
           /\ graphs' = [n \in (DOMAIN graphs \ Special) \cup {"system"} |->
                           IF n = "system" THEN g ELSE graphs[n]]
           /\ nextSid' = nextSid + Cardinality(found)
           /\ UNCHANGED <<known, file, own, world>>
    BY <1>2 DEF ProbeThrows
  <2>2. found \in SUBSET Thing
    BY DEF Typed
  <2> QED
    BY <2>1, <2>2, ProbeKeeps
<1>3. CASE CreateDevice
  BY <1>3, CreateKeeps
<1>4. CASE RemoveDevice
  BY <1>4, OldKeeps DEF RemoveDevice, Set
<1>5. CASE CopyDevicegraph
  BY <1>5, OldKeeps DEF CopyDevicegraph, Set
<1>6. CASE RemoveDevicegraph
  BY <1>6, OldKeeps DEF RemoveDevicegraph, Erase
<1>7. CASE RestoreDevicegraph
  BY <1>7, OldKeeps DEF RestoreDevicegraph
<1>8. CASE SaveDevicegraph
  <2>1. Typed'
    BY <1>8 DEF SaveDevicegraph, Typed
  <2>2. Remembered' \subseteq Remembered
    BY <1>8 DEF SaveDevicegraph, Remembered, Meanings, Meant
  <2> QED
    BY <2>1, <2>2 DEF Unique
<1>9. CASE LoadDevicegraph
  BY <1>9, LoadKeeps
<1>10. CASE AddToPool
  <2>1. Typed'
    BY <1>10 DEF AddToPool, Typed, Below
  <2>2. Remembered' \subseteq Remembered
    BY <1>10 DEF AddToPool, Remembered, Meanings, Meant
  <2> QED
    BY <2>1, <2>2 DEF Unique
<1>11. CASE CalculateThrows \/ CalculateActiongraph \/ UNCHANGED vars
  BY <1>11 DEF CalculateThrows, CalculateActiongraph, vars, Typed, Below, Remembered, Meanings, Meant, Unique
<1>12. CASE Commit
  <2>1. PICK gone \in SUBSET (Things(actiongraph.left) \ Things(actiongraph.right)) :
           \E new \in SUBSET (Things(actiongraph.right) \ Things(actiongraph.left)) :
              world' = (world \ gone) \cup new
    BY <1>12 DEF Commit
  <2>2. actiongraph.right = graphs["staging"] /\ "staging" \in DOMAIN graphs
    BY <1>12 DEF Commit, ActiongraphFits
  <2>3. Things(graphs["staging"]) \subseteq Thing
    BY <2>2 DEF Typed, Below, Things
  <2>4. world' \subseteq Thing
    BY <2>1, <2>2, <2>3 DEF Typed
  <2>5. UNCHANGED <<graphs, nextSid, known, file, own>>
    BY <1>12 DEF Commit
  <2> QED
    BY <2>4, <2>5 DEF Typed, Below, Remembered, Meanings, Meant, Unique
<1> QED
  BY <1>1, <1>2, <1>3, <1>4, <1>5, <1>6, <1>7, <1>8, <1>9, <1>10, <1>11, <1>12 DEF Next

\* Unless clients load foreign files with their storage ids, a storage id stands for
\* one thing in all device graphs, pools and taboos, however often is probed, copied,
\* restored, saved and loaded: new ones are larger than all that are remembered.
THEOREM Unambiguous == ~ KeepsForeign => (Spec => []SidsUnique)
<1> SUFFICES ASSUME ~ KeepsForeign
             PROVE  Spec => []SidsUnique
  OBVIOUS
<1>1. IInv /\ [Next]_vars => IInv'
  BY NextIInv
<1>2. IInv => SidsUnique
  BY DEF IInv, Unique, Remembered, SidsUnique
<1> QED
  BY <1>1, <1>2, InitIInv, PTL DEF Spec
=============================================================================
