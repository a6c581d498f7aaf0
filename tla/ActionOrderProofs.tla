-------------------------- MODULE ActionOrderProofs --------------------------
(***************************************************************************)
(* Theorems about ActionOrder.tla, for any finite graph of actions.        *)
(***************************************************************************)
EXTENDS ActionOrder, FiniteSetTheorems, TLAPS

\* The dependencies of w that are not in the order.
Pending(w) == {e \in In(w) : Source(e) \notin Done}

Sorted == at \in {"sorting", "ordered", "thrown"}

\* The counters count the pending dependencies.
Counted == Sorted => \A w \in Action : in_degrees[w] = Cardinality(Pending(w))

\* Ready are the actions not in the order whose counter is zero.
ReadyInQ == Sorted => q = {w \in vertices \ Done : in_degrees[w] = 0}

IInv == /\ TypeOK
        /\ IsFiniteSet(vertices)
        /\ IsFiniteSet(edges)
        /\ ~ Sorted => q = {} /\ order = << >>
        /\ Counted
        /\ ReadyInQ
        /\ EdgesRespected
        /\ at \in {"ordered", "thrown"} => q = {} /\ (at = "ordered" <=> Complete)

\* The counters of a finite graph are natural numbers.
LEMMA PendingFinite ==
  ASSUME IsFiniteSet(edges), NEW w
  PROVE  /\ IsFiniteSet(In(w)) /\ IsFiniteSet(Pending(w))
         /\ Cardinality(In(w)) \in Nat /\ Cardinality(Pending(w)) \in Nat
         /\ Cardinality(In(w)) = 0 <=> In(w) = {}
         /\ Cardinality(Pending(w)) = 0 <=> Pending(w) = {}
<1>1. In(w) \subseteq edges /\ Pending(w) \subseteq edges
  BY DEF In, Pending
<1>2. IsFiniteSet(In(w)) /\ IsFiniteSet(Pending(w))
  BY <1>1, FS_Subset
<1> QED BY <1>2, FS_CardinalityType, FS_EmptySet

\* Nothing is ordered in the graph as built.
LEMMA InitIInv == Init => IInv
<1> SUFFICES ASSUME Init PROVE IInv
  OBVIOUS
<1>1. TypeOK
  BY GraphAssumption DEF Init, TypeOK, Source, Target
<1>2. IsFiniteSet(vertices) /\ IsFiniteSet(edges)
  BY ActionAssumption, GraphAssumption DEF Init
<1> QED BY <1>1, <1>2 DEF Init, IInv, Sorted, Counted, ReadyInQ, EdgesRespected

\* Bridging a sync-only action adds finitely many edges.
LEMMA BridgesFinite ==
  ASSUME IsFiniteSet(edges), NEW v
  PROVE  IsFiniteSet(Bridges(v))
<1> DEFINE Pairs == In(v) \X Out(v)
           bridge(p) == <<Source(p[1]), Target(p[2]), p>>
<1>1. In(v) \subseteq edges /\ Out(v) \subseteq edges
  BY DEF In, Out
<1>2. IsFiniteSet(In(v)) /\ IsFiniteSet(Out(v))
  BY <1>1, FS_Subset
<1>3. IsFiniteSet(Pairs)
  BY <1>2, FS_Product
<1>4. Bridges(v) = {bridge(p) : p \in Pairs}
  BY DEF Bridges
<1>5. [p \in Pairs |-> bridge(p)] \in Surjection(Pairs, Bridges(v))
  BY <1>4 DEF Surjection
<1> QED BY <1>3, <1>5, FS_Surjection

\* Removing a sync-only action leaves a graph over the remaining actions.
LEMMA RemoveOnlySyncIInv ==
  ASSUME IInv, NEW v \in Action, RemoveOnlySync(v)
  PROVE  IInv'
<1>1. /\ at = "syncs" /\ at' = at /\ ~ Sorted /\ ~ Sorted'
      /\ UNCHANGED <<priority, in_degrees, q, order>>
      /\ vertices' = vertices \ {v}
      /\ edges' = {e \in edges \cup Bridges(v) : v \notin {Source(e), Target(e)}}
  BY DEF RemoveOnlySync, Sorted
<1>2. \A e \in Bridges(v) : Source(e) \in vertices /\ Target(e) \in vertices
  BY DEF IInv, TypeOK, Bridges, In, Out, Source, Target
<1>3. q = {} /\ order = << >>
  BY <1>1 DEF IInv
<1>4. \A e \in edges' : Source(e) \in vertices' /\ Target(e) \in vertices'
  BY <1>1, <1>2 DEF IInv, TypeOK
<1>5. IsFiniteSet(vertices')
  BY <1>1, FS_Subset DEF IInv
<1>6. IsFiniteSet(edges')
  <2>1. IsFiniteSet(edges \cup Bridges(v))
    BY BridgesFinite, FS_Union DEF IInv
  <2>2. edges' \subseteq edges \cup Bridges(v)
    BY <1>1
  <2> QED BY <2>1, <2>2, FS_Subset
<1>7. TypeOK'
  <2>1. order' \in Seq(vertices')
    BY <1>1, <1>3
  <2> QED BY <1>1, <1>3, <1>4, <2>1 DEF IInv, TypeOK
<1> QED BY <1>1, <1>3, <1>5, <1>6, <1>7 DEF IInv, Counted, ReadyInQ, EdgesRespected

\* The counters start with all dependencies, and q with the actions without any.
LEMMA StartSortIInv ==
  ASSUME IInv, StartSort
  PROVE  IInv'
<1>1. /\ at = "prioritised" /\ at' = "sorting" /\ ~ Sorted /\ Sorted'
      /\ q = {} /\ order = << >>
      /\ UNCHANGED <<vertices, edges, priority, order>>
      /\ in_degrees' = [v \in Action |-> Cardinality(In(v))]
      /\ q' = {v \in vertices : in_degrees'[v] = 0}
  BY DEF StartSort, Sorted, IInv
<1>2. Done = {} /\ Done' = {}
  BY <1>1 DEF Done
<1>3. \A w \in Action : In(w)' = In(w) /\ Pending(w)' = In(w)
  BY <1>1, <1>2 DEF In, Pending, Source, Target
<1>4. \A w \in Action : Cardinality(In(w)) \in Nat
  BY PendingFinite DEF IInv
<1>5. TypeOK'
  BY <1>1, <1>4 DEF IInv, TypeOK
<1>6. Counted'
  BY <1>1, <1>3 DEF Counted
<1>7. ReadyInQ'
  BY <1>1, <1>2 DEF ReadyInQ
<1>8. EdgesRespected'
  BY <1>1 DEF EdgesRespected
<1> QED BY <1>1, <1>5, <1>6, <1>7, <1>8 DEF IInv

\* The sorting loop: the counters keep counting and nothing is pushed twice or
\* too early.
LEMMA PickIInv ==
  ASSUME IInv, NEW v \in Action, Pick(v)
  PROVE  IInv'
<1>1. /\ at = "sorting" /\ at' = "sorting" /\ Sorted /\ Sorted'
      /\ v \in q
      /\ order' = Append(order, v)
      /\ in_degrees' = [w \in Action |-> Decremented(v, w)]
      /\ q' = (q \ {v}) \cup {w \in vertices : in_degrees[w] > 0 /\ in_degrees'[w] <= 0}
      /\ UNCHANGED <<vertices, edges, priority>>
  BY DEF Pick, Sorted
<1>2. /\ v \in vertices /\ v \notin Done /\ in_degrees[v] = 0
      /\ order \in Seq(vertices) /\ vertices \subseteq Action
      /\ \A w \in Action : in_degrees[w] \in Nat
  BY <1>1 DEF IInv, ReadyInQ, TypeOK
<1>3. Done' = Done \cup {v}
  BY <1>1, <1>2 DEF Done
<1>4. \A w \in Action : In(w)' = In(w)
  BY <1>1 DEF In, Target
<1>5. Pending(v) = {}
  BY <1>1, <1>2, PendingFinite DEF IInv, Counted
<1>6. \A w \in Action : /\ in_degrees'[w] = Cardinality(Pending(w)')
                         /\ in_degrees'[w] \in Nat /\ in_degrees'[w] <= in_degrees[w]
  <2> SUFFICES ASSUME NEW w \in Action
               PROVE  /\ in_degrees'[w] = Cardinality(Pending(w)')
                      /\ in_degrees'[w] \in Nat /\ in_degrees'[w] <= in_degrees[w]
    OBVIOUS
  <2> DEFINE walked == In(w) \cap Out(v)
  <2>1. Pending(w)' = Pending(w) \ walked /\ Pending(w) \cap walked = walked
    BY <1>2, <1>3, <1>4 DEF Pending, In, Out
  <2>2. IsFiniteSet(Pending(w)) /\ IsFiniteSet(walked)
    BY PendingFinite, FS_Intersection DEF IInv
  <2>3. Cardinality(Pending(w)') = Cardinality(Pending(w)) - Cardinality(walked)
    <3> HIDE DEF walked
    <3>1. Cardinality(Pending(w) \ walked)
            = Cardinality(Pending(w)) - Cardinality(Pending(w) \cap walked)
      BY <2>2, FS_Difference
    <3> QED BY <2>1, <3>1
  <2>4. /\ Cardinality(walked) \in Nat /\ Cardinality(Pending(w)) \in Nat
        /\ Cardinality(Pending(w)') \in Nat
    <3>1. IsFiniteSet(Pending(w) \ walked)
      BY <2>2, FS_Difference
    <3> QED BY <2>1, <2>2, <3>1, FS_CardinalityType
  <2>5. in_degrees'[w] = in_degrees[w] - Cardinality(walked)
    BY <1>1 DEF Decremented
  <2>6. in_degrees[w] = Cardinality(Pending(w))
    BY <1>1 DEF IInv, Counted
  <2> QED BY <2>3, <2>4, <2>5, <2>6
<1>7. TypeOK'
  BY <1>1, <1>2, <1>6 DEF IInv, TypeOK
<1>8. Counted'
  BY <1>6 DEF Counted
<1>9. \A w \in vertices : w \in Done => in_degrees[w] = 0
  <2> SUFFICES ASSUME NEW w \in vertices, w \in Done PROVE in_degrees[w] = 0
    OBVIOUS
  <2>1. Pending(w) = {}
    BY <1>2 DEF IInv, EdgesRespected, Pending, Done
  <2> QED BY <1>1, <1>2, <2>1, FS_EmptySet DEF IInv, Counted
<1>10. ReadyInQ'
  <2>1. q = {w \in vertices \ Done : in_degrees[w] = 0}
    BY <1>1 DEF IInv, ReadyInQ
  <2>2. \A w \in q' : w \in vertices \ Done' /\ in_degrees'[w] = 0
    BY <1>1, <1>2, <1>3, <1>6, <1>9, <2>1
  <2>3. \A w \in vertices \ Done' : in_degrees'[w] = 0 => w \in q'
    BY <1>1, <1>2, <1>3, <1>6, <2>1
  <2>4. q' \subseteq vertices
    BY <1>7, <1>1 DEF TypeOK
  <2> QED BY <1>1, <2>2, <2>3 DEF ReadyInQ
<1>11. EdgesRespected'
  <2>1. /\ Len(order) \in Nat /\ DOMAIN order = 1 .. Len(order)
        /\ DOMAIN order' = 1 .. Len(order) + 1
        /\ order'[Len(order) + 1] = v
        /\ \A i \in DOMAIN order : order'[i] = order[i]
    BY <1>1, <1>2
  <2>2. \A i \in DOMAIN order : order[i] \in Action /\ order[i] # v
    BY <1>2 DEF Done
  <2>3. \A i, j \in DOMAIN order' : order'[i] = order'[j] => i = j
    BY <2>1, <2>2 DEF IInv, EdgesRespected
  <2>4. ASSUME NEW i \in DOMAIN order, NEW e \in In(order[i])'
        PROVE  \E j \in 1 .. i - 1 : order'[j] = Source(e)
    <3>1. e \in In(order[i])
      BY <1>1, <2>1 DEF In
    <3>2. PICK j \in 1 .. i - 1 : order[j] = Source(e)
      BY <3>1 DEF IInv, EdgesRespected
    <3> QED BY <2>1, <3>2
  <2>5. ASSUME NEW e \in In(v)
        PROVE  \E j \in 1 .. Len(order) : order'[j] = Source(e)
    <3>1. Source(e) \in Done
      BY <1>5 DEF Pending
    <3> QED BY <2>1, <3>1 DEF Done
  <2>6. ASSUME NEW i \in DOMAIN order', NEW e \in In(order[i])'
        PROVE  \E j \in 1 .. i - 1 : order'[j] = Source(e)
    <3>1. CASE i \in DOMAIN order
      BY <2>4, <3>1
    <3>2. CASE i = Len(order) + 1
      <4>1. e \in In(v)
        BY <1>1, <2>1, <3>2 DEF In
      <4> QED BY <2>1, <2>5, <3>2, <4>1
    <3> QED BY <2>1, <3>1, <3>2
  <2> QED BY <2>3, <2>6 DEF EdgesRespected
<1> QED BY <1>1, <1>7, <1>8, <1>10, <1>11 DEF IInv

\* Every pass keeps the invariant.
LEMMA StepIInv == IInv /\ [Next]_vars => IInv'
<1> SUFFICES ASSUME IInv, [Next]_vars PROVE IInv'
  OBVIOUS
<1>1. ASSUME NEW v \in Action, RemoveOnlySync(v) PROVE IInv'
  BY <1>1, RemoveOnlySyncIInv
<1>2. CASE SetPriorities
  <2>1. priority' \in [Action -> 0 .. 2]
    BY <1>2 DEF SetPriorities, Priority
  <2>2. /\ ~ Sorted /\ ~ Sorted' /\ at' = "prioritised"
        /\ UNCHANGED <<vertices, edges, in_degrees, q, order>>
    BY <1>2 DEF SetPriorities, Sorted
  <2>3. TypeOK'
    BY <2>1, <2>2 DEF IInv, TypeOK
  <2>4. EdgesRespected'
    BY <2>2 DEF IInv, EdgesRespected, In, Target, Source
  <2> QED BY <2>2, <2>3, <2>4 DEF IInv, Counted, ReadyInQ
<1>3. CASE StartSort
  BY <1>3, StartSortIInv
<1>4. ASSUME NEW v \in Action, Pick(v) PROVE IInv'
  BY <1>4, PickIInv
<1>5. CASE EndSort
  <2>1. /\ Sorted /\ Sorted' /\ q = {} /\ at' \in {"ordered", "thrown"}
        /\ UNCHANGED <<vertices, edges, priority, in_degrees, q, order>>
        /\ (at' = "ordered" <=> Complete) /\ Complete' = Complete
    BY <1>5 DEF EndSort, Sorted, Complete
  <2>2. TypeOK'
    BY <2>1 DEF IInv, TypeOK
  <2>3. Done' = Done /\ \A w : In(w)' = In(w) /\ Pending(w)' = Pending(w)
    BY <2>1 DEF Done, In, Pending, Source, Target
  <2>4. Counted' /\ ReadyInQ'
    BY <2>1, <2>3 DEF IInv, Counted, ReadyInQ
  <2>5. EdgesRespected'
    BY <2>1, <2>3 DEF IInv, EdgesRespected
  <2> QED BY <2>1, <2>2, <2>4, <2>5 DEF IInv
<1>6. CASE UNCHANGED vars
  <2>1. Done' = Done /\ \A w : In(w)' = In(w) /\ Pending(w)' = Pending(w)
    BY <1>6 DEF vars, Done, In, Pending, Source, Target
  <2>2. Counted' /\ ReadyInQ' /\ (Sorted <=> Sorted') /\ Complete' = Complete
    BY <1>6, <2>1 DEF vars, IInv, Counted, ReadyInQ, Sorted, Complete
  <2>3. EdgesRespected'
    BY <1>6, <2>1 DEF vars, IInv, EdgesRespected
  <2> QED BY <1>6, <2>2, <2>3 DEF vars, IInv, TypeOK
<1> QED BY <1>1, <1>2, <1>3, <1>4, <1>5, <1>6 DEF Next

\* The invariant holds for every graph the constructor may have built.
THEOREM Invariance == Spec => []IInv
BY InitIInv, StepIInv, PTL DEF Spec

\* The passes keep a graph over the actions and an order of actions.
THEOREM TypeCorrect == Spec => []TypeOK
<1>1. IInv => TypeOK
  BY DEF IInv
<1> QED BY Invariance, <1>1, PTL

\* prioritised_topological_sort: no action is in the order twice or before an
\* action it has an edge from, whatever the graph, the priorities and the ties.
THEOREM OrderRespectsEdges == Spec => []EdgesRespected
<1>1. IInv => EdgesRespected
  BY DEF IInv
<1> QED BY Invariance, <1>1, PTL

-----------------------------------------------------------------------------
(* The exception "actiongraph not a DAG".                                  *)

\* Actions each of which depends on another one of them: a cycle.
Circular(C) == C # {} /\ \A w \in C : \E e \in In(w) : Source(e) \in C

\* An order without repetition is as long as the set of its elements is large.
LEMMA OrderLength ==
  ASSUME IInv
  PROVE  IsFiniteSet(Done) /\ Cardinality(Done) = Len(order)
<1>1. Len(order) \in Nat /\ DOMAIN order = 1 .. Len(order)
  BY DEF IInv, TypeOK
<1>2. \A i, j \in DOMAIN order : order[i] = order[j] => i = j
  BY DEF IInv, EdgesRespected
<1>3. [i \in 1 .. Len(order) |-> order[i]] \in Bijection(1 .. Len(order), Done)
  BY <1>1, <1>2 DEF Done, Bijection, Injection, Surjection, IsInjective
<1>4. ExistsBijection(1 .. Len(order), Done)
  BY <1>3 DEF ExistsBijection
<1> QED BY <1>1, <1>4, FS_CountingElements, FS_NatBijection

\* An order as long as the graph is large has every action.
LEMMA CompleteDone == IInv /\ Complete => Done = vertices
<1> SUFFICES ASSUME IInv, Complete PROVE Done = vertices
  OBVIOUS
<1>1. Done \subseteq vertices
  BY DEF IInv, TypeOK, Done
<1> QED BY <1>1, OrderLength, FS_Subset DEF IInv, Complete

\* What is left without a ready action is circular.
LEMMA StuckCircular ==
  ASSUME IInv, Sorted, q = {}, ~ Complete
  PROVE  Circular(vertices \ Done)
<1>1. vertices \ Done # {}
  <2> SUFFICES ASSUME vertices \ Done = {}
                PROVE  FALSE
    OBVIOUS
  <2>1. Done \subseteq vertices
    BY DEF IInv, TypeOK, Done
  <2>2. Done = vertices
    BY <2>1
  <2>3. Cardinality(Done) = Len(order)
    BY OrderLength
  <2> QED BY <2>2, <2>3 DEF Complete
<1>2. ASSUME NEW w \in vertices \ Done
      PROVE  \E e \in In(w) : Source(e) \in vertices \ Done
  <2>1. w \in Action /\ in_degrees[w] # 0
    BY DEF IInv, ReadyInQ, TypeOK
  <2>2. Pending(w) # {}
    BY <2>1, FS_EmptySet DEF IInv, Counted
  <2> QED BY <2>2 DEF Pending, In, IInv, TypeOK
<1> QED BY <1>1, <1>2 DEF Circular

\* When the sort ends without an exception every action that is left in the graph
\* will be committed; when it throws the dependencies really are circular.
EndOK == /\ at = "ordered" => Done = vertices
         /\ at = "thrown" => \E C \in SUBSET vertices : Circular(C)

\* calculate_order never drops an action silently and never throws on a DAG.
THEOREM OrderedOrCircular == Spec => []EndOK
<1>1. IInv => EndOK
  BY CompleteDone, StuckCircular DEF IInv, EndOK, Sorted
<1> QED BY Invariance, <1>1, PTL

-----------------------------------------------------------------------------
(* Paths: what the actions depended on in the graph as it was built.       *)

\* The actions a graph has a path to from u.
Reach(g, u) ==
  {w \in Action : \A S \in Closed(g) :
                     (\A e \in g : Source(e) = u => Target(e) \in S) => w \in S}

GraphOK(g) == \A e \in g : Source(e) \in Action /\ Target(e) \in Action

\* What can be reached is closed, contains the targets of the edges, and with an
\* action whatever that one reaches.
LEMMA ReachFacts ==
  ASSUME NEW g, GraphOK(g), NEW u
  PROVE  /\ Reach(g, u) \in Closed(g)
         /\ \A e \in g : Source(e) = u => Target(e) \in Reach(g, u)
         /\ \A w \in Reach(g, u) : Reach(g, w) \subseteq Reach(g, u)
<1>1. ASSUME NEW e \in g, Source(e) \in Reach(g, u)
      PROVE  Target(e) \in Reach(g, u)
  BY <1>1 DEF Reach, Closed, GraphOK
<1>2. Reach(g, u) \in Closed(g)
  <2>1. Reach(g, u) \in SUBSET Action
    BY DEF Reach
  <2> QED BY <1>1, <2>1 DEF Closed
<1>3. \A e \in g : Source(e) = u => Target(e) \in Reach(g, u)
  BY DEF Reach, GraphOK
<1>4. ASSUME NEW w \in Reach(g, u), NEW x \in Reach(g, w)
      PROVE  x \in Reach(g, u)
  BY <1>1, <1>2, <1>4 DEF Reach
<1> QED BY <1>2, <1>3, <1>4

\* A path is what can be reached.
LEMMA PathsReach ==
  ASSUME NEW g, NEW u \in Action \ OnlySync, NEW w \in Action \ OnlySync
  PROVE  <<u, w>> \in Paths(g) <=> w \in Reach(g, u)
BY DEF Paths, Reach

\* Handing the dependencies of a sync-only action on neither loses nor makes up
\* a path between other actions.
LEMMA BridgesKeepPaths ==
  ASSUME TypeOK, NEW v \in OnlySync, NEW h,
         h = {e \in edges \cup Bridges(v) : v \notin {Source(e), Target(e)}}
  PROVE  Paths(h) = Paths(edges)
<1>1. GraphOK(edges)
  BY DEF TypeOK, GraphOK
<1>2. \A e \in h : \/ e \in edges /\ Source(e) # v /\ Target(e) # v
                   \/ \E e1, e2 \in edges :
                        /\ Target(e1) = v /\ Source(e2) = v
                        /\ Source(e) = Source(e1) /\ Target(e) = Target(e2)
  BY DEF Bridges, In, Out, Source, Target
<1>3. \A e \in edges : Source(e) # v /\ Target(e) # v => e \in h
  OBVIOUS
<1>4. ASSUME NEW e1 \in edges, NEW e2 \in edges, Target(e1) = v, Source(e2) = v,
             Source(e1) # v, Target(e2) # v
      PROVE  \E e \in h : Source(e) = Source(e1) /\ Target(e) = Target(e2)
  <2>1. <<Source(e1), Target(e2), <<e1, e2>>>> \in Bridges(v)
    BY <1>4 DEF Bridges, In, Out
  <2> QED BY <1>4, <2>1 DEF Source, Target
<1>5. ASSUME NEW S \in Closed(edges)
      PROVE  S \in Closed(h)
  BY <1>2, <1>5 DEF Closed
<1>6. ASSUME NEW u \in Action \ OnlySync, NEW w \in Action \ OnlySync, w \in Reach(h, u)
      PROVE  w \in Reach(edges, u)
  <2> SUFFICES ASSUME NEW S \in Closed(edges),
                      \A e \in edges : Source(e) = u => Target(e) \in S
               PROVE  w \in S
    BY DEF Reach
  <2>1. \A e \in h : Source(e) = u => Target(e) \in S
    BY <1>2 DEF Closed
  <2> QED BY <1>5, <1>6, <2>1 DEF Reach
<1>7. ASSUME NEW u \in Action \ OnlySync, NEW w \in Action \ OnlySync, w \in Reach(edges, u)
      PROVE  w \in Reach(h, u)
  <2> SUFFICES ASSUME NEW S \in Closed(h),
                      \A e \in h : Source(e) = u => Target(e) \in S
               PROVE  w \in S
    BY DEF Reach
  <2> DEFINE Through == \E e \in edges : /\ Source(e) # v /\ Target(e) = v
                                         /\ Source(e) \in S \cup {u}
             U == {x \in Action : IF x = v THEN Through ELSE x \in S}
  <2>1. ASSUME NEW e \in edges, Source(e) \in U \cup {u} PROVE Target(e) \in U
    <3>1. Target(e) \in Action /\ u # v
      BY <1>1 DEF GraphOK
    <3>2. CASE Source(e) # v /\ Target(e) # v
      BY <1>3, <2>1, <3>1, <3>2 DEF Closed
    <3>3. CASE Source(e) # v /\ Target(e) = v
      BY <2>1, <3>1, <3>3
    <3>4. CASE Source(e) = v /\ Target(e) # v
      <4>1. PICK f \in edges : Source(f) # v /\ Target(f) = v /\ Source(f) \in S \cup {u}
        BY <2>1, <3>1, <3>4
      <4>2. PICK b \in h : Source(b) = Source(f) /\ Target(b) = Target(e)
        BY <1>4, <3>4, <4>1
      <4>3. Target(b) \in S
        BY <4>1, <4>2 DEF Closed
      <4> QED BY <3>1, <3>4, <4>2, <4>3
    <3>5. CASE Source(e) = v /\ Target(e) = v
      BY <2>1, <3>1, <3>5
    <3> QED BY <3>2, <3>3, <3>4, <3>5
  <2>2. U \in Closed(edges)
    BY <2>1 DEF Closed
  <2>3. w \in U
    BY <1>7, <2>1, <2>2 DEF Reach
  <2> QED BY <2>3
<1>8. ASSUME NEW p \in (Action \ OnlySync) \X (Action \ OnlySync)
      PROVE  p \in Paths(h) <=> p \in Paths(edges)
  <2>1. PICK u \in Action \ OnlySync, w \in Action \ OnlySync : p = <<u, w>>
    OBVIOUS
  <2> QED BY <1>6, <1>7, <2>1, PathsReach
<1>9. /\ Paths(h) \subseteq (Action \ OnlySync) \X (Action \ OnlySync)
      /\ Paths(edges) \subseteq (Action \ OnlySync) \X (Action \ OnlySync)
  BY DEF Paths
<1> QED BY <1>8, <1>9

\* The sort works on all actions that are not sync-only, with the paths of the
\* graph as built and the priorities that follow from it.
PathsInv == /\ Action \ OnlySync \subseteq vertices
            /\ before = Paths(edges)
            /\ at # "syncs" => /\ vertices \cap OnlySync = {}
                               /\ priority = [v \in Action |-> Priority(v)]

\* PathsInv is inductive.
LEMMA InitPathsInv == Init => PathsInv
BY DEF Init, PathsInv

\* Neither removing a sync-only action nor sorting loses a path.
LEMMA StepPathsInv == IInv /\ PathsInv /\ [Next]_vars => PathsInv'
<1> SUFFICES ASSUME IInv, PathsInv, [Next]_vars PROVE PathsInv'
  OBVIOUS
<1>1. ASSUME NEW v \in Action, RemoveOnlySync(v) PROVE PathsInv'
  <2>1. /\ v \in OnlySync /\ at = "syncs" /\ at' = at /\ before' = before
        /\ vertices' = vertices \ {v}
        /\ edges' = {e \in edges \cup Bridges(v) : v \notin {Source(e), Target(e)}}
    BY <1>1 DEF RemoveOnlySync
  <2>2. Paths(edges') = Paths(edges)
    BY <2>1, BridgesKeepPaths DEF IInv
  <2>3. Paths(edges)' = Paths(edges')
    BY DEF Paths, Closed
  <2> QED BY <2>1, <2>2, <2>3 DEF PathsInv
<1>2. ASSUME UNCHANGED <<vertices, edges, before>>
      PROVE  /\ Action \ OnlySync \subseteq vertices' /\ (before = Paths(edges))'
             /\ \A v \in Action : Priority(v)' = Priority(v)
  BY <1>2 DEF PathsInv, Paths, Closed, Priority, Upward
<1>3. CASE SetPriorities
  BY <1>2, <1>3 DEF SetPriorities, PathsInv
<1>4. ASSUME UNCHANGED <<vertices, edges, before, priority>>, at # "syncs"
      PROVE  PathsInv'
  BY <1>2, <1>4 DEF PathsInv
<1>5. CASE StartSort
  BY <1>4, <1>5 DEF StartSort
<1>6. ASSUME NEW v \in Action, Pick(v) PROVE PathsInv'
  BY <1>4, <1>6 DEF Pick
<1>7. CASE EndSort
  BY <1>4, <1>7 DEF EndSort
<1>8. CASE UNCHANGED vars
  BY <1>2, <1>8 DEF vars, PathsInv
<1> QED BY <1>1, <1>3, <1>5, <1>6, <1>7, <1>8 DEF Next

\* PathsInv is an invariant.
LEMMA PathsInvariance == Spec => [](IInv /\ PathsInv)
BY InitIInv, StepIInv, InitPathsInv, StepPathsInv, PTL DEF Spec

\* Nothing that is in the order has a path from an action that is not before it:
\* what is not among the first i actions of the order is closed.
LEMMA OrderedAfterPrerequisites ==
  ASSUME IInv, PathsInv
  PROVE  PrerequisitesFirst
<1> SUFFICES ASSUME NEW i \in DOMAIN order, NEW p \in before, p[2] = order[i],
                    ~ \E j \in 1 .. i - 1 : order[j] = p[1]
             PROVE  FALSE
  BY DEF PrerequisitesFirst
<1> DEFINE first == {order[j] : j \in 1 .. i}
           Rest == Action \ first
<1>1. Len(order) \in Nat /\ DOMAIN order = 1 .. Len(order)
  BY DEF IInv, TypeOK
<1>2. p \in Paths(edges)
  BY DEF PathsInv
<1>3. ASSUME NEW e \in edges, Target(e) \in first
      PROVE  \E j \in 1 .. i - 1 : order[j] = Source(e)
  <2>1. PICK k \in 1 .. i : Target(e) = order[k]
    BY <1>3
  <2>2. e \in In(order[k]) /\ k \in DOMAIN order
    BY <1>1, <2>1 DEF In
  <2>3. PICK j \in 1 .. k - 1 : order[j] = Source(e)
    BY <2>2 DEF IInv, EdgesRespected
  <2> QED BY <2>1, <2>3, <1>1
<1>4. ASSUME NEW e \in edges
      PROVE  Target(e) \in Action /\ (Source(e) \in Rest => Target(e) \in Rest)
  <2>1. Target(e) \in Action
    BY DEF IInv, TypeOK
  <2>2. Target(e) \in first => Source(e) \in first
    BY <1>1, <1>3
  <2> QED BY <2>1, <2>2
<1>5. \A e \in edges : Source(e) = p[1] => Target(e) \in Rest
  BY <1>3, <1>4
<1>6. Rest \in Closed(edges)
  BY <1>4 DEF Closed
<1>7. p[2] \in Rest
  <2> HIDE DEF Rest
  <2> QED BY <1>2, <1>5, <1>6 DEF Paths
<1>8. order[i] \in first
  BY <1>1
<1> QED BY <1>7, <1>8

\* What an action depends on in the graph as it was built, directly or through
\* sync-only actions that are removed, is committed before it.
THEOREM PrerequisitesCommittedFirst == Spec => []PrerequisitesFirst
BY PathsInvariance, OrderedAfterPrerequisites, PTL

\* Actions each of which depends on another one of them have one among them that
\* depends on itself: one from which the fewest actions are out of reach.
LEMMA CircularHasCycle ==
  ASSUME IInv, NEW C \in SUBSET Action, Circular(C)
  PROVE  \E w \in C : w \in Reach(edges, w)
<1> SUFFICES ASSUME \A w \in C : w \notin Reach(edges, w)
             PROVE  FALSE
  OBVIOUS
<1> DEFINE Beyond(w) == Action \ Reach(edges, w)
           T == {Beyond(w) : w \in C}
<1>1. GraphOK(edges)
  BY DEF IInv, TypeOK, GraphOK
<1>2. IsWellFoundedOn(StrictSubsetOrdering(Action), FiniteSubsetsOf(Action))
  BY FS_StrictSubsetOrderingWellFounded
<1>3. T \subseteq FiniteSubsetsOf(Action) /\ T # {}
  <2>1. \A w \in C : IsFiniteSet(Beyond(w))
    BY ActionAssumption, FS_Subset
  <2> QED BY <2>1 DEF FiniteSubsetsOf, Circular
<1>4. PICK x \in T : \A y \in T : ~ (<<y, x>> \in StrictSubsetOrdering(Action))
  <2> HIDE DEF T
  <2> QED BY <1>2, <1>3, WFMin
<1>5. PICK w \in C : x = Beyond(w)
  OBVIOUS
<1>6. PICK e \in In(w) : Source(e) \in C
  BY DEF Circular
<1>7. w \in Reach(edges, Source(e))
  BY <1>1, <1>6, ReachFacts DEF In
<1>8. Beyond(Source(e)) \subseteq Beyond(w) /\ w \notin Beyond(Source(e)) /\ w \in Beyond(w)
  BY <1>1, <1>7, ReachFacts
<1>9. <<Beyond(Source(e)), Beyond(w)>> \in StrictSubsetOrdering(Action)
  BY <1>8 DEF StrictSubsetOrdering
<1> QED BY <1>4, <1>5, <1>6, <1>9

\* The sort ends with an exception or with all actions.
LEMMA ThrownOrComplete ==
  ASSUME IInv, PathsInv
  PROVE  ThrowsOnCycle
<1>1. ASSUME at = "thrown" PROVE \E p \in before : p[1] = p[2]
  <2>1. Circular(vertices \ Done)
    BY <1>1, StuckCircular DEF IInv, Sorted
  <2>2. vertices \ Done \in SUBSET Action /\ vertices \cap OnlySync = {}
    BY <1>1 DEF IInv, TypeOK, PathsInv
  <2>3. PICK w \in vertices \ Done : w \in Reach(edges, w)
    BY <2>1, <2>2, CircularHasCycle
  <2>4. <<w, w>> \in before
    BY <2>2, <2>3, PathsReach DEF PathsInv
  <2> QED BY <2>4
<1>2. ASSUME at = "ordered"
      PROVE  Done = Action \ OnlySync /\ ~ \E p \in before : p[1] = p[2]
  <2>1. Done = vertices
    BY <1>2, CompleteDone DEF IInv
  <2>2. Done = Action \ OnlySync
    BY <1>2, <2>1 DEF PathsInv, IInv, TypeOK
  <2>3. ASSUME NEW p \in before, p[1] = p[2] PROVE FALSE
    <3>1. p[2] \in Done
      BY <2>2 DEF PathsInv, Paths
    <3>2. PICK i \in DOMAIN order : order[i] = p[2]
      BY <3>1 DEF Done
    <3>3. PICK j \in 1 .. i - 1 : order[j] = p[1]
      BY <3>2, OrderedAfterPrerequisites DEF PrerequisitesFirst
    <3>4. j \in DOMAIN order /\ j # i
      BY DEF IInv, TypeOK
    <3> QED BY <2>3, <3>2, <3>3, <3>4 DEF IInv, EdgesRespected
  <2> QED BY <2>2, <2>3
<1> QED BY <1>1, <1>2 DEF ThrowsOnCycle

\* "actiongraph not a DAG" is thrown only for a cycle in the graph as it was
\* built, and always for one; otherwise all actions are committed.
THEOREM ThrowsExactlyOnCycle == Spec => []ThrowsOnCycle
BY PathsInvariance, ThrownOrComplete, PTL

-----------------------------------------------------------------------------
(* Swap comes first.                                                       *)

\* While a swap waits in a graph without a cycle, it or something it needs is
\* ready: otherwise what it waits for would be circular.
LEMMA NeededIsReady ==
  ASSUME IInv, PathsInv, at = "sorting", NEW s \in MountSwap, s \notin Done,
         \A p \in before : p[1] # p[2]
  PROVE  \E w \in q : w = s \/ <<w, s>> \in before
<1> DEFINE Needed == {w \in vertices \ Done : w = s \/ <<w, s>> \in before}
<1>1. /\ vertices = Action \ OnlySync /\ before = Paths(edges) /\ Sorted
      /\ GraphOK(edges)
  BY DEF PathsInv, IInv, TypeOK, Sorted, GraphOK
<1>2. s \in Needed /\ Needed \in SUBSET Action
  BY <1>1, ActionAssumption
<1>3. ~ Circular(Needed)
  <2> SUFFICES ASSUME Circular(Needed) PROVE FALSE
    OBVIOUS
  <2>1. PICK w \in Needed : w \in Reach(edges, w)
    <3> HIDE DEF Needed
    <3> QED BY <1>2, CircularHasCycle
  <2>2. <<w, w>> \in before
    BY <1>1, <2>1, PathsReach
  <2> QED BY <2>2
<1>4. PICK w \in Needed : \A e \in In(w) : Source(e) \notin Needed
  <2> HIDE DEF Needed
  <2> QED BY <1>2, <1>3 DEF Circular
<1>5. ASSUME NEW e \in Pending(w)
      PROVE  FALSE
  <2>1. /\ e \in edges /\ e \in In(w) /\ Target(e) = w
        /\ Source(e) \in vertices \ Done
    BY DEF Pending, In, IInv, TypeOK
  <2>2. w \in Reach(edges, Source(e)) /\ Reach(edges, w) \subseteq Reach(edges, Source(e))
    BY <1>1, <2>1, ReachFacts
  <2>3. s \in Reach(edges, Source(e))
    <3>1. CASE w = s
      BY <2>2, <3>1
    <3>2. CASE <<w, s>> \in before
      <4>1. w \in Action \ OnlySync /\ s \in Action \ OnlySync
        BY <1>1, ActionAssumption
      <4> QED BY <1>1, <2>2, <3>2, <4>1, PathsReach
    <3> QED BY <3>1, <3>2
  <2>4. <<Source(e), s>> \in before
    BY <1>1, <2>1, <2>3, PathsReach, ActionAssumption
  <2>5. Source(e) \in Needed
    BY <2>1, <2>4
  <2> HIDE DEF Needed
  <2> QED BY <1>4, <2>1, <2>5
<1>6. in_degrees[w] = 0
  <2>1. Pending(w) = {} /\ w \in Action
    BY <1>1, <1>5
  <2> HIDE DEF Needed
  <2> QED BY <1>1, <2>1, FS_EmptySet DEF IInv, Counted
<1>7. w \in q
  BY <1>1, <1>6 DEF IInv, ReadyInQ
<1> QED BY <1>7

\* The priority tells what a swap needs.
LEMMA PriorityNeeded ==
  ASSUME IInv, PathsInv, at = "sorting", NEW v \in vertices
  PROVE  /\ priority[v] \in 0 .. 2
         /\ priority[v] > 0 <=> \E s \in MountSwap : v = s \/ <<v, s>> \in before
<1>1. /\ vertices = Action \ OnlySync /\ before = Paths(edges) /\ GraphOK(edges)
      /\ priority[v] = Priority(v)
  BY DEF PathsInv, IInv, TypeOK, GraphOK
<1>2. ASSUME NEW s \in MountSwap, <<v, s>> \in before
      PROVE  v \in Upward(MountSwap)
  <2>1. s \in Reach(edges, v)
    BY <1>1, <1>2, PathsReach, ActionAssumption
  <2>2. ASSUME NEW S \in Closed(edges), v \in S
        PROVE  s \in S
    BY <2>1, <2>2 DEF Reach, Closed
  <2> QED BY <1>1, <2>2 DEF Upward
<1>3. ASSUME v \in Upward(MountSwap)
      PROVE  \E s \in MountSwap : v = s \/ <<v, s>> \in before
  <2> DEFINE U == {v} \cup Reach(edges, v)
  <2>1. U \in Closed(edges)
    <3>1. U \in SUBSET Action
      BY <1>1 DEF Reach
    <3>2. \A e \in edges : Source(e) \in U => Target(e) \in U
      BY <1>1, ReachFacts DEF Closed
    <3> QED BY <3>1, <3>2 DEF Closed
  <2>2. PICK s \in MountSwap : s \in U
    BY <1>3, <2>1 DEF Upward
  <2> QED BY <1>1, <2>2, PathsReach, ActionAssumption
<1>4. Priority(v) \in 0 .. 2 /\ (Priority(v) > 0 <=> v \in MountSwap \cup Upward(MountSwap))
  BY DEF Priority
<1> QED BY <1>1, <1>2, <1>3, <1>4

\* set_priorities: as long as a swap is not activated, only what some swap needs
\* is put in the order, unless the dependencies are circular.
THEOREM SwapComesFirst == Spec => SwapFirst
<1>1. ASSUME IInv, PathsInv, NEW v \in Action, Pick(v), ~ MountSwap \subseteq Done,
             \A p \in before : p[1] # p[2]
      PROVE  v \in MountSwap \/ \E s \in MountSwap : <<v, s>> \in before
  <2>1. at = "sorting" /\ v \in q /\ (\A w \in q : priority[w] <= priority[v])
        /\ q \subseteq vertices
    BY <1>1 DEF Pick, IInv, TypeOK
  <2>2. PICK s \in MountSwap : s \notin Done
    BY <1>1
  <2>3. PICK w \in q : w = s \/ <<w, s>> \in before
    BY <1>1, <2>1, <2>2, NeededIsReady
  <2>4. priority[w] > 0 /\ priority[w] \in 0 .. 2 /\ priority[v] \in 0 .. 2
    BY <1>1, <2>1, <2>3, PriorityNeeded
  <2>5. priority[v] > 0
    BY <2>1, <2>4
  <2> QED BY <1>1, <2>1, <2>5, PriorityNeeded
<1>2. IInv /\ PathsInv =>
        [\A v \in Action :
           Pick(v) /\ ~ MountSwap \subseteq Done /\ (\A p \in before : p[1] # p[2])
           => v \in MountSwap \/ \E s \in MountSwap : <<v, s>> \in before]_vars
  BY <1>1
<1> QED BY <1>2, PathsInvariance, PTL DEF SwapFirst
=============================================================================
