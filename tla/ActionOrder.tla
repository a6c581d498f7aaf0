----------------------------- MODULE ActionOrder -----------------------------
(***************************************************************************)
(* The last three passes of the constructor of Actiongraph::Impl           *)
(* (storage/ActiongraphImpl.cc), for any graph of actions: sync-only       *)
(* actions are removed with their dependencies handed on, actions that     *)
(* lead to a swap get a priority and the actions are ordered with Kahn's   *)
(* algorithm.  The graph is a boost::adjacency_list<vecS, ...>, so two     *)
(* actions may be connected by several edges: an edge is a triple          *)
(* <<source, target, label>>.  The order of vertices and edges in the      *)
(* graph, which only decides between actions of equal priority, is left    *)
(* open.                                                                   *)
(***************************************************************************)
EXTENDS Integers, FiniteSets, Sequences

CONSTANTS Action,     \* the actions
          OnlySync,   \* those with only_sync set
          MountSwap,  \* those that mount a swap
          Graph       \* the edge sets the constructor may have built

ASSUME ActionAssumption == /\ IsFiniteSet(Action)
                           /\ OnlySync \subseteq Action
                           /\ MountSwap \subseteq Action \ OnlySync

ASSUME GraphAssumption ==
  \A g \in Graph : /\ IsFiniteSet(g)
                   /\ \A e \in g : e[1] \in Action /\ e[2] \in Action

VARIABLES
  vertices,    \* the actions still in the graph
  edges,       \* the dependencies
  before,      \* history: what comes before what in the graph as built
  priority,    \* Action::Base::priority
  in_degrees,  \* dependencies of an action that are not in the order yet
  q,           \* the actions that are ready
  order,       \* the result
  at           \* the pass

vars == <<vertices, edges, before, priority, in_degrees, q, order, at>>

Source(e) == e[1]
Target(e) == e[2]

In(v) == {e \in edges : Target(e) = v}
Out(v) == {e \in edges : Source(e) = v}

\* The sets of actions that the edges do not lead out of.
Closed(g) == {S \in SUBSET Action : \A e \in g : Source(e) \in S => Target(e) \in S}

\* Pairs of actions, neither sync-only, with a path from the first to the second:
\* the second is in every closed set that has the targets of the first.
Paths(g) ==
  LET closed == Closed(g)
  IN  {p \in (Action \ OnlySync) \X (Action \ OnlySync) :
         \A S \in closed :
            (\A e \in g : Source(e) = p[1] => Target(e) \in S) => p[2] \in S}

Done == {order[i] : i \in DOMAIN order}

Init == /\ vertices = Action
        /\ edges \in Graph
        /\ before = Paths(edges)
        /\ priority = [v \in Action |-> 0]
        /\ in_degrees = [v \in Action |-> 0]
        /\ q = {}
        /\ order = << >>
        /\ at = "syncs"

-----------------------------------------------------------------------------
(* remove_only_syncs                                                       *)

\* Mutant of Bridges: connect each parent with one child only.
BridgesOnce(v) ==
  {<<Source(e), Target(CHOOSE f \in Out(v) : TRUE), <<e>>>> :
     e \in IF Out(v) = {} THEN {} ELSE In(v)}

\* Every parent gets an edge to every child.
Bridges(v) == {<<Source(e), Target(f), <<e, f>>>> : e \in In(v), f \in Out(v)}

\* clear_vertex and remove_vertex.
RemoveOnlySync(v) ==
  /\ at = "syncs"
  /\ v \in vertices \cap OnlySync
  /\ vertices' = vertices \ {v}
  /\ edges' = {e \in edges \cup Bridges(v) : v \notin {Source(e), Target(e)}}
  /\ UNCHANGED <<before, priority, in_degrees, q, order, at>>

-----------------------------------------------------------------------------
(* set_priorities                                                          *)

\* The actions with a path to one of T, T included: no closed set has such an
\* action and none of T.
Upward(T) == LET closed == Closed(edges)
             IN  {v \in Action : \A S \in closed : v \in S => S \cap T # {}}

\* Mutant of Priority: without set_priorities_upward.
PrioritySwapOnly(v) == IF v \in MountSwap THEN 2 ELSE 0

\* Mounting a swap has priority 2 and everything it depends on at least 1.
Priority(v) == IF v \in MountSwap THEN 2
               ELSE IF v \in Upward(MountSwap) THEN 1 ELSE 0

SetPriorities ==
  /\ at = "syncs"
  /\ vertices \cap OnlySync = {}
  /\ priority' = [v \in Action |-> Priority(v)]
  /\ at' = "prioritised"
  /\ UNCHANGED <<vertices, edges, before, in_degrees, q, order>>

-----------------------------------------------------------------------------
(* prioritised_topological_sort                                            *)

StartSort ==
  /\ at = "prioritised"
  /\ in_degrees' = [v \in Action |-> Cardinality(In(v))]
  /\ q' = {v \in vertices : in_degrees'[v] = 0}
  /\ at' = "sorting"
  /\ UNCHANGED <<vertices, edges, before, priority, order>>

\* --in_degrees[w] for every edge from v to w.
Decremented(v, w) == in_degrees[w] - Cardinality(In(w) \cap Out(v))

\* One turn of the while loop: the action taken from q has the highest priority.
\* A child is pushed when its counter goes through zero.
Pick(v) ==
  /\ at = "sorting"
  /\ v \in q
  /\ \A w \in q : priority[w] <= priority[v]
  /\ order' = Append(order, v)
  /\ in_degrees' = [w \in Action |-> Decremented(v, w)]
  /\ q' = (q \ {v}) \cup {w \in vertices : in_degrees[w] > 0 /\ in_degrees'[w] <= 0}
  /\ UNCHANGED <<vertices, edges, before, priority, at>>

\* Mutant of Complete: throw when the order is empty only.
CompleteIfAny == order # << >>

Complete == Len(order) = Cardinality(vertices)

\* "actiongraph not a DAG" is thrown when the order is not complete.
EndSort == /\ at = "sorting"
           /\ q = {}
           /\ at' = IF Complete THEN "ordered" ELSE "thrown"
           /\ UNCHANGED <<vertices, edges, before, priority, in_degrees, q, order>>

Next == \/ \E v \in Action : RemoveOnlySync(v)
        \/ SetPriorities
        \/ StartSort
        \/ \E v \in Action : Pick(v)
        \/ EndSort

Spec == Init /\ [][Next]_vars

-----------------------------------------------------------------------------

TypeOK == /\ vertices \subseteq Action
          /\ \A e \in edges : Source(e) \in vertices /\ Target(e) \in vertices
          /\ priority \in [Action -> 0 .. 2]
          /\ in_degrees \in [Action -> Nat]
          /\ q \subseteq vertices
          /\ order \in Seq(vertices)
          /\ at \in {"syncs", "prioritised", "sorting", "ordered", "thrown"}

\* An action comes in the order only once, and not before the actions it has an
\* edge from.  (The counters must count as many edges as are later walked.)
EdgesRespected ==
  \A i \in DOMAIN order :
     /\ \A j \in DOMAIN order : order[i] = order[j] => i = j
     /\ \A e \in In(order[i]) : \E j \in 1 .. i - 1 : order[j] = Source(e)

\* Whatever an action depended on in the graph as it was built, directly or
\* through sync-only actions that are gone, comes before it.
PrerequisitesFirst ==
  \A i \in DOMAIN order : \A p \in {b \in before : b[2] = order[i]} :
     \E j \in 1 .. i - 1 : order[j] = p[1]

\* The exception is thrown exactly for a cycle (through an action that is not
\* sync-only); otherwise all actions are in the order.
ThrowsOnCycle ==
  LET cyclic == \E p \in before : p[1] = p[2]
  IN  /\ at = "thrown" => cyclic
      /\ at = "ordered" => ~ cyclic /\ Done = Action \ OnlySync

\* Swap is activated as soon as possible: while one is waiting, and there is no
\* cycle, only what a swap needs is put in the order.  (ActiongraphImpl.cc,
\* set_priorities: actions needed for a swap are never passed by others.)
SwapFirst ==
  [][\A v \in Action :
       Pick(v) /\ ~ MountSwap \subseteq Done /\ (\A p \in before : p[1] # p[2])
       => v \in MountSwap \/ \E s \in MountSwap : <<v, s>> \in before]_vars
=============================================================================
