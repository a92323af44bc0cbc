------------------------------ MODULE PDGSearch ------------------------------
(***************************************************************************)
(* The searches of the program dependence graph.  Nodes are connected by   *)
(* typed edges; a query walks the edges of some types from a node, forward *)
(* or backward, and answers whether another node is reached, or which.     *)
(*                                                                         *)
(* The graph is there before the query and does not change meanwhile.      *)
(* Edges hang in sets ordered by their addresses: they are followed in any *)
(* order.                                                                  *)
(***************************************************************************)
EXTENDS Integers, Sequences, FiniteSets, Functions

CONSTANTS Node, EdgeType,
          FormalIn,   \* the nodes of parameter trees
          Excluded    \* functions whose calls are not followed
ASSUME NodeAssumption == IsFiniteSet(Node)

VARIABLES
  edges,
  query,      \* [kind, src, dst, types, backward]
  pending,    \* the queue, or stack, of nodes
  visited,    \* or, of aliases, the nodes seen
  formals,    \* parameter nodes met
  status
searchVars == <<edges, query, pending, visited, formals, status>>

Edge == [src : Node, dst : Node, type : EdgeType]
(* canReach; findNodesReachedByEdge, which has one type, and ...Edges;
   PDGCallGraph::canReach, computeTransitiveClosure and computePaths;
   getAliasNodes; findCrossDomainParamNode.  The second and the last can go
   backward. *)
Kind  == {"canReach", "reached", "calls", "closure", "paths", "alias", "param"}
Query ==
  {q \in [kind : Kind, src : Node, dst : Node, types : SUBSET EdgeType, backward : BOOLEAN] :
     q.backward => q.kind \in {"reached", "param"}}

(* addNeighbor: at most one edge of a type between two nodes. *)
addNeighbor(E, n, neighbor, type) == E \cup {[src |-> n, dst |-> neighbor, type |-> type]}
getInEdgeSet(n)  == {e \in edges : e.dst = n}
getOutEdgeSet(n) == {e \in edges : e.src = n}

Followed(n) ==
  {e \in IF query.backward THEN getInEdgeSet(n) ELSE getOutEdgeSet(n) :
     /\ e.type \in query.types
     /\ query.kind = "closure" => e.dst \notin Excluded}

(* Where an edge leads: to its destination, in findNodesReachedByEdges also
   when it was found among the edges that come in. *)
Leads(e) == IF query.backward /\ query.kind = "param" THEN e.src ELSE e.dst
Follows(n) == {Leads(e) : e \in Followed(n)}
(* Parameter nodes are collected and not walked through. *)
Barrier == IF query.kind = "param" THEN FormalIn ELSE {}

Orders(S) == {q \in [1..Cardinality(S) -> S] : Range(q) = S}

(* Depth first where the code has a stack. *)
Depth  == query.kind = "canReach"
Popped == IF Depth THEN pending[Len(pending)] ELSE pending[1]
Rest   == IF Depth THEN SubSeq(pending, 1, Len(pending) - 1) ELSE Tail(pending)

Ask(graphs, queries) ==
  /\ edges \in graphs
  /\ query \in queries
  /\ pending = <<query.src>>
  /\ visited = {} /\ formals = {} /\ status = "searching"

Seeking == query.kind \in {"canReach", "calls"}
Walking == status = "searching" /\ pending # << >>

(* Faulty variants: the search ends at a node met before; it stays there. *)
SkipBreak ==
  /\ Walking /\ query.kind # "alias" /\ Popped \in visited
  /\ pending' = << >>
  /\ UNCHANGED <<edges, query, visited, formals, status>>
SkipStay ==
  /\ Walking /\ query.kind # "alias" /\ Popped \in visited
  /\ UNCHANGED searchVars
Skip ==
  /\ Walking /\ query.kind # "alias" /\ Popped \in visited
  /\ pending' = Rest
  /\ UNCHANGED <<edges, query, visited, formals, status>>

Visit ==
  /\ Walking /\ query.kind # "alias" /\ Popped \notin visited
  /\ ~(Seeking /\ Popped = query.dst)
  /\ visited' = visited \cup {Popped}
  /\ formals' = formals \cup (Follows(Popped) \cap Barrier)
  /\ \E order \in Orders({e \in Followed(Popped) : Leads(e) \notin Barrier}) :
       pending' = Rest \o [k \in DOMAIN order |-> Leads(order[k])]
  /\ UNCHANGED <<edges, query, status>>

Meet ==
  /\ Walking /\ Seeking /\ Popped = query.dst /\ Popped \notin visited
  /\ status' = "reached"
  /\ UNCHANGED <<edges, query, pending, visited, formals>>

(* getAliasNodes marks nodes as they enter the queue; not the first. *)
VisitAlias ==
  /\ Walking /\ query.kind = "alias"
  /\ visited' = visited \cup Follows(Popped)
  /\ \E order \in Orders(Follows(Popped) \ visited) : pending' = Rest \o order
  /\ UNCHANGED <<edges, query, formals, status>>

Exhaust ==
  /\ status = "searching" /\ pending = << >>
  /\ status' = "exhausted"
  /\ UNCHANGED <<edges, query, pending, visited, formals>>

Search == Skip \/ Visit \/ Meet \/ VisitAlias \/ Exhaust
SearchSpec == Ask({E \in SUBSET Edge : IsFiniteSet(E)}, Query) /\ [][Search]_searchVars

-----------------------------------------------------------------------------
SearchTypeOK ==
  /\ edges \subseteq Edge /\ IsFiniteSet(edges) /\ query \in Query
  /\ pending \in Seq(Node) /\ visited \subseteq Node /\ formals \subseteq Node
  /\ status \in {"idle", "searching", "reached", "exhausted"}

(* What is asked for, of the edges alone.  The neighbors of a node are at the
   other end of its edges of the types in the set, which the header calls
   include_edge_types; a function that is excluded is nobody's. *)
Neighbors(n) ==
  {m \in Node : /\ \E e \in edges : /\ e.type \in query.types
                                    /\ <<e.src, e.dst>> = IF query.backward THEN <<m, n>> ELSE <<n, m>>
                /\ query.kind = "closure" => m \notin Excluded}
(* What can be reached at all: the nodes of every set that has the source and,
   with a node, its neighbors; those in parameter trees end the way. *)
ClosedUnder(S) ==
  \A n \in S : \A m \in Neighbors(n) : (query.kind = "param" => m \notin FormalIn) => m \in S
ReachFrom(m) == {n \in Node : \A S \in SUBSET Node : m \in S /\ ClosedUnder(S) => n \in S}
Reach == ReachFrom(query.src)

(* A search that has ended found what there is to find, no more and no less:
   no node is skipped because it was met before, or cut off by one that is.
   Not so the two searches the code gives another meaning: for two nodes and
   no types (TwoArgumentReach), and findNodesReachedByEdges backward, which no
   code calls and which takes the node it came from for the neighbor. *)
Ended == status \in {"reached", "exhausted"}
SearchExact ==
  (/\ Ended
   /\ query.kind = "canReach" => query.types # {}
   /\ query.kind = "reached" => ~query.backward)
  =>
    /\ Seeking => (status = "reached" <=> query.dst \in Reach)
    /\ query.kind \in {"reached", "closure"} => visited = Reach
    /\ query.kind = "alias" => visited = UNION {Neighbors(n) : n \in Reach}
    /\ query.kind = "param" => formals = FormalIn \cap UNION {Neighbors(n) : n \in Reach}

(* While it lasts, what was visited leads nowhere but to what was visited or is
   pending, and none of it is the node that is sought. *)
Covered ==
  IF query.kind = "alias"
  THEN \A n \in ({query.src} \cup visited) \ Range(pending) : Follows(n) \subseteq visited
  ELSE /\ query.src \in visited \cup Range(pending)
       /\ \A n \in visited : Follows(n) \ Barrier \subseteq visited \cup Range(pending)
       /\ formals = Barrier \cap UNION {Follows(n) : n \in visited}
Justified ==
  /\ Range(pending) \subseteq Reach
  /\ IF query.kind = "alias" THEN visited \subseteq UNION {Neighbors(n) : n \in Reach}
                             ELSE visited \subseteq Reach
SearchInv ==
  /\ SearchTypeOK
  /\ status # "idle" => Covered /\ Justified
  /\ Seeking => query.dst \notin visited
  /\ status = "reached" => Seeking /\ query.dst \in Reach
  /\ status = "exhausted" => pending = << >>

(* The nodes a path of edges of some types leads to from the source. *)
ReachedBy(types) ==
  {n \in Node : \A S \in SUBSET Node :
     (query.src \in S /\ \A e \in edges : e.type \in types /\ e.src \in S => e.dst \in S) => n \in S}

(* "Query the reachability of two nodes" (README 74), of canReach for two
   nodes, which passes an empty set of types: a path of any edges is found. *)
TwoArgumentReach ==
  Ended /\ query.kind = "canReach" /\ query.types = {}
    => (status = "reached" <=> query.dst \in ReachedBy(EdgeType))

(* "We put the edge types we want to exclude in the set exclude_edges" (README
   94): canReach finds a path of edges whose types are not in the set. *)
ReachExcluding ==
  Ended /\ query.kind = "canReach" /\ query.types # {}
    => (status = "reached" <=> query.dst \in ReachedBy(EdgeType \ query.types))
=============================================================================
