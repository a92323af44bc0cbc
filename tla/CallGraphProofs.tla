-------------------------- MODULE CallGraphProofs --------------------------
(***************************************************************************)
(* What the searches find is exact, for every finite graph and query.  The *)
(* reachable nodes are those of every closed set with the source, so that  *)
(* no induction over paths is needed: they are closed themselves, and what *)
(* a search has visited when nothing is pending is closed.  Of the call    *)
(* graph: what the boundary calls is what its functions reach, and a path  *)
(* is found when there is one, for the nodes on paths are a closed set.    *)
(***************************************************************************)
EXTENDS CallGraph, FiniteSetTheorems, TLAPS

LEMMA FollowsType ==
  ASSUME SearchTypeOK, NEW n PROVE Follows(n) \subseteq Node /\ Followed(n) \subseteq Edge
PROOF
<1>1. Followed(n) \subseteq edges
  BY DEF Followed, getInEdgeSet, getOutEdgeSet
<1>2. edges \subseteq Edge
  BY DEF SearchTypeOK
<1>3. \A e \in Edge : Leads(e) \in Node
  BY DEF Leads, Edge
<1> QED  BY <1>1, <1>2, <1>3 DEF Follows

(* A search goes on to the neighbors, and to nothing else; findNodesReachedByEdges
   goes backward to where it is already. *)
LEMMA FollowsNeighbors ==
  ASSUME SearchTypeOK, NEW n \in Node
  PROVE  /\ Follows(n) \subseteq Neighbors(n) \cup {n}
         /\ (query.backward => query.kind = "param") => Follows(n) = Neighbors(n)
PROOF
<1> DEFINE Onward(m, e) == /\ e.src = n /\ e.dst = m /\ e.type \in query.types
                           /\ query.kind = "closure" => m \notin Excluded
<1>1. /\ edges \subseteq Edge /\ query.backward \in BOOLEAN
      /\ query.backward => query.kind \in {"reached", "param"}
  BY DEF SearchTypeOK, Query
<1>2. \A e \in edges : e.src \in Node /\ e.dst \in Node
  BY <1>1 DEF Edge
<1>3. \A m : m \in Follows(n) <=> \E e \in edges : e \in Followed(n) /\ Leads(e) = m
  BY DEF Follows, Followed, getInEdgeSet, getOutEdgeSet
<1>4. \A m : m \in Neighbors(n) <=>
        /\ \E e \in edges : /\ e.type \in query.types
                            /\ <<e.src, e.dst>> = IF query.backward THEN <<m, n>> ELSE <<n, m>>
        /\ m \in Node /\ (query.kind = "closure" => m \notin Excluded)
  BY DEF Neighbors
<1>5. CASE ~query.backward
  <2>1. \A e \in edges : e \in Followed(n) <=>
          e.src = n /\ e.type \in query.types /\ (query.kind = "closure" => e.dst \notin Excluded)
    BY <1>5 DEF Followed, getOutEdgeSet
  <2>2. \A e \in edges : Leads(e) = e.dst
    BY <1>5 DEF Leads
  <2>3. \A m : \A e \in edges :
          (<<e.src, e.dst>> = IF query.backward THEN <<m, n>> ELSE <<n, m>>) <=> e.src = n /\ e.dst = m
    BY <1>5
  <2>4. Follows(n) = Neighbors(n)
    <3>1. \A m : m \in Follows(n) <=> \E e \in edges : Onward(m, e)
      <4> SUFFICES ASSUME NEW m PROVE m \in Follows(n) <=> \E e \in edges : Onward(m, e)
        OBVIOUS
      <4>1. m \in Follows(n) <=> \E e \in edges : e \in Followed(n) /\ Leads(e) = m
        BY <1>3
      <4>2. \A e \in edges : (e \in Followed(n) /\ Leads(e) = m) <=> Onward(m, e)
        BY <2>1, <2>2
      <4> QED  BY <4>1, <4>2, Zenon
    <3>2. \A m : m \in Neighbors(n) <=> \E e \in edges : Onward(m, e)
      <4> SUFFICES ASSUME NEW m PROVE m \in Neighbors(n) <=> \E e \in edges : Onward(m, e)
        OBVIOUS
      <4>1. m \in Neighbors(n) <=>
              /\ \E e \in edges : /\ e.type \in query.types
                                  /\ <<e.src, e.dst>> = IF query.backward THEN <<m, n>> ELSE <<n, m>>
              /\ m \in Node /\ (query.kind = "closure" => m \notin Excluded)
        BY <1>4
      <4>2. \A e \in edges :
              (<<e.src, e.dst>> = IF query.backward THEN <<m, n>> ELSE <<n, m>>) <=> e.src = n /\ e.dst = m
        BY <2>3
      <4>3. \A e \in edges : e.dst = m => m \in Node
        BY <1>2
      <4> QED  BY <4>1, <4>2, <4>3, Zenon
    <3> QED  BY <3>1, <3>2
  <2> QED  BY <2>4
<1>6. CASE query.backward /\ query.kind = "param"
  <2>1. \A e \in edges : e \in Followed(n) <=> e.dst = n /\ e.type \in query.types
    BY <1>6 DEF Followed, getInEdgeSet
  <2>2. \A e \in edges : Leads(e) = e.src
    BY <1>6 DEF Leads
  <2>3. \A m : \A e \in edges :
          (<<e.src, e.dst>> = IF query.backward THEN <<m, n>> ELSE <<n, m>>) <=> e.src = m /\ e.dst = n
    BY <1>6
  <2>4. Follows(n) = Neighbors(n)
    <3>1. \A m : m \in Follows(n) <=> \E e \in edges : e.dst = n /\ e.src = m /\ e.type \in query.types
      BY <1>3, <2>1, <2>2
    <3>2. \A m : m \in Neighbors(n) <=> \E e \in edges : e.dst = n /\ e.src = m /\ e.type \in query.types
      <4>1. query.kind # "closure"
        BY <1>6
      <4> QED  BY <1>2, <1>4, <2>3, <4>1, Zenon
    <3> QED  BY <3>1, <3>2
  <2> QED  BY <2>4
<1>7. CASE query.backward /\ query.kind # "param"
  <2>1. \A e \in edges : e \in Followed(n) => e.dst = n /\ Leads(e) = e.dst
    BY <1>7 DEF Followed, getInEdgeSet, Leads
  <2> QED  BY <1>7, <1>3, <2>1
<1> QED  BY <1>1, <1>5, <1>6, <1>7

(* The reachable nodes have the source, and are closed. *)
LEMMA SourceReached == ASSUME SearchTypeOK PROVE query.src \in Reach
  BY DEF SearchTypeOK, Query, Reach, ReachFrom

LEMMA ReachClosed ==
  ASSUME SearchTypeOK, NEW n \in Reach, NEW m \in Follows(n), m \notin Barrier
  PROVE  m \in Reach
PROOF
<1>1. m \in Node
  BY FollowsType
<1>2. ASSUME NEW S \in SUBSET Node, query.src \in S, ClosedUnder(S) PROVE m \in S
  <2>1. n \in S /\ n \in Node
    BY <1>2 DEF Reach, ReachFrom
  <2>2. m = n \/ m \in Neighbors(n)
    BY <2>1, FollowsNeighbors
  <2>3. query.kind = "param" => m \notin FormalIn
    BY DEF Barrier
  <2> QED  BY <2>1, <2>2, <2>3, <1>2 DEF ClosedUnder
<1> QED  BY <1>1, <1>2 DEF Reach, ReachFrom

(* They are the least such set. *)
LEMMA ReachLeast ==
  ASSUME NEW S \in SUBSET Node, query.src \in S, ClosedUnder(S) PROVE Reach \subseteq S
  BY DEF Reach, ReachFrom

(* The worklist as a sequence. *)
LEMMA TakenOff ==
  ASSUME SearchTypeOK, pending # << >>
  PROVE  /\ Popped \in Node /\ Popped \in Range(pending)
         /\ Rest \in Seq(Node) /\ Range(Rest) \subseteq Range(pending)
         /\ Range(pending) = {Popped} \cup Range(Rest)
PROOF
<1> USE DEF Range
<1>1. pending \in Seq(Node) /\ Len(pending) \in Nat /\ Len(pending) > 0
  BY DEF SearchTypeOK
<1>2. CASE Depth
  <2>1. Popped = pending[Len(pending)] /\ Rest = SubSeq(pending, 1, Len(pending) - 1)
    BY <1>2 DEF Popped, Rest
  <2> DEFINE m == Len(pending) - 1
  <2>10. m \in Nat /\ m =< Len(pending)
    BY <1>1
  <2>11. SubSeq(pending, 1, m) = [k \in 1..m |-> pending[k]]
    BY <1>1, <2>10
  <2>12. [k \in 1..m |-> pending[k]] \in [1..m -> Node]
    BY <1>1, <2>10
  <2>13. Rest \in [1..m -> Node] /\ DOMAIN Rest = 1..m
    BY <2>1, <2>11, <2>12
  <2>14. Rest \in Seq(Node) /\ Len(Rest) = m
    <3> HIDE DEF m
    <3> QED  BY <2>10, <2>13
  <2>2. Rest \in Seq(Node) /\ Len(Rest) = Len(pending) - 1 /\ DOMAIN Rest = 1..(Len(pending) - 1)
    BY <2>13, <2>14
  <2>3. \A k \in 1..(Len(pending) - 1) : Rest[k] = pending[k]
    BY <1>1, <2>1, <2>11
  <2>4. DOMAIN pending = 1..Len(pending)
    BY <1>1
  <2>5. \A k \in 1..Len(pending) : k = Len(pending) \/ k \in 1..(Len(pending) - 1)
    BY <1>1
  <2>6. Len(pending) \in 1..Len(pending) /\ 1..(Len(pending) - 1) \subseteq 1..Len(pending)
    BY <1>1
  <2>7. Range(pending) \subseteq {Popped} \cup Range(Rest)
    BY <2>1, <2>2, <2>3, <2>4, <2>5
  <2>8. Range(Rest) \subseteq Range(pending) /\ Popped \in Range(pending)
    BY <2>1, <2>2, <2>3, <2>4, <2>6
  <2>9. Popped \in Node
    BY <1>1, <2>1, <2>6
  <2> QED  BY <2>2, <2>7, <2>8, <2>9
<1>3. CASE ~Depth
  <2>1. Popped = pending[1] /\ Rest = Tail(pending)
    BY <1>3 DEF Popped, Rest
  <2>2. Rest \in Seq(Node) /\ Len(Rest) = Len(pending) - 1 /\ DOMAIN Rest = 1..(Len(pending) - 1)
    BY <1>1, <2>1
  <2>3. \A k \in 1..(Len(pending) - 1) : Rest[k] = pending[k + 1]
    BY <1>1, <2>1
  <2>4. DOMAIN pending = 1..Len(pending)
    BY <1>1
  <2>5. \A k \in 1..Len(pending) : k = 1 \/ (k - 1 \in 1..(Len(pending) - 1) /\ (k - 1) + 1 = k)
    BY <1>1
  <2>6. 1 \in 1..Len(pending) /\ \A k \in 1..(Len(pending) - 1) : k + 1 \in 1..Len(pending)
    BY <1>1
  <2>7. Range(pending) \subseteq {Popped} \cup Range(Rest)
    <3> SUFFICES ASSUME NEW k \in 1..Len(pending) PROVE pending[k] \in {Popped} \cup Range(Rest)
      BY <2>4
    <3>1. CASE k = 1
      BY <3>1, <2>1
    <3>2. CASE k # 1
      <4>1. k - 1 \in DOMAIN Rest /\ Rest[k - 1] = pending[k]
        BY <3>2, <2>2, <2>3, <2>5
      <4> QED  BY <4>1
    <3> QED  BY <3>1, <3>2
  <2>8. Range(Rest) \subseteq Range(pending) /\ Popped \in Range(pending)
    BY <2>1, <2>2, <2>3, <2>4, <2>6
  <2>9. Popped \in Node
    BY <1>1, <2>1, <2>6
  <2> QED  BY <2>2, <2>7, <2>8, <2>9
<1> QED  BY <1>2, <1>3

LEMMA PutOn ==
  ASSUME NEW s \in Seq(Node), NEW t \in Seq(Node)
  PROVE  s \o t \in Seq(Node) /\ Range(s \o t) = Range(s) \cup Range(t)
PROOF
<1> USE DEF Range
<1>1. s \o t \in Seq(Node) /\ Len(s \o t) = Len(s) + Len(t) /\ Len(s) \in Nat /\ Len(t) \in Nat
  OBVIOUS
<1>2. DOMAIN s = 1..Len(s) /\ DOMAIN t = 1..Len(t) /\ DOMAIN (s \o t) = 1..(Len(s) + Len(t))
  BY <1>1
<1>3. \A k \in 1..(Len(s) + Len(t)) :
        IF k =< Len(s) THEN k \in 1..Len(s) /\ (s \o t)[k] = s[k]
        ELSE k - Len(s) \in 1..Len(t) /\ (s \o t)[k] = t[k - Len(s)]
  BY <1>1
<1>4. \A k \in 1..Len(s) : k \in 1..(Len(s) + Len(t)) /\ (s \o t)[k] = s[k]
  BY <1>1
<1>5. \A k \in 1..Len(t) : k + Len(s) \in 1..(Len(s) + Len(t)) /\ (s \o t)[k + Len(s)] = t[k]
  BY <1>1
<1>6. Range(s \o t) \subseteq Range(s) \cup Range(t)
  BY <1>2, <1>3
<1>7. Range(s) \subseteq Range(s \o t)
  BY <1>2, <1>4
<1>8. Range(t) \subseteq Range(s \o t)
  BY <1>2, <1>5
<1> QED  BY <1>1, <1>6, <1>7, <1>8

(* What Visit puts on the worklist. *)
LEMMA OrderedEdges ==
  ASSUME SearchTypeOK, NEW n,
         NEW order \in Orders({e \in Followed(n) : Leads(e) \notin Barrier})
  PROVE  /\ [k \in DOMAIN order |-> Leads(order[k])] \in Seq(Node)
         /\ Range([k \in DOMAIN order |-> Leads(order[k])]) = Follows(n) \ Barrier
PROOF
<1> DEFINE S == {e \in Followed(n) : Leads(e) \notin Barrier}
<1> DEFINE f == [k \in DOMAIN order |-> Leads(order[k])]
<1>1. order \in [1..Cardinality(S) -> S] /\ Range(order) = S
  BY DEF Orders
<1>2. S \subseteq Edge
  BY FollowsType
<1>3. \A e \in Edge : Leads(e) \in Node
  BY DEF Leads, Edge
<1>4. DOMAIN f = 1..Cardinality(S) /\ f \in [1..Cardinality(S) -> Node]
  BY <1>1, <1>2, <1>3
<1>5. Range(f) = Follows(n) \ Barrier
  BY <1>1, <1>4 DEF Range, Follows
<1>6. Cardinality(S) \in Nat
  <2>1. S \subseteq edges /\ IsFiniteSet(edges)
    BY DEF Followed, getInEdgeSet, getOutEdgeSet, SearchTypeOK
  <2> QED  BY <2>1, FS_Subset, FS_CardinalityType
<1>7. f \in Seq(Node)
  <2> HIDE DEF f, S
  <2> QED  BY <1>4, <1>6
<1> QED  BY <1>5, <1>7

LEMMA OrderedNodes ==
  ASSUME NEW S \in SUBSET Node, NEW order \in Orders(S)
  PROVE  order \in Seq(Node) /\ Range(order) = S
PROOF
<1>1. order \in [1..Cardinality(S) -> S] /\ Range(order) = S
  BY DEF Orders
<1>2. Cardinality(S) \in Nat
  BY NodeAssumption, FS_Subset, FS_CardinalityType
<1> QED  BY <1>1, <1>2

-----------------------------------------------------------------------------
(* A search that begins. *)
Begins ==
  /\ edges \subseteq Edge /\ IsFiniteSet(edges) /\ query \in Query
  /\ pending = <<query.src>> /\ visited = {} /\ formals = {} /\ status = "searching"

LEMMA BeginsInv == Begins => SearchInv
PROOF
<1> SUFFICES ASSUME Begins PROVE SearchInv
  OBVIOUS
<1>1. SearchTypeOK
  BY DEF Begins, SearchTypeOK, Query
<1>2. Range(pending) = {query.src}
  BY DEF Begins, Range
<1>3. Covered
  BY <1>2 DEF Begins, Covered
<1>4. Justified
  BY <1>1, <1>2, SourceReached DEF Begins, Justified
<1> QED  BY <1>1, <1>3, <1>4 DEF Begins, SearchInv
LEMMA BeginsInvNext == Begins' => SearchInv'
  BY BeginsInv, PTL

LEMMA InitInv == SearchSpec => SearchInv
  BY BeginsInv DEF SearchSpec, Ask, Begins

(* Following edges and what is reachable do not change. *)
LEMMA GraphStays ==
  ASSUME UNCHANGED <<edges, query>>
  PROVE  /\ \A n : Follows(n)' = Follows(n) /\ Neighbors(n)' = Neighbors(n)
         /\ Barrier' = Barrier /\ Reach' = Reach /\ Seeking' = Seeking
PROOF
<1>1. ASSUME NEW n PROVE Follows(n)' = Follows(n) /\ Neighbors(n)' = Neighbors(n)
  BY DEF Follows, Followed, getInEdgeSet, getOutEdgeSet, Leads, Neighbors
<1>2. Barrier' = Barrier /\ Seeking' = Seeking
  BY DEF Barrier, Seeking
<1>3. \A S : ClosedUnder(S)' = ClosedUnder(S)
  BY <1>1 DEF ClosedUnder
<1>4. Reach' = Reach
  BY <1>3 DEF Reach, ReachFrom
<1> QED  BY <1>1, <1>2, <1>4
-----------------------------------------------------------------------------
LEMMA SkipInv == ASSUME SearchInv, Skip PROVE SearchInv'
PROOF
<1> USE DEF Skip, Walking, SearchInv
<1>1. UNCHANGED <<edges, query, visited, formals, status>> /\ pending' = Rest /\ Popped \in visited
  OBVIOUS
<1>2. /\ Rest \in Seq(Node) /\ Popped \in Range(pending)
      /\ Range(pending) = {Popped} \cup Range(Rest)
  BY TakenOff
<1>3. /\ \A n : Follows(n)' = Follows(n) /\ Neighbors(n)' = Neighbors(n)
      /\ Barrier' = Barrier /\ Reach' = Reach /\ Seeking' = Seeking
  BY <1>1, GraphStays
<1>4. SearchTypeOK'
  BY <1>1, <1>2 DEF SearchTypeOK
<1>5. query.kind # "alias" /\ status = "searching" /\ Covered /\ Justified
  OBVIOUS
<1>6. Covered'
  BY <1>1, <1>2, <1>3, <1>5 DEF Covered
<1>7. Justified'
  BY <1>1, <1>2, <1>3, <1>5 DEF Justified
<1> QED  BY <1>1, <1>3, <1>4, <1>5, <1>6, <1>7

LEMMA VisitInv == ASSUME SearchInv, Visit PROVE SearchInv'
PROOF
<1>1. /\ UNCHANGED <<edges, query, status>> /\ query.kind # "alias" /\ status = "searching"
      /\ Popped \notin visited /\ ~(Seeking /\ Popped = query.dst)
      /\ visited' = visited \cup {Popped}
      /\ formals' = formals \cup (Follows(Popped) \cap Barrier)
      /\ SearchTypeOK /\ Covered /\ Justified /\ pending # << >>
  BY DEF Visit, Walking, SearchInv
<1>2. PICK order \in Orders({e \in Followed(Popped) : Leads(e) \notin Barrier}) :
        pending' = Rest \o [k \in DOMAIN order |-> Leads(order[k])]
  BY DEF Visit
<1>3. /\ Popped \in Node /\ Rest \in Seq(Node) /\ Popped \in Range(pending)
      /\ Range(pending) = {Popped} \cup Range(Rest)
  BY <1>1, TakenOff
<1>4. /\ [k \in DOMAIN order |-> Leads(order[k])] \in Seq(Node)
      /\ Range([k \in DOMAIN order |-> Leads(order[k])]) = Follows(Popped) \ Barrier
  BY <1>1, OrderedEdges
<1>5. pending' \in Seq(Node) /\ Range(pending') = Range(Rest) \cup (Follows(Popped) \ Barrier)
  BY <1>2, <1>3, <1>4, PutOn
<1>6. /\ \A n : Follows(n)' = Follows(n) /\ Neighbors(n)' = Neighbors(n)
      /\ Barrier' = Barrier /\ Reach' = Reach /\ Seeking' = Seeking
  BY <1>1, GraphStays
<1>7. SearchTypeOK'
  <2>1. Follows(Popped) \subseteq Node
    BY <1>1, FollowsType
  <2> QED  BY <1>1, <1>3, <1>5, <2>1 DEF SearchTypeOK
<1>8. Covered'
  <2>1. (query.src \in visited \cup Range(pending))'
    BY <1>1, <1>3, <1>5 DEF Covered
  <2>2. (\A n \in visited : Follows(n) \ Barrier \subseteq visited \cup Range(pending))'
    BY <1>1, <1>3, <1>5, <1>6 DEF Covered
  <2>3. (formals = Barrier \cap UNION {Follows(n) : n \in visited})'
    <3>1. UNION {Follows(n) : n \in visited \cup {Popped}} = Follows(Popped) \cup UNION {Follows(n) : n \in visited}
      OBVIOUS
    <3>2. (UNION {Follows(n) : n \in visited})' = UNION {Follows(n) : n \in visited \cup {Popped}}
      BY <1>1, <1>6
    <3> QED  BY <1>1, <1>6, <3>1, <3>2 DEF Covered
  <2> QED  BY <1>1, <2>1, <2>2, <2>3 DEF Covered
<1>9. Justified'
  <2>1. Popped \in Reach
    BY <1>1, <1>3 DEF Justified
  <2>2. Follows(Popped) \ Barrier \subseteq Reach
    BY <1>1, <2>1, ReachClosed
  <2> QED  BY <1>1, <1>3, <1>5, <1>6, <2>1, <2>2 DEF Justified
<1>10. (Seeking => query.dst \notin visited)'
  BY <1>1, <1>6 DEF SearchInv
<1> QED  BY <1>1, <1>7, <1>8, <1>9, <1>10 DEF SearchInv

LEMMA MeetInv == ASSUME SearchInv, Meet PROVE SearchInv'
PROOF
<1>1. /\ UNCHANGED <<edges, query, pending, visited, formals>> /\ status' = "reached"
      /\ Seeking /\ Popped = query.dst /\ pending # << >> /\ status = "searching"
      /\ SearchTypeOK /\ Covered /\ Justified
  BY DEF Meet, Walking, SearchInv
<1>2. /\ \A n : Follows(n)' = Follows(n) /\ Neighbors(n)' = Neighbors(n)
      /\ Barrier' = Barrier /\ Reach' = Reach /\ Seeking' = Seeking
  BY <1>1, GraphStays
<1>3. query.dst \in Reach
  BY <1>1, TakenOff DEF Justified
<1>4. Covered' /\ Justified'
  BY <1>1, <1>2 DEF Covered, Justified
<1>5. SearchTypeOK'
  BY <1>1 DEF SearchTypeOK
<1>6. (Seeking => query.dst \notin visited)'
  BY <1>1, <1>2 DEF SearchInv
<1> QED  BY <1>1, <1>2, <1>3, <1>4, <1>5, <1>6 DEF SearchInv

LEMMA VisitAliasInv == ASSUME SearchInv, VisitAlias PROVE SearchInv'
PROOF
<1>1. /\ UNCHANGED <<edges, query, formals, status>> /\ query.kind = "alias" /\ status = "searching"
      /\ visited' = visited \cup Follows(Popped)
      /\ SearchTypeOK /\ Covered /\ Justified /\ pending # << >>
  BY DEF VisitAlias, Walking, SearchInv
<1>2. PICK order \in Orders(Follows(Popped) \ visited) : pending' = Rest \o order
  BY DEF VisitAlias
<1>3. /\ Popped \in Node /\ Rest \in Seq(Node) /\ Popped \in Range(pending)
      /\ Range(pending) = {Popped} \cup Range(Rest)
  BY <1>1, TakenOff
<1>4. Follows(Popped) \subseteq Node
  BY <1>1, FollowsType
<1>5. order \in Seq(Node) /\ Range(order) = Follows(Popped) \ visited
  BY <1>4, OrderedNodes
<1>6. pending' \in Seq(Node) /\ Range(pending') = Range(Rest) \cup (Follows(Popped) \ visited)
  BY <1>2, <1>3, <1>5, PutOn
<1>7. /\ \A n : Follows(n)' = Follows(n) /\ Neighbors(n)' = Neighbors(n)
      /\ Barrier' = Barrier /\ Reach' = Reach /\ Seeking' = Seeking
  BY <1>1, GraphStays
<1>8. SearchTypeOK'
  BY <1>1, <1>4, <1>6 DEF SearchTypeOK
<1>9. Covered'
  <2> SUFFICES ASSUME NEW n \in ({query.src} \cup visited') \ Range(pending') PROVE Follows(n) \subseteq visited'
    BY <1>1, <1>7 DEF Covered
  <2>1. CASE n = Popped
    BY <2>1, <1>1
  <2>2. CASE n # Popped
    <3>1. n \in {query.src} \cup visited /\ n \notin Range(pending)
      BY <2>2, <1>1, <1>3, <1>6
    <3> QED  BY <3>1, <1>1 DEF Covered
  <2> QED  BY <2>1, <2>2
<1>10. Justified'
  <2>1. Popped \in Reach
    BY <1>1, <1>3 DEF Justified
  <2>2. Barrier = {}
    BY <1>1 DEF Barrier
  <2>3. Follows(Popped) \subseteq Reach
    BY <1>1, <2>1, <2>2, ReachClosed
  <2>6. Follows(Popped) = Neighbors(Popped)
    BY <1>1, <1>3, FollowsNeighbors DEF SearchTypeOK, Query
  <2>4. Follows(Popped) \subseteq UNION {Neighbors(n) : n \in Reach}
    BY <2>1, <2>6
  <2>5. (UNION {Neighbors(n) : n \in Reach})' = UNION {Neighbors(n) : n \in Reach}
    BY <1>7
  <2> QED  BY <1>1, <1>3, <1>6, <1>7, <2>3, <2>4, <2>5 DEF Justified
<1>11. ~Seeking'
  BY <1>1, <1>7 DEF Seeking
<1> QED  BY <1>1, <1>8, <1>9, <1>10, <1>11 DEF SearchInv

LEMMA ExhaustInv == ASSUME SearchInv, Exhaust PROVE SearchInv'
PROOF
<1>1. /\ UNCHANGED <<edges, query, pending, visited, formals>> /\ status' = "exhausted"
      /\ pending = << >> /\ status = "searching" /\ SearchTypeOK /\ Covered /\ Justified
  BY DEF Exhaust, SearchInv
<1>2. /\ \A n : Follows(n)' = Follows(n) /\ Neighbors(n)' = Neighbors(n)
      /\ Barrier' = Barrier /\ Reach' = Reach /\ Seeking' = Seeking
  BY <1>1, GraphStays
<1>3. Covered' /\ Justified' /\ SearchTypeOK'
  BY <1>1, <1>2 DEF Covered, Justified, SearchTypeOK
<1>4. (Seeking => query.dst \notin visited)'
  BY <1>1, <1>2 DEF SearchInv
<1> QED  BY <1>1, <1>3, <1>4 DEF SearchInv

(* A search goes on from what it has found so far. *)
LEMMA SearchStep == ASSUME SearchInv, [Search]_searchVars PROVE SearchInv'
PROOF
<1>1. CASE UNCHANGED searchVars
  <2>1. /\ \A n : Follows(n)' = Follows(n) /\ Neighbors(n)' = Neighbors(n)
        /\ Barrier' = Barrier /\ Reach' = Reach /\ Seeking' = Seeking
    BY <1>1, GraphStays DEF searchVars
  <2>2. Covered' = Covered /\ Justified' = Justified /\ SearchTypeOK' = SearchTypeOK
    BY <1>1, <2>1 DEF searchVars, Covered, Justified, SearchTypeOK
  <2> QED  BY <1>1, <2>1, <2>2 DEF searchVars, SearchInv
<1> QED  BY <1>1, SkipInv, VisitInv, MeetInv, VisitAliasInv, ExhaustInv DEF Search

(* Every search, of any graph and from any node, keeps what it has visited and
   has pending together, and never goes where no edge leads. *)
THEOREM SearchKept == SearchSpec => []SearchInv
PROOF
<1>1. SearchInv /\ [Search]_searchVars => SearchInv'
  BY SearchStep
<1> QED  BY <1>1, InitInv, PTL DEF SearchSpec

-----------------------------------------------------------------------------
(* What has been visited when nothing is pending is all that can be reached. *)
LEMMA VisitedAll ==
  ASSUME SearchTypeOK, Covered, Justified, pending = << >>, query.kind # "alias",
         query.backward => query.kind = "param"
  PROVE  visited = Reach
PROOF
<1>2. Range(pending) = {}
  BY DEF Range
<1>1. visited \in SUBSET Node /\ query.src \in visited
  BY <1>2 DEF Covered, SearchTypeOK
<1>3. ClosedUnder(visited)
  <2>1. \A n \in visited : Follows(n) \ Barrier \subseteq visited /\ Follows(n) = Neighbors(n)
    BY <1>1, <1>2, FollowsNeighbors DEF Covered
  <2> QED  BY <2>1 DEF ClosedUnder, Barrier
<1>4. Reach \subseteq visited
  BY <1>1, <1>3, ReachLeast
<1> QED  BY <1>4 DEF Justified

LEMMA AliasesAll ==
  ASSUME SearchInv, status = "exhausted", query.kind = "alias"
  PROVE  visited = UNION {Neighbors(n) : n \in Reach}
PROOF
<1>1. Covered /\ Justified /\ SearchTypeOK /\ pending = << >>
  BY DEF SearchInv
<1>2. Range(pending) = {}
  BY <1>1 DEF Range
<1>4. ({query.src} \cup visited) \in SUBSET Node /\ ~query.backward
  BY <1>1 DEF SearchTypeOK, Query
<1>3. \A n \in {query.src} \cup visited : Neighbors(n) \subseteq visited
  BY <1>1, <1>2, <1>4, FollowsNeighbors DEF Covered
<1>5. ClosedUnder({query.src} \cup visited)
  BY <1>3 DEF ClosedUnder
<1>6. Reach \subseteq {query.src} \cup visited
  BY <1>4, <1>5, ReachLeast
<1>7. UNION {Neighbors(n) : n \in Reach} \subseteq visited
  BY <1>3, <1>6
<1> QED  BY <1>1, <1>7 DEF Justified

(* What a search keeps makes what it has found exact when it ends. *)
LEMMA KeptIsExact == ASSUME SearchInv PROVE SearchExact
PROOF
<1> SUFFICES ASSUME Ended, query.kind = "reached" => ~query.backward PROVE SearchExact
  BY DEF SearchExact
<1>3. query.backward => query.kind = "param"
  BY DEF SearchInv, SearchTypeOK, Query
<1>1. CASE status = "reached"
  BY <1>1 DEF SearchInv, SearchExact, Seeking
<1>2. CASE status = "exhausted"
  <2>1. query.kind # "alias" => visited = Reach
    BY <1>2, <1>3, VisitedAll DEF SearchInv
  <2>2. query.kind = "alias" => visited = UNION {Neighbors(n) : n \in Reach}
    BY <1>2, AliasesAll
  <2>3. Seeking => query.dst \notin Reach
    BY <2>1 DEF SearchInv, Seeking
  <2>4. query.kind = "param" => formals = FormalIn \cap UNION {Follows(n) : n \in visited}
    BY <1>2 DEF SearchInv, Covered, Barrier
  <2>5. \A n \in Reach : Follows(n) = Neighbors(n)
    BY <1>3, FollowsNeighbors DEF SearchInv, Reach, ReachFrom
  <2>6. query.kind = "param" => formals = FormalIn \cap UNION {Neighbors(n) : n \in Reach}
    BY <2>1, <2>4, <2>5
  <2> QED  BY <1>2, <2>1, <2>2, <2>3, <2>6 DEF SearchExact
<1>4. status \in {"reached", "exhausted"}
  BY DEF Ended
<1> QED  BY <1>1, <1>2, <1>4

(* A search that has ended has found exactly what can be reached. *)
THEOREM SearchIsExact == SearchSpec => []SearchExact
PROOF
<1>1. SearchInv => SearchExact
  BY KeptIsExact
<1> QED  BY <1>1, SearchKept, PTL

-----------------------------------------------------------------------------
(* Sequences cut short and made longer. *)
LEMMA Front ==
  ASSUME NEW S, NEW s \in Seq(S), NEW n \in Nat, n =< Len(s)
  PROVE  /\ SubSeq(s, 1, n) \in Seq(S) /\ Len(SubSeq(s, 1, n)) = n
         /\ \A i \in 1..n : SubSeq(s, 1, n)[i] = s[i]
PROOF
<1>1. SubSeq(s, 1, n) = [k \in 1..n |-> s[k]]
  OBVIOUS
<1>2. [k \in 1..n |-> s[k]] \in [1..n -> S]
  OBVIOUS
<1>3. SubSeq(s, 1, n) \in Seq(S) /\ Len(SubSeq(s, 1, n)) = n
  BY <1>1, <1>2
<1> QED  BY <1>1, <1>3

LEMMA NotEmpty == ASSUME NEW S, NEW s \in Seq(S), Len(s) > 0 PROVE s # << >>
  OBVIOUS

LEMMA Longer ==
  ASSUME NEW S, NEW s \in Seq(S), NEW e \in S
  PROVE  /\ Append(s, e) \in Seq(S) /\ Len(Append(s, e)) = Len(s) + 1
         /\ \A i \in 1..Len(s) : Append(s, e)[i] = s[i]
         /\ Append(s, e)[Len(s) + 1] = e
  OBVIOUS

(* The call graph of a program is a finite graph. *)
LEMMA Built == ASSUME NEW p PROVE build(p) \subseteq Edge /\ IsFiniteSet(build(p))
PROOF
<1> DEFINE All  == [src : Node, dst : Node, type : CallTypes]
<1> DEFINE Ends == Node \X (Node \X CallTypes)
<1> DEFINE ends == [e \in All |-> <<e.src, <<e.dst, e.type>>>>]
<1>1. build(p) \subseteq All
  <2> SUFFICES ASSUME NEW f \in defined(p), NEW call \in Range(p[f].calls), NEW g \in Callees(p, call)
               PROVE  addNeighbor({}, f, g, TypeOfCall(call)) \subseteq All
    BY DEF build
  <2>1. f \in Node /\ g \in Node
    BY DEF defined, Callees, getIndirectCallCandidates
  <2>2. TypeOfCall(call) \in CallTypes
    BY DEF TypeOfCall, CallTypes
  <2> QED  BY <2>1, <2>2 DEF addNeighbor
<1>2. All \subseteq Edge
  BY CallTypesAssumption DEF Edge, CallTypes
<1>3. IsFiniteSet(CallTypes)
  <2>1. CallTypes = ({} \cup {"CALL"}) \cup {"IND_CALL"}
    BY DEF CallTypes
  <2>2. IsFiniteSet({} \cup {"CALL"})
    BY FS_EmptySet, FS_AddElement
  <2> QED  BY <2>1, <2>2, FS_AddElement
<1>4. IsFiniteSet(Ends)
  <2>1. IsFiniteSet(Node \X CallTypes)
    BY <1>3, NodeAssumption, FS_Product
  <2> QED  BY <2>1, NodeAssumption, FS_Product
<1>5. ends \in Injection(All, Ends)
  <2>1. ends \in [All -> Ends]
    OBVIOUS
  <2>2. \A d, e \in All : ends[d] = ends[e] => d = e
    <3> SUFFICES ASSUME NEW d \in All, NEW e \in All, ends[d] = ends[e] PROVE d = e
      OBVIOUS
    <3>1. d.src = e.src /\ d.dst = e.dst /\ d.type = e.type
      OBVIOUS
    <3>2. d = [src |-> d.src, dst |-> d.dst, type |-> d.type] /\ e = [src |-> e.src, dst |-> e.dst, type |-> e.type]
      OBVIOUS
    <3> QED  BY <3>1, <3>2
  <2> HIDE DEF ends
  <2> QED  BY <2>1, <2>2 DEF Injection, IsInjective
<1>6. IsFiniteSet(All)
  <2> HIDE DEF ends, All, Ends
  <2> QED  BY <1>4, <1>5, FS_Injection
<1>7. IsFiniteSet(build(p))
  <2> HIDE DEF All
  <2> QED  BY <1>1, <1>6, FS_Subset
<1> HIDE DEF All
<1> QED  BY <1>1, <1>2, <1>7

-----------------------------------------------------------------------------
(* A walk from the source along edges, by no node twice up to the n-th. *)
Simple(p, n) == \A i, j \in 1..n : i # j => p[i] # p[j]
Walk(p) ==
  /\ p \in Seq(Node) /\ p # << >> /\ p[1] = query.src
  /\ \A i \in 1..(Len(p) - 1) : p[i + 1] \in Follows(p[i])

(* What is done at a time: one thing that was asked. *)
OneTask ==
  /\ query.kind # "param" => formals = {}
  /\ query.kind = "paths" => status = "idle" /\ boundary = {}
  /\ query.kind # "paths" => path = << >> /\ left = << >> /\ paths = << >>
  /\ boundary # {} => query = Asking("closure", query.src, query.src)

(* What is called so far is what the functions reach that are done with. *)
DoneWith == (boundary \ (todo \cup Excluded)) \ IF status = "searching" THEN {query.src} ELSE {}
BoundaryInv ==
  boundary # {} =>
    /\ status = "searching" => query.src \in boundary \ (todo \cup Excluded)
    /\ transitive = UNION {ReachFrom(f) : f \in DoneWith}

(* The activations are a walk of functions that can be reached, by none twice
   where callees are being tried; they end with the path that was found. *)
PathInv ==
  /\ path # << >> => Walk(path) /\ Len(left) \in {Len(path) - 1, Len(path)}
  /\ path = << >> => left = << >> /\ paths = << >>
  /\ Simple(path, Len(left))
  /\ \A i \in 1..Len(path) : path[i] \in Reach
  /\ \A i \in 1..Len(left) : left[i] \subseteq Follows(path[i])
  /\ paths # << >> => /\ paths = <<path>> /\ path # << >> /\ Simple(path, Len(path))
                      /\ path[Len(path)] = query.dst

(* As long as none was found, every path there is to the function sought is
   still to be found: it agrees with the activations up to one that has yet to
   begin, or that has its next function left to try. *)
Sought(p) == Walk(p) /\ Simple(p, Len(p)) /\ p[Len(p)] = query.dst
Branches(p, k) ==
  /\ k =< Len(p) /\ \A i \in 1..k : p[i] = path[i]
  /\ \/ k = Len(path) /\ Len(left) < k
     \/ k =< Len(left) /\ k < Len(p) /\ p[k + 1] \in left[k]
NoneLost ==
  (query.kind = "paths" /\ paths = << >>) =>
    \A p \in Seq(Node) : Sought(p) => \E k \in 1..Len(path) : Branches(p, k)

CallInv ==
  /\ SearchInv /\ CallTypeOK
  /\ OneTask /\ BoundaryInv /\ PathInv /\ NoneLost

LEMMA WaysStay ==
  ASSUME UNCHANGED edges, query.kind' = query.kind, query.types' = query.types,
         query.backward' = query.backward
  PROVE  \A m : ReachFrom(m)' = ReachFrom(m)
PROOF
<1>1. ASSUME NEW n PROVE Neighbors(n)' = Neighbors(n)
  BY DEF Neighbors
<1>2. \A S : ClosedUnder(S)' = ClosedUnder(S)
  BY <1>1 DEF ClosedUnder
<1> QED  BY <1>2 DEF ReachFrom

LEMMA WalksStay ==
  ASSUME UNCHANGED <<edges, query>>
  PROVE  \A p : Walk(p)' = Walk(p) /\ Sought(p)' = Sought(p)
PROOF
<1>1. \A n : Follows(n)' = Follows(n)
  BY GraphStays
<1>2. \A p : Walk(p)' = Walk(p)
  BY <1>1 DEF Walk
<1> QED  BY <1>2 DEF Sought

LEMMA AskingType == ASSUME NEW kind \in Kind, NEW f \in Node, NEW g \in Node
                    PROVE  Asking(kind, f, g) \in Query
  BY CallTypesAssumption DEF Asking, Query, CallTypes

-----------------------------------------------------------------------------
LEMMA GraphInitInv ==
  GraphInit({E \in SUBSET Edge : IsFiniteSet(E)}, GraphQuery) => CallInv
PROOF
<1> SUFFICES ASSUME GraphInit({E \in SUBSET Edge : IsFiniteSet(E)}, GraphQuery) PROVE CallInv
  OBVIOUS
<1> USE DEF GraphInit
<1>1. Begins /\ query.kind \in {"canReach", "reached", "alias", "param"}
  BY DEF Ask, Begins, GraphQuery
<1>2. SearchInv
  BY <1>1, BeginsInv
<1>3. path = << >> /\ left = << >> /\ paths = << >> /\ boundary = {} /\ todo = {} /\ transitive = {}
  OBVIOUS
<1>4. CallTypeOK
  BY <1>2, <1>3 DEF SearchInv, CallTypeOK
<1>5. OneTask
  BY <1>1, <1>3 DEF OneTask, Begins
<1>6. BoundaryInv
  BY <1>3 DEF BoundaryInv
<1>7. PathInv
  BY <1>3 DEF PathInv, Simple
<1>8. NoneLost
  BY <1>1 DEF NoneLost
<1> QED  BY <1>2, <1>4, <1>5, <1>6, <1>7, <1>8 DEF CallInv

LEMMA CallInitInv == CallInit(CallQuery, SUBSET Node) => CallInv
PROOF
<1> SUFFICES ASSUME CallInit(CallQuery, SUBSET Node) PROVE CallInv
  OBVIOUS
<1>1. /\ prog \in Programs /\ transitive = {} /\ paths = << >> /\ left = << >>
      /\ visited = {} /\ formals = {} /\ edges = build(prog) /\ todo = boundary
      /\ edges \subseteq Edge /\ IsFiniteSet(edges)
  BY Built DEF CallInit
<1>2. \A f \in defined(prog) : f \in Node
  BY DEF defined
<1>3. CASE /\ query \in CallQuery /\ query.src \in defined(prog) /\ query.dst \in defined(prog)
           /\ boundary = {} /\ todo = {} /\ path = << >>
           /\ pending = <<query.src>> /\ status = "searching"
  <2>1. query \in Query /\ query.kind \in {"calls", "closure"}
    BY <1>3, AskingType DEF CallQuery, Kind, Asking
  <2>2. Begins
    BY <1>1, <1>3, <2>1 DEF Begins
  <2>3. SearchInv
    BY <2>2, BeginsInv
  <2>4. CallTypeOK
    BY <1>1, <1>3, <2>3 DEF SearchInv, CallTypeOK
  <2>5. OneTask
    BY <1>1, <1>3, <2>1 DEF OneTask
  <2>6. BoundaryInv
    BY <1>3 DEF BoundaryInv
  <2>7. PathInv
    BY <1>1, <1>3 DEF PathInv, Simple
  <2>8. NoneLost
    BY <2>1 DEF NoneLost
  <2> QED  BY <2>3, <2>4, <2>5, <2>6, <2>7, <2>8 DEF CallInv
<1>4. ASSUME boundary \in SUBSET Node, boundary \subseteq defined(prog), todo = boundary,
             NEW f \in defined(prog), query = Asking("closure", f, f),
             path = << >>, pending = << >>, status = "idle"
      PROVE  CallInv
  <2>1. query \in Query /\ query.kind = "closure" /\ query = Asking("closure", query.src, query.src)
    BY <1>2, <1>4, AskingType DEF Kind, Asking
  <2>2. SearchTypeOK
    BY <1>1, <1>4, <2>1 DEF SearchTypeOK
  <2>3. SearchInv
    BY <1>1, <1>4, <2>1, <2>2 DEF SearchInv, Seeking
  <2>4. CallTypeOK
    BY <1>1, <1>4, <2>2 DEF CallTypeOK
  <2>5. OneTask
    BY <1>1, <1>4, <2>1 DEF OneTask
  <2>6. BoundaryInv
    BY <1>1, <1>4 DEF BoundaryInv, DoneWith
  <2>7. PathInv
    BY <1>1, <1>4 DEF PathInv, Simple
  <2>8. NoneLost
    BY <2>1 DEF NoneLost
  <2> QED  BY <2>3, <2>4, <2>5, <2>6, <2>7, <2>8 DEF CallInv
<1>5. ASSUME NEW f \in defined(prog), NEW g \in defined(prog), query = Asking("paths", f, g),
             boundary = {}, todo = {}, path = <<f>>, pending = << >>, status = "idle"
      PROVE  CallInv
  <2>1. query \in Query /\ query.kind = "paths" /\ query.src = f /\ f \in Node
    BY <1>2, <1>5, AskingType DEF Kind, Asking
  <2>2. SearchTypeOK
    BY <1>1, <1>5, <2>1 DEF SearchTypeOK
  <2>3. SearchInv
    BY <1>1, <1>5, <2>1, <2>2 DEF SearchInv, Seeking
  <2>9. path \in Seq(Node) /\ Len(path) = 1 /\ path[1] = f /\ path # << >> /\ Len(left) = 0
    BY <1>1, <1>5, <2>1
  <2>4. CallTypeOK
    BY <1>1, <1>5, <2>2, <2>9 DEF CallTypeOK
  <2>5. OneTask
    BY <1>1, <1>5, <2>1 DEF OneTask
  <2>6. BoundaryInv
    BY <1>5 DEF BoundaryInv
  <2>7. PathInv
    <3>1. f \in Reach
      BY <2>1, <2>2, SourceReached
    <3>2. Walk(path)
      BY <2>1, <2>9 DEF Walk
    <3> QED  BY <1>1, <2>9, <3>1, <3>2 DEF PathInv, Simple
  <2>8. NoneLost
    <3> SUFFICES ASSUME NEW p \in Seq(Node), Sought(p) PROVE Branches(p, 1)
      BY <2>9 DEF NoneLost
    <3>1. p # << >> /\ p[1] = f
      BY <2>1 DEF Sought, Walk
    <3>2. 1 =< Len(p)
      BY <3>1
    <3> QED  BY <2>9, <3>1, <3>2 DEF Branches
  <2> QED  BY <2>3, <2>4, <2>5, <2>6, <2>7, <2>8 DEF CallInv
<1>6. \/ /\ query \in CallQuery /\ query.src \in defined(prog) /\ query.dst \in defined(prog)
         /\ boundary = {} /\ todo = {} /\ path = << >>
         /\ pending = <<query.src>> /\ status = "searching"
      \/ /\ boundary \in SUBSET Node /\ boundary \subseteq defined(prog) /\ todo = boundary
         /\ \E f \in defined(prog) : query = Asking("closure", f, f)
         /\ path = << >> /\ pending = << >> /\ status = "idle"
      \/ \E f, g \in defined(prog) :
           /\ query = Asking("paths", f, g)
           /\ boundary = {} /\ todo = {} /\ path = <<f>> /\ pending = << >> /\ status = "idle"
  BY DEF CallInit
<1> QED  BY <1>3, <1>4, <1>5, <1>6

-----------------------------------------------------------------------------
(* Where no walk is under way there is nothing to say of one. *)
LEMMA NoWalk ==
  ASSUME OneTask, query.kind # "paths",
         query'.kind # "paths", UNCHANGED <<path, left, paths>>
  PROVE  PathInv' /\ NoneLost'
PROOF
<1>1. path' = << >> /\ left' = << >> /\ paths' = << >>
  BY DEF OneTask
<1>2. PathInv'
  BY <1>1 DEF PathInv, Simple
<1>3. NoneLost'
  BY DEF NoneLost
<1> QED  BY <1>2, <1>3

LEMMA SearchCallsInv == ASSUME CallInv, SearchCalls PROVE CallInv'
PROOF
<1> USE DEF SearchCalls
<1>1. /\ SearchInv /\ SearchTypeOK /\ CallTypeOK /\ OneTask /\ BoundaryInv /\ query.kind # "paths"
      /\ status = "searching" /\ Covered /\ Justified
      /\ UNCHANGED <<edges, query, prog, boundary, todo, path, left, paths>>
  BY DEF CallInv, SearchInv, OneTask, Search, Skip, Visit, Meet, VisitAlias, Exhaust, Walking
<1>2. SearchInv'
  BY <1>1, SearchStep
<1>3. CallTypeOK'
  BY <1>1, <1>2 DEF CallTypeOK, SearchInv, SearchTypeOK
<1>4. OneTask'
  <2>1. query.kind # "param" => formals' = formals
    BY DEF Search, Skip, Visit, Meet, VisitAlias, Exhaust, Barrier
  <2> QED  BY <1>1, <2>1 DEF OneTask
<1>5. BoundaryInv'
  <2> SUFFICES ASSUME boundary # {} PROVE BoundaryInv'
    BY <1>1 DEF BoundaryInv
  <2>1. /\ query.kind = "closure" /\ query.src \in boundary \ (todo \cup Excluded)
        /\ transitive = UNION {ReachFrom(f) : f \in DoneWith}
        /\ DoneWith = (boundary \ (todo \cup Excluded)) \ {query.src}
    BY <1>1 DEF OneTask, BoundaryInv, Asking, DoneWith
  <2>2. \A m : ReachFrom(m)' = ReachFrom(m)
    BY <1>1, WaysStay
  <2>3. CASE Exhaust
    <3>1. visited = Reach
      BY <1>1, <2>1, <2>3, VisitedAll DEF Exhaust, SearchTypeOK, Query
    <3>2. status' = "exhausted" /\ transitive' = transitive \cup ReachFrom(query.src)
      BY <2>3, <3>1 DEF Exhaust, Reach
    <3>3. DoneWith' = DoneWith \cup {query.src}
      BY <1>1, <2>1, <3>2 DEF DoneWith
    <3>4. transitive' = UNION {ReachFrom(f) : f \in DoneWith \cup {query.src}}
      BY <2>1, <3>2
    <3> QED  BY <1>1, <2>2, <3>2, <3>3, <3>4 DEF BoundaryInv
  <2>4. CASE ~Exhaust
    <3>1. status' = "searching"
      BY <1>1, <2>1, <2>4 DEF Search, Skip, Visit, Meet, VisitAlias, Seeking
    <3>2. transitive' = transitive /\ DoneWith' = DoneWith
      BY <1>1, <3>1 DEF DoneWith
    <3> QED  BY <1>1, <2>1, <2>2, <3>1, <3>2 DEF BoundaryInv
  <2> QED  BY <2>3, <2>4
<1>6. PathInv' /\ NoneLost'
  BY <1>1, NoWalk
<1> QED  BY <1>2, <1>3, <1>4, <1>5, <1>6 DEF CallInv

LEMMA SkipBoundaryInv ==
  ASSUME CallInv, NEW f \in Node, SkipBoundary(f) PROVE CallInv'
PROOF
<1> USE DEF SkipBoundary
<1>1. /\ SearchInv /\ CallTypeOK /\ OneTask /\ BoundaryInv /\ boundary # {}
      /\ UNCHANGED <<edges, query, formals, status, prog, boundary, transitive, path, left, paths>>
  BY DEF CallInv, CallTypeOK, searchVars
<1>2. SearchInv'
  BY <1>1, SearchStep
<1>3. CallTypeOK'
  BY <1>1, <1>2 DEF CallTypeOK, SearchInv
<1>4. query.kind = "closure"
  BY <1>1 DEF OneTask, Asking
<1>5. OneTask'
  BY <1>1, <1>4 DEF OneTask
<1>6. BoundaryInv'
  <2>1. \A m : ReachFrom(m)' = ReachFrom(m)
    BY <1>1, WaysStay
  <2>2. DoneWith' = DoneWith
    BY <1>1 DEF DoneWith
  <2> QED  BY <1>1, <2>1, <2>2 DEF BoundaryInv
<1>7. PathInv' /\ NoneLost'
  BY <1>1, <1>4, NoWalk
<1> QED  BY <1>2, <1>3, <1>5, <1>6, <1>7 DEF CallInv

LEMMA AskBoundaryInv ==
  ASSUME CallInv, NEW f \in Node, AskBoundary(f) PROVE CallInv'
PROOF
<1> USE DEF AskBoundary
<1>1. /\ SearchInv /\ SearchTypeOK /\ CallTypeOK /\ OneTask /\ BoundaryInv /\ boundary # {}
      /\ UNCHANGED <<edges, formals, prog, boundary, transitive, path, left, paths>>
      /\ status # "searching" /\ status' = "searching" /\ f \in todo /\ f \notin Excluded
      /\ todo' = todo \ {f} /\ pending' = <<f>> /\ visited' = {}
  BY DEF CallInv, CallTypeOK, SearchInv
<1>2. query' = Asking("closure", f, f) /\ query' \in Query /\ query'.src = f /\ query'.kind = "closure"
  BY AskingType DEF Asking, Kind
<1>3. query = Asking("closure", query.src, query.src) /\ query.kind = "closure" /\ formals = {}
  BY <1>1 DEF OneTask, Asking
<1>4. SearchInv'
  <2>1. Begins'
    BY <1>1, <1>2, <1>3 DEF Begins, SearchTypeOK
  <2> QED  BY <2>1, BeginsInvNext
<1>5. CallTypeOK'
  BY <1>1, <1>4 DEF CallTypeOK, SearchInv
<1>6. OneTask'
  BY <1>1, <1>2, <1>3 DEF OneTask
<1>7. BoundaryInv'
  <2>1. \A m : ReachFrom(m)' = ReachFrom(m)
    <3>1. query'.kind = query.kind /\ query'.types = query.types /\ query'.backward = query.backward
      <4>1. \A x : /\ Asking("closure", x, x).kind = "closure" /\ Asking("closure", x, x).types = CallTypes
                   /\ Asking("closure", x, x).backward = FALSE
        BY DEF Asking
      <4>2. query.kind = "closure" /\ query.types = CallTypes /\ query.backward = FALSE
        BY <1>3, <4>1
      <4>3. query'.kind = "closure" /\ query'.types = CallTypes /\ query'.backward = FALSE
        BY <1>2, <4>1
      <4> QED  BY <4>2, <4>3
    <3> QED  BY <1>1, <3>1, WaysStay
  <2>2. todo \subseteq boundary
    BY <1>1 DEF CallTypeOK
  <2>3. DoneWith' = DoneWith
    BY <1>1, <1>2 DEF DoneWith
  <2> QED  BY <1>1, <1>2, <2>1, <2>2, <2>3 DEF BoundaryInv
<1>8. PathInv' /\ NoneLost'
  BY <1>1, <1>2, <1>3, NoWalk
<1> QED  BY <1>4, <1>5, <1>6, <1>7, <1>8 DEF CallInv

-----------------------------------------------------------------------------
(* While a path is looked for nothing else changes. *)
Going ==
  /\ query.kind = "paths" /\ paths = << >> /\ SearchTypeOK /\ Walk(path)
  /\ path \in Seq(Node) /\ Len(path) \in Nat /\ Len(path) > 0
  /\ left \in Seq(SUBSET Node) /\ Len(left) \in Nat /\ Len(left) \in {Len(path) - 1, Len(path)}
  /\ CallTypeOK /\ PathInv /\ NoneLost
NothingElse ==
  /\ SearchInv' /\ OneTask' /\ BoundaryInv'
  /\ UNCHANGED <<edges, query, prog, boundary, todo, transitive>>
  /\ Reach' = Reach /\ \A n : Follows(n)' = Follows(n)
  /\ \A p : Walk(p)' = Walk(p) /\ Sought(p)' = Sought(p)

LEMMA OnPath ==
  ASSUME CallInv, Ways, UNCHANGED <<searchVars, prog, boundary, todo, transitive>>
  PROVE  Going /\ NothingElse
PROOF
<1>1. /\ SearchInv /\ CallTypeOK /\ OneTask /\ BoundaryInv /\ PathInv /\ NoneLost
      /\ path # << >> /\ paths = << >> /\ UNCHANGED <<edges, query>>
  BY DEF CallInv, Ways, searchVars
<1>2. query.kind = "paths" /\ boundary = {} /\ status = "idle"
  BY <1>1 DEF OneTask
<1>3. SearchInv'
  BY <1>1, SearchStep
<1>4. OneTask' /\ BoundaryInv'
  BY <1>1, <1>2 DEF OneTask, BoundaryInv, searchVars
<1>5. Reach' = Reach /\ \A n : Follows(n)' = Follows(n)
  BY <1>1, GraphStays
<1>6. \A p : Walk(p)' = Walk(p) /\ Sought(p)' = Sought(p)
  BY <1>1, WalksStay
<1>7. /\ Walk(path) /\ path \in Seq(Node) /\ Len(path) \in Nat /\ Len(path) > 0
      /\ left \in Seq(SUBSET Node) /\ Len(left) \in Nat /\ Len(left) \in {Len(path) - 1, Len(path)}
  BY <1>1 DEF CallTypeOK, PathInv
<1>8. SearchTypeOK
  BY <1>1 DEF SearchInv
<1> QED  BY <1>1, <1>2, <1>3, <1>4, <1>5, <1>6, <1>7, <1>8 DEF searchVars, Going, NothingElse

LEMMA BeforeHere ==
  ASSUME path \in Seq(Node), Len(path) > 0, NEW g
  PROVE  OffPath(g) <=> \A i \in 1..(Len(path) - 1) : path[i] # g
PROOF
<1> DEFINE m == Len(path) - 1
<1> DEFINE q == SubSeq(path, 1, m)
<1>1. m \in Nat /\ m =< Len(path)
  OBVIOUS
<1>2. q \in Seq(Node) /\ Len(q) = m /\ \A i \in 1..m : q[i] = path[i]
  <2> HIDE DEF m
  <2> QED  BY <1>1, Front
<1>3. OffPath(g) <=> g \notin Range(q)
  BY DEF OffPath
<1>4. DOMAIN q = 1..m
  <2> HIDE DEF q, m
  <2> QED  BY <1>2
<1>5. OffPath(g) <=> \A i \in 1..m : path[i] # g
  <2> HIDE DEF q, m
  <2> QED  BY <1>2, <1>3, <1>4 DEF Range
<1> QED  BY <1>5

LEMMA FirstVisit ==
  ASSUME path \in Seq(Node), Len(path) > 0, OffPath(path[Len(path)]), Simple(path, Len(path) - 1)
  PROVE  Simple(path, Len(path))
PROOF
<1>1. \A i \in 1..(Len(path) - 1) : path[i] # path[Len(path)]
  BY BeforeHere
<1>2. \A i \in 1..Len(path) : i = Len(path) \/ i \in 1..(Len(path) - 1)
  OBVIOUS
<1> QED  BY <1>1, <1>2 DEF Simple

(* A walk that is not over goes on with what the function calls. *)
LEMMA GoesOn ==
  ASSUME NEW p, Walk(p), NEW k \in Nat, 0 < k, k < Len(p) PROVE p[k + 1] \in Follows(p[k])
PROOF
<1>1. Len(p) \in Nat /\ k \in 1..(Len(p) - 1)
  BY DEF Walk
<1> QED  BY <1>1 DEF Walk

LEMMA DescendInv == ASSUME CallInv, Descend PROVE CallInv'
PROOF
<1> USE DEF Descend, Going, NothingElse
<1>1. Going /\ NothingElse
  BY OnPath
<1>2. /\ Len(left) = Len(path) - 1 /\ OffPath(Here) /\ Here # query.dst /\ Here = path[Len(path)]
      /\ left' = Append(left, Follows(Here)) /\ path' = path /\ paths' = << >>
  BY <1>1 DEF Here
<1>3. Follows(Here) \in SUBSET Node
  BY <1>1, FollowsType
<1>4. /\ left' \in Seq(SUBSET Node) /\ Len(left') = Len(path) /\ left'[Len(path)] = Follows(Here)
      /\ \A i \in 1..(Len(path) - 1) : left'[i] = left[i]
  <2>1. /\ Append(left, Follows(Here)) \in Seq(SUBSET Node) /\ Len(Append(left, Follows(Here))) = Len(left) + 1
        /\ \A i \in 1..Len(left) : Append(left, Follows(Here))[i] = left[i]
        /\ Append(left, Follows(Here))[Len(left) + 1] = Follows(Here)
    BY <1>1, <1>3, Longer
  <2>2. Len(left) + 1 = Len(path)
    BY <1>1, <1>2
  <2> QED  BY <1>2, <2>1, <2>2
<1>5. CallTypeOK'
  BY <1>1, <1>2, <1>4 DEF CallTypeOK, SearchInv
<1>7. Simple(path, Len(path))
  BY <1>1, <1>2, FirstVisit DEF PathInv
<1>8. PathInv'
  <2>1. \A i \in 1..Len(path) : i = Len(path) \/ i \in 1..(Len(path) - 1)
    BY <1>1
  <2>2. \A i \in 1..Len(path) : left'[i] \subseteq Follows(path[i])
    BY <1>1, <1>2, <1>4, <2>1 DEF PathInv
  <2> QED  BY <1>1, <1>2, <1>4, <1>7, <2>2 DEF PathInv, Simple
<1>9. NoneLost'
  <2> SUFFICES ASSUME NEW p \in Seq(Node), Sought(p)
               PROVE  \E k \in 1..Len(path) : Branches(p, k)'
    BY <1>1, <1>2 DEF NoneLost
  <2>1. PICK k \in 1..Len(path) : Branches(p, k)
    BY <1>1 DEF NoneLost
  <2>2. Walk(p) /\ p[Len(p)] = query.dst /\ Len(p) \in Nat
    BY DEF Sought, Walk
  <2>3. CASE k = Len(path)
    <3>1. k # Len(p) /\ k =< Len(p) /\ p[k] = Here
      BY <1>1, <1>2, <2>1, <2>2, <2>3 DEF Branches
    <3>2. k < Len(p) /\ p[k + 1] \in left'[k]
      BY <1>1, <1>4, <2>2, <2>3, <3>1, GoesOn
    <3> QED  BY <1>1, <1>2, <1>4, <2>1, <2>3, <3>2 DEF Branches
  <2>4. CASE k # Len(path)
    <3>1. k \in 1..(Len(path) - 1)
      BY <2>4
    <3>2. k =< Len(left) /\ k < Len(p) /\ p[k + 1] \in left[k] /\ left'[k] = left[k]
      BY <1>1, <1>2, <1>4, <2>1, <2>4, <3>1 DEF Branches
    <3>3. Branches(p, k)'
      BY <1>1, <1>2, <1>4, <2>1, <3>2 DEF Branches
    <3> QED  BY <1>2, <3>3
  <2> QED  BY <2>3, <2>4
<1> QED  BY <1>1, <1>5, <1>8, <1>9 DEF CallInv

LEMMA FoundPathInv == ASSUME CallInv, FoundPath PROVE CallInv'
PROOF
<1> USE DEF FoundPath, Going, NothingElse
<1>1. Going /\ NothingElse
  BY OnPath
<1>2. /\ Len(left) = Len(path) - 1 /\ OffPath(Here) /\ Here = query.dst /\ Here = path[Len(path)]
      /\ path # << >> /\ left' = left /\ path' = path /\ paths' = <<path>>
  BY <1>1 DEF Here, Ways
<1>3. paths' \in Seq(Seq(Node)) /\ Len(paths') = 1 /\ paths' # << >>
  BY <1>1, <1>2
<1>4. CallTypeOK'
  BY <1>1, <1>2, <1>3 DEF CallTypeOK, SearchInv
<1>6. Simple(path, Len(path))
  BY <1>1, <1>2, FirstVisit DEF PathInv
<1>7. PathInv'
  BY <1>1, <1>2, <1>3, <1>6 DEF PathInv, Simple
<1>8. NoneLost'
  BY <1>3 DEF NoneLost
<1> QED  BY <1>1, <1>4, <1>7, <1>8 DEF CallInv

LEMMA GiveUpInv == ASSUME CallInv, GiveUp PROVE CallInv'
PROOF
<1> USE DEF GiveUp, Going, NothingElse
<1>1. Going /\ NothingElse
  BY OnPath
<1>2. PICK m \in Nat :
         /\ m = Len(path) - 1 /\ Len(left) = m /\ m =< Len(path) /\ left' = left /\ paths' = << >>
         /\ ~OffPath(path[Len(path)]) /\ path' = SubSeq(path, 1, m)
  BY <1>1 DEF Here
<1>3. path' \in Seq(Node) /\ Len(path') = m /\ \A i \in 1..m : path'[i] = path[i]
  <2> QED  BY <1>1, <1>2, Front
<1>4. PICK before \in 1..m : path[before] = path[Len(path)]
  BY <1>1, <1>2, BeforeHere
<1>5. 0 < m /\ m < Len(path) /\ 1 \in 1..m /\ path' # << >>
  <2>1. 0 < m /\ m < Len(path) /\ 1 \in 1..m
    BY <1>2, <1>4
  <2> QED  BY <1>3, <2>1, NotEmpty
<1>6. CallTypeOK'
  BY <1>1, <1>2, <1>3, <1>5 DEF CallTypeOK, SearchInv
<1>7. Walk(path)'
  <2>1. \A i \in 1..(m - 1) : i \in 1..(Len(path) - 1) /\ i \in 1..m /\ i + 1 \in 1..m
    BY <1>2
  <2>2. \A i \in 1..(m - 1) : path'[i + 1] \in Follows(path'[i])
    BY <1>1, <1>3, <2>1 DEF Walk
  <2> QED  BY <1>1, <1>3, <1>5, <2>2 DEF Walk
<1>8. PathInv'
  <2>1. Simple(path', m)
    BY <1>1, <1>2, <1>3 DEF PathInv, Simple
  <2>2. \A i \in 1..m : path'[i] \in Reach
    BY <1>1, <1>2, <1>3, <1>5 DEF PathInv
  <2>3. \A i \in 1..m : left[i] \subseteq Follows(path'[i])
    BY <1>1, <1>2, <1>3 DEF PathInv
  <2>4. Simple(path', Len(left'))
    BY <1>2, <2>1 DEF Simple
  <2> QED  BY <1>1, <1>2, <1>3, <1>5, <1>7, <2>2, <2>3, <2>4 DEF PathInv
<1>9. NoneLost'
  <2> SUFFICES ASSUME NEW p \in Seq(Node), Sought(p)
               PROVE  \E k \in 1..Len(path') : Branches(p, k)'
    BY <1>1, <1>2 DEF NoneLost
  <2>1. PICK k \in 1..Len(path) : Branches(p, k)
    BY <1>1 DEF NoneLost
  <2>2. Len(p) \in Nat /\ Simple(p, Len(p))
    BY DEF Sought, Walk
  <2>3. k # Len(path)
    <3> SUFFICES ASSUME k = Len(path) PROVE FALSE
      OBVIOUS
    <3>1. /\ before \in 1..k /\ k \in 1..k /\ before # k /\ k =< Len(p)
          /\ \A i \in 1..k : p[i] = path[i]
      BY <1>2, <1>4, <1>5, <2>1 DEF Branches
    <3>2. p[before] = p[k] /\ before \in 1..Len(p) /\ k \in 1..Len(p)
      BY <1>4, <2>2, <3>1
    <3> QED  BY <2>2, <3>1, <3>2 DEF Simple
  <2>4. k \in 1..m /\ k =< Len(left) /\ k < Len(p) /\ p[k + 1] \in left[k]
    BY <1>1, <1>2, <2>1, <2>3 DEF Branches
  <2>5. \A i \in 1..k : p[i] = path'[i]
    BY <1>2, <1>3, <2>1, <2>4 DEF Branches
  <2>6. Branches(p, k)'
    BY <1>2, <2>2, <2>4, <2>5 DEF Branches
  <2> QED  BY <1>3, <2>4, <2>6
<1> QED  BY <1>1, <1>6, <1>8, <1>9 DEF CallInv

LEMMA TryCalleeInv == ASSUME CallInv, NEW g \in Node, TryCallee(g) PROVE CallInv'
PROOF
<1> USE DEF TryCallee, Going, NothingElse
<1>1. Going /\ NothingElse
  BY OnPath
<1>2. PICK n \in Nat :
         /\ n = Len(path) /\ Len(left) = n /\ n > 0 /\ n \in 1..n /\ g \in left[n] /\ paths' = << >>
         /\ path' = Append(path, g) /\ left' = [left EXCEPT ![n] = left[n] \ {g}]
  <2>1. /\ Len(left) = Len(path) /\ Len(path) \in Nat /\ Len(path) \in 1..Len(path)
        /\ g \in left[Len(path)] /\ left' = [left EXCEPT ![Len(path)] = left[Len(path)] \ {g}]
    BY <1>1
  <2> QED  BY <1>1, <2>1
<1>3. /\ path' \in Seq(Node) /\ Len(path') = n + 1 /\ path'[n + 1] = g
      /\ \A i \in 1..n : path'[i] = path[i]
  BY <1>1, <1>2, Longer
<1>4. /\ left' \in Seq(SUBSET Node) /\ Len(left') = n
      /\ left'[n] = left[n] \ {g} /\ \A i \in 1..n : i # n => left'[i] = left[i]
  <2>1. left \in [1..n -> SUBSET Node]
    BY <1>1, <1>2
  <2>2. /\ left' \in [1..n -> SUBSET Node] /\ left'[n] = left[n] \ {g}
        /\ \A i \in 1..n : i # n => left'[i] = left[i]
    BY <1>2, <2>1
  <2>3. \A h \in [1..n -> SUBSET Node] : h \in Seq(SUBSET Node) /\ Len(h) = n
    OBVIOUS
  <2> QED  BY <2>2, <2>3
<1>5. path' # << >> /\ \A i \in 1..(n + 1) : i = n + 1 \/ i \in 1..n
  BY <1>2, <1>3, NotEmpty
<1>6. g \in Follows(path[n])
  BY <1>1, <1>2 DEF PathInv
<1>7. CallTypeOK'
  BY <1>1, <1>2, <1>3, <1>4, <1>5 DEF CallTypeOK, SearchInv
<1>8. Walk(path)'
  <2>1. ASSUME NEW i \in 1..n PROVE path'[i + 1] \in Follows(path'[i])
    <3>1. CASE i = n
      BY <1>2, <1>3, <1>6, <3>1
    <3>2. CASE i # n
      <4>1. i \in 1..(n - 1) /\ i + 1 \in 1..n
        BY <1>2, <3>2
      <4> QED  BY <1>1, <1>3, <4>1 DEF Walk
    <3> QED  BY <3>1, <3>2
  <2>2. (n + 1) - 1 = n /\ 1 \in 1..n
    BY <1>2
  <2> QED  BY <1>1, <1>3, <1>5, <2>1, <2>2 DEF Walk
<1>9. PathInv'
  <2>1. Simple(path', n)
    BY <1>1, <1>2, <1>3 DEF PathInv, Simple
  <2>2. \A i \in 1..(n + 1) : path'[i] \in Reach
    <3>1. path[n] \in Reach /\ g \notin Barrier
      BY <1>1, <1>2 DEF PathInv, Barrier
    <3>2. g \in Reach
      BY <1>1, <1>6, <3>1, ReachClosed
    <3> QED  BY <1>1, <1>3, <1>5, <3>2 DEF PathInv
  <2>3. \A i \in 1..n : left'[i] \subseteq Follows(path'[i])
    BY <1>1, <1>2, <1>3, <1>4 DEF PathInv
  <2>4. Len(left') \in {Len(path') - 1, Len(path')}
    BY <1>2, <1>3, <1>4
  <2> QED  BY <1>1, <1>2, <1>3, <1>4, <1>5, <1>8, <2>1, <2>2, <2>3, <2>4 DEF PathInv, Simple
<1>10. NoneLost'
  <2> SUFFICES ASSUME NEW p \in Seq(Node), Sought(p)
               PROVE  \E k \in 1..(n + 1) : Branches(p, k)'
    BY <1>1, <1>2, <1>3 DEF NoneLost
  <2>1. PICK k \in 1..n : Branches(p, k)
    BY <1>1, <1>2 DEF NoneLost
  <2>2. /\ Len(p) \in Nat /\ k =< n /\ k < Len(p) /\ p[k + 1] \in left[k]
        /\ \A i \in 1..k : p[i] = path[i]
    BY <1>1, <1>2, <2>1 DEF Branches, Sought, Walk
  <2>3. CASE k = n /\ p[k + 1] = g
    <3>1. \A i \in 1..(n + 1) : p[i] = path'[i]
      BY <1>2, <1>3, <1>5, <2>2, <2>3
    <3>2. Branches(p, n + 1)'
      BY <1>2, <1>3, <1>4, <2>2, <2>3, <3>1 DEF Branches
    <3> QED  BY <1>2, <3>2
  <2>4. CASE ~(k = n /\ p[k + 1] = g)
    <3>1. p[k + 1] \in left'[k]
      BY <1>4, <2>2, <2>4
    <3>2. \A i \in 1..k : p[i] = path'[i]
      BY <1>2, <1>3, <2>2
    <3>3. Branches(p, k)'
      BY <1>4, <2>2, <3>1, <3>2 DEF Branches
    <3> QED  BY <1>2, <3>3
  <2> QED  BY <2>3, <2>4
<1> QED  BY <1>1, <1>7, <1>9, <1>10 DEF CallInv

LEMMA GoBackInv == ASSUME CallInv, GoBack PROVE CallInv'
PROOF
<1> USE DEF GoBack, Going, NothingElse
<1>1. Going /\ NothingElse
  BY OnPath
<1>2. PICK m \in Nat :
         /\ m = Len(path) - 1 /\ Len(left) = Len(path) /\ m =< Len(path) /\ paths' = << >>
         /\ left[Len(path)] = {} /\ path' = SubSeq(path, 1, m) /\ left' = SubSeq(left, 1, m)
  BY <1>1
<1>3. path' \in Seq(Node) /\ Len(path') = m /\ \A i \in 1..m : path'[i] = path[i]
  <2> QED  BY <1>1, <1>2, Front
<1>4. left' \in Seq(SUBSET Node) /\ Len(left') = m /\ \A i \in 1..m : left'[i] = left[i]
  <2> QED  BY <1>1, <1>2, Front
<1>5. /\ path' = << >> => left' = << >>
      /\ path' # << >> => 1 \in 1..m
      /\ \A i \in 1..m : i \in 1..Len(path)
  BY <1>1, <1>2, <1>3, <1>4
<1>6. CallTypeOK'
  BY <1>1, <1>2, <1>3, <1>4 DEF CallTypeOK, SearchInv
<1>7. path' # << >> => Walk(path)'
  <2>1. \A i \in 1..(m - 1) : i \in 1..(Len(path) - 1) /\ i \in 1..m /\ i + 1 \in 1..m
    BY <1>2
  <2>2. \A i \in 1..(m - 1) : path'[i + 1] \in Follows(path'[i])
    BY <1>1, <1>3, <2>1 DEF Walk
  <2> QED  BY <1>1, <1>3, <1>5, <2>2 DEF Walk
<1>8. PathInv'
  <2>1. Simple(path', m)
    BY <1>1, <1>2, <1>3, <1>5 DEF PathInv, Simple
  <2>2. \A i \in 1..m : path'[i] \in Reach
    BY <1>1, <1>2, <1>3, <1>5 DEF PathInv
  <2>3. \A i \in 1..m : left'[i] \subseteq Follows(path'[i])
    BY <1>1, <1>2, <1>3, <1>4, <1>5 DEF PathInv
  <2>4. Simple(path', Len(left'))
    BY <1>4, <2>1 DEF Simple
  <2> QED  BY <1>1, <1>2, <1>3, <1>4, <1>5, <1>7, <2>2, <2>3, <2>4 DEF PathInv
<1>9. NoneLost'
  <2> SUFFICES ASSUME NEW p \in Seq(Node), Sought(p)
               PROVE  \E k \in 1..m : Branches(p, k)'
    BY <1>1, <1>2, <1>3 DEF NoneLost
  <2>1. PICK k \in 1..Len(path) : Branches(p, k)
    BY <1>1 DEF NoneLost
  <2>2. k # Len(path) /\ Len(p) \in Nat
    BY <1>2, <2>1 DEF Branches, Sought, Walk
  <2>4. k \in 1..m /\ k =< Len(left) /\ k < Len(p) /\ p[k + 1] \in left[k]
    BY <1>1, <1>2, <2>1, <2>2 DEF Branches
  <2>5. /\ \A i \in 1..k : p[i] = path'[i]
        /\ p[k + 1] \in left'[k]
    BY <1>2, <1>3, <1>4, <2>1, <2>4 DEF Branches
  <2>6. Branches(p, k)'
    BY <1>4, <2>2, <2>4, <2>5 DEF Branches
  <2> QED  BY <2>4, <2>6
<1> QED  BY <1>1, <1>6, <1>8, <1>9 DEF CallInv

-----------------------------------------------------------------------------
LEMMA CallStep == ASSUME CallInv, [CallNext]_callVars PROVE CallInv'
PROOF
<1>1. CASE UNCHANGED callVars
  <2> USE <1>1 DEF callVars, searchVars
  <2>1. /\ \A n : Follows(n)' = Follows(n) /\ ReachFrom(n)' = ReachFrom(n)
        /\ Reach' = Reach /\ \A p : Walk(p)' = Walk(p) /\ Sought(p)' = Sought(p)
    BY GraphStays, WaysStay, WalksStay
  <2>2. SearchInv' /\ CallTypeOK'
    BY SearchStep DEF CallInv, CallTypeOK, SearchInv
  <2>3. OneTask' /\ BoundaryInv'
    BY <2>1 DEF CallInv, OneTask, BoundaryInv, DoneWith
  <2>4. PathInv'
    BY <2>1 DEF CallInv, PathInv, Simple
  <2>5. NoneLost'
    BY <2>1 DEF CallInv, NoneLost, Branches
  <2> QED  BY <2>2, <2>3, <2>4, <2>5 DEF CallInv
<1>2. CASE CallNext
  BY <1>2, SearchCallsInv, DescendInv, FoundPathInv, GiveUpInv, GoBackInv, SkipBoundaryInv, AskBoundaryInv, TryCalleeInv
  DEF CallNext
<1> QED  BY <1>1, <1>2

(* Every query, search and walk keeps to what it was asked, and loses none of
   what it is to find. *)
THEOREM CallsKept == CallSpec => []CallInv
PROOF
<1>1. CallSpec => CallInv
  BY GraphInitInv, CallInitInv DEF CallSpec
<1>2. CallInv /\ [CallNext]_callVars => CallInv'
  BY CallStep
<1> QED  BY <1>1, <1>2, PTL DEF CallSpec

(* The state of a query, of the boundary and of a path is well formed. *)
THEOREM TypeCorrect == CallSpec => []CallTypeOK
PROOF
<1>1. CallInv => CallTypeOK
  BY DEF CallInv
<1> QED  BY <1>1, CallsKept, PTL

(* Among all that is asked of a call graph too, a search that has ended has
   found exactly what can be reached. *)
THEOREM CallSearchIsExact == CallSpec => [](SearchInv /\ SearchExact)
PROOF
<1>1. CallInv => SearchInv /\ SearchExact
  BY KeptIsExact DEF CallInv
<1> QED  BY <1>1, CallsKept, PTL

(* What is called from the boundary is what its functions call that are not
   excluded, in whatever order the set gives them. *)
THEOREM BoundaryIsExact == CallSpec => []BoundaryExact
PROOF
<1>1. CallInv => BoundaryExact
  <2> SUFFICES ASSUME CallInv, Answered, boundary # {}
               PROVE  transitive = UNION {ReachFrom(f) : f \in boundary \ Excluded}
    BY DEF BoundaryExact
  <2>1. DoneWith = boundary \ Excluded
    BY DEF Answered, DoneWith
  <2> QED  BY <2>1 DEF CallInv, BoundaryInv
<1> QED  BY <1>1, CallsKept, PTL

-----------------------------------------------------------------------------
(* Any function that can be reached ends a walk by no function twice: where a
   walk goes on to a function it has been at, the walk up to there will do. *)
LEMMA ReachedByWalk ==
  ASSUME SearchTypeOK, query.kind = "paths", NEW n \in Reach
  PROVE  \E p \in Seq(Node) : Walk(p) /\ Simple(p, Len(p)) /\ p[Len(p)] = n
PROOF
<1> DEFINE Ends(m) == \E p \in Seq(Node) : Walk(p) /\ Simple(p, Len(p)) /\ p[Len(p)] = m
<1> DEFINE S == {m \in Node : Ends(m)}
<1>1. query.src \in S
  <2> DEFINE p == <<query.src>>
  <2>1. query.src \in Node
    BY DEF SearchTypeOK, Query
  <2>2. p \in Seq(Node) /\ Len(p) = 1 /\ p[1] = query.src /\ p # << >>
    BY <2>1
  <2>3. Walk(p) /\ Simple(p, Len(p)) /\ p[Len(p)] = query.src
    <3> HIDE DEF p
    <3> QED  BY <2>2 DEF Walk, Simple
  <2> QED  BY <2>1, <2>2, <2>3
<1>2. ASSUME NEW a \in S, NEW b \in Follows(a) PROVE b \in S
  <2>1. PICK p \in Seq(Node) : Walk(p) /\ Simple(p, Len(p)) /\ p[Len(p)] = a
    OBVIOUS
  <2>2. b \in Node
    BY <1>2, FollowsType
  <2>3. Len(p) \in Nat /\ Len(p) > 0
    BY <2>1 DEF Walk
  <2>4. CASE \E k \in 1..Len(p) : p[k] = b
    <3>1. PICK k \in 1..Len(p) : p[k] = b
      BY <2>4
    <3>2. k \in Nat /\ k > 0 /\ k =< Len(p)
      BY <2>3
    <3>3. PICK q \in Seq(Node) : Len(q) = k /\ \A i \in 1..k : q[i] = p[i]
      <4>1. /\ SubSeq(p, 1, k) \in Seq(Node) /\ Len(SubSeq(p, 1, k)) = k
            /\ \A i \in 1..k : SubSeq(p, 1, k)[i] = p[i]
        BY <3>2, Front
      <4> QED  BY <4>1
    <3>4. \A i \in 1..k : i \in 1..Len(p)
      BY <2>3, <3>2
    <3>5. Simple(q, Len(q))
      BY <2>1, <3>3, <3>4 DEF Simple
    <3>6. \A i \in 1..(k - 1) : i \in 1..k /\ i + 1 \in 1..k /\ i \in 1..(Len(p) - 1)
      BY <2>3, <3>2
    <3>7. \A i \in 1..(k - 1) : q[i + 1] \in Follows(q[i])
      BY <2>1, <3>3, <3>6 DEF Walk
    <3>8. q # << >> /\ 1 \in 1..k /\ k \in 1..k
      BY <3>2, <3>3, NotEmpty
    <3>9. Walk(q)
      BY <2>1, <3>3, <3>7, <3>8 DEF Walk
    <3> QED  BY <2>2, <3>1, <3>3, <3>5, <3>8, <3>9
  <2>5. CASE ~ \E k \in 1..Len(p) : p[k] = b
    <3>1. PICK q \in Seq(Node) : /\ Len(q) = Len(p) + 1 /\ q[Len(p) + 1] = b
                                 /\ \A i \in 1..Len(p) : q[i] = p[i]
      <4>1. /\ Append(p, b) \in Seq(Node) /\ Len(Append(p, b)) = Len(p) + 1
            /\ Append(p, b)[Len(p) + 1] = b /\ \A i \in 1..Len(p) : Append(p, b)[i] = p[i]
        BY <2>2, Longer
      <4> QED  BY <4>1
    <3>2. \A i \in 1..(Len(p) + 1) : i = Len(p) + 1 \/ i \in 1..Len(p)
      BY <2>3
    <3>3. Simple(q, Len(q))
      BY <2>1, <2>3, <2>5, <3>1, <3>2 DEF Simple
    <3>4. ASSUME NEW i \in 1..Len(p) PROVE q[i + 1] \in Follows(q[i])
      <4>1. CASE i = Len(p)
        BY <1>2, <2>1, <3>1, <4>1
      <4>2. CASE i # Len(p)
        <5>1. i \in 1..(Len(p) - 1) /\ i + 1 \in 1..Len(p)
          BY <2>3, <4>2
        <5> QED  BY <2>1, <3>1, <5>1 DEF Walk
      <4> QED  BY <4>1, <4>2
    <3>5. q # << >> /\ 1 \in 1..Len(p) /\ Len(q) - 1 = Len(p)
      BY <2>3, <3>1, NotEmpty
    <3>6. Walk(q)
      BY <2>1, <3>1, <3>4, <3>5 DEF Walk
    <3> QED  BY <2>2, <3>1, <3>3, <3>6
  <2> QED  BY <2>4, <2>5
<1>3. Reach \subseteq S
  <2>1. ClosedUnder(S)
    <3>1. \A a \in S : Follows(a) = Neighbors(a)
      BY FollowsNeighbors DEF SearchTypeOK, Query
    <3> HIDE DEF S
    <3> QED  BY <1>2, <3>1 DEF ClosedUnder
  <2>2. S \in SUBSET Node
    OBVIOUS
  <2> HIDE DEF S
  <2> QED  BY <1>1, <2>1, <2>2, ReachLeast
<1> QED  BY <1>3

(* A path is found if and only if there is one, and it is one. *)
THEOREM PathsAreExact == CallSpec => []PathsExact
PROOF
<1>1. CallInv => PathsExact
  <2> SUFFICES ASSUME CallInv, query.kind = "paths", Answered PROVE PathsExact
    BY DEF PathsExact
  <2>1. PathInv /\ NoneLost /\ SearchTypeOK /\ path \in Seq(Node)
    BY DEF CallInv, SearchInv, CallTypeOK
  <2>2. CASE paths # << >>
    <3>1. /\ paths = <<path>> /\ Walk(path) /\ Simple(path, Len(path)) /\ path[Len(path)] = query.dst
          /\ Len(path) \in Nat /\ Len(path) > 0
      BY <2>1, <2>2 DEF PathInv, Walk
    <3>2. query.dst \in Reach
      BY <2>1, <3>1 DEF PathInv
    <3>3. \A k \in DOMAIN paths : paths[k] = path
      BY <3>1
    <3>4. DOMAIN path = 1..Len(path)
      BY <2>1
    <3>5. \A i \in 1..(Len(path) - 1) : path[i + 1] \in Neighbors(path[i])
      <4> SUFFICES ASSUME NEW i \in 1..(Len(path) - 1) PROVE path[i + 1] \in Neighbors(path[i])
        OBVIOUS
      <4>1. path[i] \in Node
        BY <2>1
      <4>2. Follows(path[i]) = Neighbors(path[i])
        BY <2>1, <4>1, FollowsNeighbors DEF SearchTypeOK, Query
      <4> QED  BY <3>1, <4>2 DEF Walk
    <3> HIDE DEF Reach
    <3> QED  BY <2>2, <3>1, <3>2, <3>3, <3>4, <3>5 DEF PathsExact, Walk, Simple
  <2>3. CASE paths = << >>
    <3>1. path = << >> /\ Len(path) = 0
      BY <2>3 DEF Answered
    <3>2. ASSUME query.dst \in Reach PROVE FALSE
      <4>1. PICK p \in Seq(Node) : Sought(p)
        BY <2>1, <3>2, ReachedByWalk DEF Sought
      <4>2. \E k \in 1..Len(path) : Branches(p, k)
        BY <2>1, <2>3, <4>1 DEF NoneLost
      <4> QED  BY <3>1, <4>2
    <3> QED  BY <2>3, <3>2 DEF PathsExact
  <2> QED  BY <2>2, <2>3
<1> QED  BY <1>1, CallsKept, PTL
=============================================================================
