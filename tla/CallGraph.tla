------------------------------ MODULE CallGraph ------------------------------
(***************************************************************************)
(* The call graph of the PDG (PDGCallGraph.cpp) and what is asked of it:   *)
(* whether a function calls another, by which path, what a function calls, *)
(* and what the functions at the boundary of the two domains call          *)
(* (SharedDataAnalysis.cpp).                                               *)
(*                                                                         *)
(* A program gives every function [defined, exported, signature, vararg,   *)
(* calls]; a call is [callee, signature], without callee when indirect.    *)
(***************************************************************************)
EXTENDS PDGSearch

CONSTANTS Programs, NoFunction
ASSUME CallTypesAssumption == {"CALL", "IND_CALL"} \subseteq EdgeType

VARIABLES
  prog,
  boundary,     \* the boundary functions,
  todo,         \* those still to be looked at,
  transitive,   \* and what those before call
  path, left,   \* the activations of computePathsHelper: the functions, and
                \* the callees each has not tried yet
  paths         \* path_vecs
callVars == <<searchVars, prog, boundary, todo, transitive, path, left, paths>>

defined(p) == {f \in Node : p[f].defined}

(* isFuncSignatureMatch, over signatures up to version tags of structures. *)
isFuncSignatureMatch(call, fn) == ~fn.vararg /\ call.signature = fn.signature
getIndirectCallCandidates(p, call) ==
  {g \in defined(p) : isFuncSignatureMatch(call, p[g]) /\ p[g].exported}
Callees(p, call) ==
  IF call.callee # NoFunction THEN {call.callee} \cap defined(p)
  ELSE getIndirectCallCandidates(p, call)
TypeOfCall(call) == IF call.callee # NoFunction THEN "CALL" ELSE "IND_CALL"

build(p) ==
  UNION {UNION {UNION {addNeighbor({}, f, g, TypeOfCall(call)) : g \in Callees(p, call)} :
                  call \in Range(p[f].calls)} : f \in defined(p)}

CallTypes == {"CALL", "IND_CALL"}
Asking(kind, f, g) == [kind |-> kind, src |-> f, dst |-> g, types |-> CallTypes, backward |-> FALSE]

(* A query of the dependence graph, or one of a caller of the call graph, or
   computeBoundaryTransitiveClosure, or computePaths, which starts with no
   activation. *)
GraphInit(graphs, queries) ==
  /\ Ask(graphs, queries)
  /\ prog \in Programs
  /\ boundary = {} /\ todo = {} /\ transitive = {} /\ path = << >> /\ left = << >> /\ paths = << >>
CallInit(queries, boundaries) ==
  /\ prog \in Programs
  /\ transitive = {} /\ paths = << >> /\ left = << >> /\ visited = {} /\ formals = {}
  /\ edges = build(prog)
  /\ \/ /\ query \in queries /\ query.src \in defined(prog) /\ query.dst \in defined(prog)
        /\ boundary = {} /\ todo = {} /\ path = << >>
        /\ pending = <<query.src>> /\ status = "searching"
     \/ /\ boundary \in boundaries /\ boundary \subseteq defined(prog) /\ todo = boundary
        /\ \E f \in defined(prog) : query = Asking("closure", f, f)
        /\ path = << >> /\ pending = << >> /\ status = "idle"
     \/ \E f, g \in defined(prog) :
          /\ query = Asking("paths", f, g)
          /\ boundary = {} /\ todo = {} /\ path = <<f>> /\ pending = << >> /\ status = "idle"

-----------------------------------------------------------------------------
(* computeBoundaryTransitiveClosure: the set of boundary functions in any
   order, and of each that is not excluded what it calls. *)
SkipBoundary(f) ==
  /\ status # "searching" /\ f \in todo /\ f \in Excluded
  /\ todo' = todo \ {f}
  /\ UNCHANGED <<searchVars, prog, boundary, transitive, path, left, paths>>
AskBoundary(f) ==
  /\ status # "searching" /\ f \in todo /\ f \notin Excluded
  /\ query' = Asking("closure", f, f) /\ pending' = <<f>> /\ visited' = {}
  /\ status' = "searching" /\ todo' = todo \ {f}
  /\ UNCHANGED <<edges, formals, prog, boundary, transitive, path, left, paths>>
(* A faulty variant: what the functions before call is forgotten. *)
SearchCallsLast ==
  /\ Search
  /\ transitive' = IF boundary # {} /\ status' = "exhausted" THEN visited ELSE transitive
  /\ UNCHANGED <<prog, boundary, todo, path, left, paths>>
SearchCalls ==
  /\ Search
  /\ transitive' = IF boundary # {} /\ status' = "exhausted"
                   THEN transitive \cup visited ELSE transitive
  /\ UNCHANGED <<prog, boundary, todo, path, left, paths>>

-----------------------------------------------------------------------------
(* computePathsHelper.  The functions visited are handed down by value: those
   of the path.  The first path found ends the search. *)
Ways == path # << >> /\ paths = << >>
Here == path[Len(path)]
(* A faulty variant: a function that is on the path is tried again. *)
OffPathAny(g) == TRUE
OffPath(g) == g \notin Range(SubSeq(path, 1, Len(path) - 1))
Descend ==
  /\ Ways /\ Len(left) < Len(path) /\ OffPath(Here) /\ Here # query.dst
  /\ left' = Append(left, Follows(Here))
  /\ UNCHANGED <<searchVars, prog, boundary, todo, transitive, path, paths>>
FoundPath ==
  /\ Ways /\ Len(left) < Len(path) /\ OffPath(Here) /\ Here = query.dst
  /\ paths' = <<path>>
  /\ UNCHANGED <<searchVars, prog, boundary, todo, transitive, path, left>>
GiveUp ==
  /\ Ways /\ Len(left) < Len(path) /\ ~OffPath(Here)
  /\ path' = SubSeq(path, 1, Len(path) - 1)
  /\ UNCHANGED <<searchVars, prog, boundary, todo, transitive, left, paths>>
TryCallee(g) ==
  /\ Ways /\ Len(left) = Len(path) /\ g \in left[Len(left)]
  /\ path' = Append(path, g)
  /\ left' = [left EXCEPT ![Len(left)] = @ \ {g}]
  /\ UNCHANGED <<searchVars, prog, boundary, todo, transitive, paths>>
(* A faulty variant: the callees of the function left stay. *)
GoBackShort ==
  /\ Ways /\ Len(left) = Len(path) /\ left[Len(left)] = {}
  /\ path' = SubSeq(path, 1, Len(path) - 1)
  /\ UNCHANGED <<searchVars, prog, boundary, todo, transitive, left, paths>>
GoBack ==
  /\ Ways /\ Len(left) = Len(path) /\ left[Len(left)] = {}
  /\ path' = SubSeq(path, 1, Len(path) - 1)
  /\ left' = SubSeq(left, 1, Len(left) - 1)
  /\ UNCHANGED <<searchVars, prog, boundary, todo, transitive, paths>>

CallNext ==
  \/ SearchCalls \/ Descend \/ FoundPath \/ GiveUp \/ GoBack
  \/ \E f \in Node : SkipBoundary(f) \/ AskBoundary(f) \/ TryCallee(f)

Answered == /\ status # "searching" /\ todo = {}
            /\ path = << >> \/ paths # << >>

Resting  == Answered /\ UNCHANGED callVars

(* Any graph and program, and whatever is asked of them. *)
GraphQuery == {q \in Query : q.kind \in {"canReach", "reached", "alias", "param"}}
CallQuery  == {Asking(kind, f, g) : kind \in {"calls", "closure"}, f, g \in Node}
CallSpec ==
  /\ \/ GraphInit({E \in SUBSET Edge : IsFiniteSet(E)}, GraphQuery)
     \/ CallInit(CallQuery, SUBSET Node)
  /\ [][CallNext]_callVars

-----------------------------------------------------------------------------
CallTypeOK ==
  /\ SearchTypeOK /\ prog \in Programs
  /\ boundary \subseteq Node /\ todo \subseteq boundary /\ transitive \subseteq Node
  /\ path \in Seq(Node) /\ left \in Seq(SUBSET Node) /\ Len(left) \in {Len(path) - 1, Len(path)} \cup {0}
  /\ paths \in Seq(Seq(Node)) /\ Len(paths) =< 1

(* What needs stubs is what is called from the boundary, not through functions
   that are excluded, whatever the order they are looked at in. *)
BoundaryExact ==
  (query.kind = "closure" /\ Answered) =>
    (boundary # {} => transitive = UNION {ReachFrom(f) : f \in boundary \ Excluded})

(* A path is found if and only if there is one; it leads from caller to callee
   to the function sought, and by no function twice. *)
PathsExact ==
  (query.kind = "paths" /\ Answered) =>
    /\ paths # << >> <=> query.dst \in Reach
    /\ \A k \in DOMAIN paths :
         LET p == paths[k]
         IN /\ p[1] = query.src /\ p[Len(p)] = query.dst
            /\ \A i \in 1..(Len(p) - 1) : p[i + 1] \in Neighbors(p[i])
            /\ \A i, j \in DOMAIN p : i # j => p[i] # p[j]

(* Every query is answered, in graphs with cycles too. *)
Answers == <>Answered
=============================================================================
