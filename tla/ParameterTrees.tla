--------------------------- MODULE ParameterTrees ---------------------------
(***************************************************************************)
(* The trees of the parameters of functions and of the arguments of calls, *)
(* the edges that connect them with the instructions, and the accesses     *)
(* then found for each field: Tree.cpp, FunctionWrapper.cpp,               *)
(* CallWrapper.cpp, ProgramDependencyGraph.cpp, and                        *)
(* computeDataAccessForTreeNode of DataAccessAnalysis.cpp.                 *)
(*                                                                         *)
(* Parameters are pointers to one structure, whose field PointerField      *)
(* points to another of its kind.  A function is [params, insts]: which    *)
(* parameters have debug information, and the instructions in the order of *)
(* the layout, each [op, base, field, callee, args].  A "param" loads the  *)
(* parameter base from its place on the stack; a "gep" is the address of a *)
(* field of what instruction base points to.  Functions return nothing, and*)
(* no two instructions of them are aliases but by that chain; none gets    *)
(* one of its parameters back as another.                                  *)
(***************************************************************************)
EXTENDS Integers, Sequences, FiniteSets, SequencesExt

CONSTANTS FunctionName, Field, PointerField,
          MaxTreeDepth, \* 6 in the code
          Programs,     \* [order, driver, functions]
          StartSize     \* what the uninitialised size of a tree may hold

ASSUME TypesAssumption ==
  /\ IsFiniteSet(FunctionName) /\ IsFiniteSet(Field) /\ PointerField \in Field
  /\ MaxTreeDepth \in Nat /\ MaxTreeDepth > 1 /\ StartSize \subseteq Int

(* Every function has its turn once.  An address is taken of what a parameter
   or a loaded pointer points to, loads and stores are of such addresses, and
   a call passes pointers, one for each parameter. *)
Op == {"param", "gep", "load", "store", "call"}
Instruction == [op : Op, base : Nat, field : Field \cup {0},
                callee : FunctionName \cup {"none"}, args : Seq(Nat)]
WellFormed(P) ==
  /\ P.order \in Seq(FunctionName) /\ IsInjective(P.order) /\ Range(P.order) = FunctionName
  /\ \A f \in FunctionName :
       LET params == P.functions[f].params
           insts  == P.functions[f].insts
           Pointers == {v \in DOMAIN insts : insts[v].op \in {"param", "load"}}
       IN /\ params \in Seq(BOOLEAN) /\ insts \in Seq(Instruction)
          /\ \A u \in DOMAIN insts :
               LET i == insts[u]
               IN /\ i.op = "param" => i.base \in DOMAIN params
                  /\ i.op = "gep" => i.base \in Pointers /\ i.field \in Field
                  /\ i.op \in {"load", "store"} => i.base \in DOMAIN insts /\ insts[i.base].op = "gep"
                  /\ i.op = "call" => /\ i.callee \in FunctionName /\ Range(i.args) \subseteq Pointers
                                     /\ Len(i.args) = Len(P.functions[i.callee].params)
ASSUME ProgramAssumption == \A P \in Programs : WellFormed(P)

VARIABLES
  prog,
  start,     \* the size a formal in tree starts from
  waiting,   \* the functions still to be connected, in the order of the module
  stage,     \* how far the first of them is, or that the pass has crashed
  edges,     \* of the graph
  written,   \* formal out nodes tagged DATA_WRITE
  unseen,    \* functions whose accesses are still to be computed
  accTags    \* [node, tag]
vars == <<prog, start, waiting, stage, edges, written, unseen, accTags>>

Params(f) == prog.functions[f].params
Insts(f)  == prog.functions[f].insts
Calls(f)  == {c \in DOMAIN Insts(f) : Insts(f)[c].op = "call"}
Formals == UNION {{<<f, k>> : k \in DOMAIN Params(f)} : f \in FunctionName}
(* Loops over the parameters return at the first that has no tree. *)
Usable(f, k) == \A j \in 1..k : Params(f)[j]
UsableParams(f) == {k \in DOMAIN Params(f) : Usable(f, k)}
TreeParams(f)   == {k \in DOMAIN Params(f) : Params(f)[k]}

-----------------------------------------------------------------------------
(* The shape of a tree: a node is the path to it, each step of which is one
   that expandNode takes. *)
IsStruct(p)  == Len(p) % 2 = 1
IsPointer(p) == p = << >> \/ (~IsStruct(p) /\ Last(p) = PointerField)
expandNode(p) == IF IsStruct(p) THEN Field ELSE IF IsPointer(p) THEN {1} ELSE {}
Shape == {p \in SeqOf(Field \cup {1}, MaxTreeDepth) :
            \A n \in DOMAIN p : p[n] \in expandNode(SubSeq(p, 1, n - 1))}
(* build counts the nodes it tries to expand. *)
BuiltSize == Cardinality({p \in Shape : Len(p) < MaxTreeDepth})
numOfChild(p) == IF Len(p) = MaxTreeDepth THEN 0 ELSE Cardinality(expandNode(p))

Users(f, v, op) == {u \in DOMAIN Insts(f) : Insts(f)[u].op = op /\ Insts(f)[u].base = v}
(* The offset of the type of a node: zero for a structure. *)
isGEPOffsetMatchDIOffset(p, field) == field = IF IsStruct(p) THEN 1 ELSE Last(p)
(* A faulty variant: fields are looked for among the users of the structure. *)
DerivedFromParent(f, p, addr) ==
  UNION {{u \in Users(f, v, "gep") : isGEPOffsetMatchDIOffset(p, Insts(f)[u].field)} : v \in addr[Front(p)]}
computeDerivedAddrVarsFromParent(f, p, addr) ==
  LET parent == Front(p)
      base   == addr[IF IsStruct(parent) THEN Front(parent) ELSE parent]
  IN UNION {{u \in Users(f, v, "gep") : isGEPOffsetMatchDIOffset(p, Insts(f)[u].field)}
            \cup (IF IsStruct(parent) THEN {} ELSE Users(f, v, "load")) : v \in base}
AddrVars(f, roots) ==
  LET addr[p \in Shape] ==
        IF p = << >> THEN roots ELSE computeDerivedAddrVarsFromParent(f, p, addr)
  IN addr
(* Nodes of a tree with their address variables. *)
Addresses(f, roots) ==
  LET addr == AddrVars(f, roots) IN {x \in Shape \X DOMAIN Insts(f) : x[2] \in addr[x[1]]}
FormalAddresses(f, k) == Addresses(f, Users(f, k, "param"))

hasReadAccess(f, v)  == Users(f, v, "load") \cup Users(f, v, "gep") # {}
hasWriteAccess(f, v) == Users(f, v, "store") # {}
computeDataAccessTagsForVal(f, v) ==
  {t \in {"DATA_READ", "DATA_WRITE"} : IF t = "DATA_READ" THEN hasReadAccess(f, v) ELSE hasWriteAccess(f, v)}

-----------------------------------------------------------------------------
(* Nodes of the graph. *)
Node(kind, f, inst, arg, p) == [kind |-> kind, at |-> <<f, inst>>, arg |-> arg, path |-> p]
Entry(f)              == Node("entry", f, 0, 0, << >>)
Inst(f, v)            == Node("inst", f, v, 0, << >>)
FormalIn(f, k, p)     == Node("formal_in", f, 0, k, p)
FormalOut(f, k, p)    == Node("formal_out", f, 0, k, p)
(* The trees of a call are kept by the value passed. *)
ActualIn(f, c, v, p)  == Node("actual_in", f, c, v, p)
ActualOut(f, c, v, p) == Node("actual_out", f, c, v, p)
Edge(src, dst, type)  == [src |-> src, dst |-> dst, type |-> type]

Init ==
  /\ prog \in Programs
  /\ start \in [Formals -> StartSize]
  /\ waiting = prog.order /\ stage = "intra" /\ edges = {} /\ written = {}
  /\ unseen = FunctionName /\ accTags = {}

F == Head(waiting)
(* The entry with the trees, the trees with the address variables, and what is
   written with the trees. *)
Writes(f, k) == {x \in FormalAddresses(f, k) : hasWriteAccess(f, x[2])}
TreeEdges(f, k) ==
  {Edge(Entry(f), FormalIn(f, k, << >>), "PARAMETER_IN"),
   Edge(Entry(f), FormalOut(f, k, << >>), "PARAMETER_OUT")}
  \cup {Edge(FormalIn(f, k, x[1]), Inst(f, x[2]), "PARAMETER_IN") : x \in FormalAddresses(f, k)}
  \cup {Edge(Inst(f, x[2]), FormalOut(f, k, x[1]), "PARAMETER_OUT") : x \in Writes(f, k)}
IntraEdges(f) == UNION {TreeEdges(f, k) : k \in UsableParams(f)}
Written(f) == UNION {{FormalOut(f, k, x[1]) : x \in Writes(f, k)} : k \in UsableParams(f)}
connectIntraprocDependencies ==
  /\ waiting # << >> /\ stage = "intra"
  /\ edges' = edges \cup IntraEdges(F)
  /\ written' = written \cup Written(F)
  /\ stage' = "inter"
  /\ UNCHANGED <<prog, start, waiting, unseen, accTags>>

(* connectInTrees, connectOutTrees: trees of different sizes are left alone.
   The formal out tree and the actual ones are copies, counted from zero. *)
connectInTrees(f, c, v, g, k) ==
  {Edge(ActualIn(f, c, v, p), FormalIn(g, k, p), "PARAMETER_IN") :
     p \in IF start[<<g, k>>] + BuiltSize = BuiltSize THEN Shape ELSE {}}
connectOutTrees(f, c, v, g, k) ==
  {Edge(FormalOut(g, k, p), ActualOut(f, c, v, p), "PARAMETER_OUT") :
     p \in {q \in Shape : FormalOut(g, k, q) \in written}}

(* A faulty variant: what is laid out before the call only. *)
connectActualBefore(f, c, v) ==
  {Edge(Inst(f, c), ActualIn(f, c, v, << >>), "PARAMETER_IN"),
   Edge(Inst(f, c), ActualOut(f, c, v, << >>), "PARAMETER_OUT")}
  \cup {Edge(Inst(f, x[2]), ActualIn(f, c, v, x[1]), "PARAMETER_IN") :
          x \in {y \in Addresses(f, {v}) : y[2] < c}}
  \cup {Edge(ActualOut(f, c, v, x[1]), Inst(f, x[2]), "PARAMETER_OUT") :
          x \in {y \in Addresses(f, {v}) : y[2] < c}}

(* connectActualInTreeWithAddrVars, connectActualOutTreeWithAddrVars: what is
   laid out before the call, and after it. *)
connectActualTrees(f, c, v) ==
  {Edge(Inst(f, c), ActualIn(f, c, v, << >>), "PARAMETER_IN"),
   Edge(Inst(f, c), ActualOut(f, c, v, << >>), "PARAMETER_OUT")}
  \cup {Edge(Inst(f, x[2]), ActualIn(f, c, v, x[1]), "PARAMETER_IN") :
          x \in {y \in Addresses(f, {v}) : y[2] < c}}
  \cup {Edge(ActualOut(f, c, v, x[1]), Inst(f, x[2]), "PARAMETER_OUT") :
          x \in {y \in Addresses(f, {v}) : y[2] > c}}

(* buildActualTreeForArgs stops at the first parameter without a tree. *)
HasActualTree(f, c, v) ==
  LET call == Insts(f)[c] IN \E k \in DOMAIN call.args : call.args[k] = v /\ Usable(call.callee, k)
Complete(f, c) == \A v \in Range(Insts(f)[c].args) : HasActualTree(f, c, v)
(* connectInterprocDependencies returns at the first call that has an argument
   without a tree, with the arguments before it connected. *)
Connected(f) == {c \in Calls(f) : \A d \in Calls(f) : d =< c => Complete(f, d)}
TreeIsNull(f, c) == \E k \in DOMAIN Insts(f)[c].args : ~Params(Insts(f)[c].callee)[k]
(* The calls whose arguments are connected, and those also connected with the
   callee. *)
ActualEdges(f) ==
  LET Tried    == {c \in Calls(f) : \A d \in Calls(f) : d < c => Complete(f, d)}
      Laid(c)  == {k \in DOMAIN Insts(f)[c].args :
                     \A j \in 1..k : HasActualTree(f, c, Insts(f)[c].args[j])}
  IN UNION {UNION {connectActualTrees(f, c, Insts(f)[c].args[k]) : k \in Laid(c)} : c \in Tried}
connectCallerAndCallee(f, c) ==
  LET call == Insts(f)[c]
  IN {Edge(Inst(f, c), Entry(call.callee), "CALL")}
     \cup UNION {connectInTrees(f, c, call.args[k], call.callee, k)
                 \cup connectOutTrees(f, c, call.args[k], call.callee, k) : k \in DOMAIN call.args}
InterEdges(f) == ActualEdges(f) \cup UNION {connectCallerAndCallee(f, c) : c \in Connected(f)}
(* A value passed twice has the tree of its first place, and the second may be
   a parameter without one: connectCallerAndCallee takes its size. *)
connectInterprocDependencies ==
  /\ waiting # << >> /\ stage = "inter"
  /\ IF \E c \in Connected(F) : TreeIsNull(F, c)
     THEN stage' = "crashed" /\ UNCHANGED edges
     ELSE stage' = "formal" /\ edges' = edges \cup InterEdges(F)
  /\ UNCHANGED <<prog, start, waiting, written, unseen, accTags>>

(* A faulty variant: the roots only. *)
MatchedRoot(p) == {<< >>}
(* connectTreeNode goes down as long as the numbers of children agree. *)
Matched(p) ==
  {s \in Shape : /\ p \o s \in Shape
                 /\ \A n \in 0..(Len(s) - 1) : numOfChild(p \o SubSeq(s, 1, n)) = numOfChild(SubSeq(s, 1, n))}
(* connectFormalInTreeWithActualTree: a parameter's tree with those of the
   calls its address variables are passed to. *)
PassEdges(f, k, c) ==
  LET Passed == {x \in FormalAddresses(f, k) : x[2] \in Range(Insts(f)[c].args) /\ HasActualTree(f, c, x[2])}
  IN UNION {{Edge(FormalIn(f, k, x[1] \o s), ActualIn(f, c, x[2], s), "PARAMETER_IN") : s \in Matched(x[1])} :
            x \in Passed}
FormalEdges(f) == UNION {UNION {PassEdges(f, k, c) : c \in Calls(f)} : k \in UsableParams(f)}
connectFormalInTreeWithActualTree ==
  /\ waiting # << >> /\ stage = "formal"
  /\ edges' = edges \cup FormalEdges(F)
  /\ waiting' = Tail(waiting) /\ stage' = "intra"
  /\ UNCHANGED <<prog, start, written, unseen, accTags>>

-----------------------------------------------------------------------------
(* Nodes reached by edges of the types: findNodesReachedByEdges. *)
ReachedBy(E, n, type) ==
  LET typed == {e \in E : e.type = type}
      step(seen) == seen \cup {e.dst : e \in {x \in typed : x.src \in seen}}
      reached[seen \in SUBSET ({n} \cup {e.dst : e \in typed})] ==
        IF step(seen) = seen THEN seen ELSE reached[step(seen)]
  IN reached[{n}]
Reached(n, type) == ReachedBy(edges, n, type)

SameDomain(f, g) == (f \in prog.driver) = (g \in prog.driver)
(* computeDataAccessForTreeNode goes down every tree, and connects the nodes
   below with their address variables again: for the trees that the loops above
   did not come to, it is the first time. *)
ReconnectedEdges(f) ==
  UNION {{Edge(FormalIn(f, k, x[1]), Inst(f, x[2]), "PARAMETER_IN") :
            x \in {y \in FormalAddresses(f, k) : y[1] # << >>}} : k \in TreeParams(f)}
(* The accesses by the node's own address variables, and by those reached in
   functions on the same side. *)
TagsOf(E, f, k, p) ==
  (UNION {computeDataAccessTagsForVal(f, v) : v \in AddrVars(f, Users(f, k, "param"))[p]})
  \cup (UNION {computeDataAccessTagsForVal(n.at[1], n.at[2]) :
                n \in {x \in ReachedBy(E, FormalIn(f, k, p), "PARAMETER_IN") :
                         x.kind = "inst" /\ SameDomain(f, x.at[1])}})
computeDataAccessForFuncArgs(f) ==
  /\ waiting = << >> /\ f \in unseen
  /\ edges' = edges \cup ReconnectedEdges(f)
  /\ accTags' = accTags \cup
       UNION {UNION {{[node |-> FormalIn(f, k, p), tag |-> t] : t \in TagsOf(edges', f, k, p)} : p \in Shape} :
              k \in TreeParams(f)}
  /\ unseen' = unseen \ {f}
  /\ UNCHANGED <<prog, start, waiting, stage, written>>

Next ==
  \/ connectIntraprocDependencies \/ connectInterprocDependencies
  \/ connectFormalInTreeWithActualTree
  \/ \E f \in FunctionName : computeDataAccessForFuncArgs(f)
Done == waiting = << >> /\ unseen = {}
Resting == (Done \/ stage = "crashed") /\ UNCHANGED vars
Spec == Init /\ [][Next \/ Resting]_vars

-----------------------------------------------------------------------------
TypeOK ==
  /\ prog \in Programs /\ start \in [Formals -> StartSize]
  /\ Range(waiting) \subseteq FunctionName /\ stage \in {"intra", "inter", "formal", "crashed"}
  /\ \A e \in edges : e.type \in {"PARAMETER_IN", "PARAMETER_OUT", "CALL"}
  /\ \A n \in written : n.kind = "formal_out" /\ n.path \in Shape
  /\ unseen \subseteq FunctionName
  /\ \A a \in accTags : a.node.kind = "formal_in" /\ a.tag \in {"DATA_READ", "DATA_WRITE"}

(* What the program does with a field of a parameter.  A parameter is passed on
   by a call whose trees are connected, to a tree that started empty; behind a
   parameter without a tree, only the fields the function has addressed. *)
PassedTo(x, i) ==
  {y \in Formals : \E c \in Connected(x[1]) :
     LET call == Insts(x[1])[c]
     IN /\ call.callee = y[1] /\ y[2] \in DOMAIN call.args /\ start[y] = 0
        /\ call.args[y[2]] \in Users(x[1], x[2], "param")
        /\ \/ Usable(x[1], x[2])
           \/ \E u \in Users(x[1], call.args[y[2]], "gep") : Insts(x[1])[u].field = i /\ u < c}
Holders(x, i) ==
  {y \in Formals : \A S \in SUBSET Formals :
     x \in S /\ (\A z \in S : PassedTo(z, i) \subseteq S) => y \in S}
FieldAddresses(g, k, i) ==
  UNION {{u \in Users(g, v, "gep") : Insts(g)[u].field = i} : v \in Users(g, k, "param")}
Uses(g, k, i) == UNION {computeDataAccessTagsForVal(g, u) : u \in FieldAddresses(g, k, i)}

(* A field of a parameter is tagged with the accesses of the function and of
   those it passes the parameter on to, however deep, on its side: no more, and
   no less. *)
TagsExact ==
  Done => \A x \in Formals : Params(x[1])[x[2]] => \A i \in Field :
    {t \in {"DATA_READ", "DATA_WRITE"} : [node |-> FormalIn(x[1], x[2], <<1, i>>), tag |-> t] \in accTags}
    = UNION {Uses(y[1], y[2], i) : y \in {z \in Holders(x, i) : SameDomain(x[1], z[1])}}

(* A field a callee writes through its parameter leads to the addresses of the
   field the caller computes after the call. *)
ComesBack(f, c) ==
  LET call == Insts(f)[c]
  IN \A k \in DOMAIN call.args : \A i \in Field :
       \A w \in {u \in FieldAddresses(call.callee, k, i) : hasWriteAccess(call.callee, u)} :
         {Inst(f, u) : u \in {x \in Users(f, call.args[k], "gep") : Insts(f)[x].field = i /\ x > c}}
         \subseteq Reached(Inst(call.callee, w), "PARAMETER_OUT")
Position(f) == CHOOSE n \in DOMAIN prog.order : prog.order[n] = f
(* It does where the callee precedes its caller in the module. *)
CalleesBeforeComeBack ==
  Done => \A f \in FunctionName : \A c \in Connected(f) :
            Position(Insts(f)[c].callee) =< Position(f) => ComesBack(f, c)
(* "connect actual in -> formal in, formal out -> actual out". *)
CalleesComeBack ==
  Done => \A f \in FunctionName : \A c \in Connected(f) : ComesBack(f, c)
=============================================================================
