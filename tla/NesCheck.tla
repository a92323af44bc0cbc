------------------------------ MODULE NesCheck ------------------------------
(***************************************************************************)
(* The CCured pass of CCured/NesCheck.cpp: runOnModule registers the       *)
(* globals, rewrites function signatures, analyses every instruction once  *)
(* in layout order, then visits each global whose class changed and        *)
(* re-analyses instructions that may alias its uses, and at last removes   *)
(* the functions nobody calls any more.                                    *)
(*                                                                         *)
(* The analysed program is an input, chosen in Init.  Of its types and     *)
(* names an instruction keeps what the pass branches on.                   *)
(***************************************************************************)
EXTENDS AnalysisState, Sequences, FiniteSets, FiniteSetsExt

CONSTANTS
  Global,         \* GlobalVariables
  Local,          \* results of instructions and pointer parameters
  Konst,          \* constant expressions and addresses of functions
  Scalar,         \* values that are not pointers
  NoValue,        \* stands for "no such value" and "no such function"
  OrigRet,        \* the ExtractValue that replaces a rewritten call's result
  KonstBase,      \* the global a constant GEP expression is on, or NoValue
  External,       \* callees without a body, and calls through a pointer
  Modules         \* the analysed programs

(* pointer: the allocated, returned or element type is a pointer; size: what
   getSizeForValue finds (for a GEP, whether its offset is a constant); far:
   the pointer operand is an instruction of another basic block; zero: all
   indices are zero; unsafe: the cast changes the number of indirections or
   goes between integer and other types; bit: it is a BitCastInst. *)
Instruction ==
       [op: {"alloca"}, dst: Local, pointer: BOOLEAN, size: Size]
  \cup [op: {"malloc"}, dst: Local, size: Size]
  \cup [op: {"free"},   val: Value]
  \cup [op: {"call"},   dst: Local, callee: Fn \cup External, pointer: BOOLEAN,
                        args: Seq(Value \cup Scalar), size: Size]
  \cup [op: {"ret"},    val: Value \cup Scalar]
  \cup [op: {"store"},  val: Value \cup Scalar, ptr: Value, far: BOOLEAN]
  \cup [op: {"load"},   dst: Local \cup Scalar, ptr: Value]
  \cup [op: {"gep"},    dst: Local, ptr: Value, zero: BOOLEAN,
                        pointer: BOOLEAN, size: Size]
  \cup [op: {"cast"},   dst: Local, val: Value, unsafe: BOOLEAN,
                        bit: BOOLEAN, size: Size]

(* code: the body of each function in layout order; params: its pointer
   parameters; returnsPointer: the functions that return a pointer; alias:
   the pairs of instructions of a function SVF does not answer NoAlias for;
   addressTaken: the functions used other than by a call; whitelisted and
   uninstrumented: the functions isWhitelisted accepts, and the more that
   isWhitelistedForInstrumentation does. *)
Module ==
  [ code           : [Fn -> Seq(Instruction)],
    params         : [Fn -> SUBSET Local],
    returnsPointer : SUBSET Fn,
    alias          : [Fn -> SUBSET (Nat \X Nat)],
    addressTaken   : SUBSET Fn,
    whitelisted    : SUBSET Fn,
    uninstrumented : SUBSET Fn ]

(* The call or ExtractValue that takes the place of a rewritten call is created
   by the rewriting: no instruction of the module has it for its result. *)
Results == {"alloca", "malloc", "call", "load", "gep", "cast"}
ReplacementsAreNew(m) ==
  \A f, g \in Fn : \A i \in DOMAIN m.code[f], j \in DOMAIN m.code[g] :
    m.code[f][i].op = "call" /\ m.code[g][j].op \in Results
      => m.code[g][j].dst # OrigRet[m.code[f][i].dst]

ASSUME ModulesAssumption ==
  Modules \subseteq {m \in Module : /\ m.whitelisted \subseteq m.uninstrumented
                                   /\ ReplacementsAreNew(m)}
ASSUME ValueAssumption ==
  /\ Global \cup Local \cup Konst \cup {Null} = Value
  /\ OrigRet \in [Local -> Local]
  /\ KonstBase \in [Konst -> Global \cup {NoValue}]
  /\ Global \cap (Local \cup Konst \cup {Null}) = {}
  /\ Local \cap (Konst \cup {Null}) = {}
  /\ NoValue \notin Value \cup Fn
  /\ Scalar \cap Value = {}

VARIABLES
  mod,        \* the analysed program
  phase,      \* how far runOnModule has come
  Variables,  \* TheState.Variables
  pending,    \* functions the current loop of runOnModule has left
  visiting,   \* the global the propagation is at, or NoValue
  visited,    \* globals the propagation iterator has passed
  at,         \* loop indices: function, use (instruction, operand), instruction
  FunctionsToRemove,               \* functions whose body has moved
  FunctionsAddedWithNewReturnType,
  erased,     \* functions erased from the module
  replaced,   \* calls rewriteCallSite has erased, by the name of their result
  wrapped,    \* returns that return the pointer together with its size
  FunctionCallSitesRewritten       \* the statistics counter

loopVars    == <<pending, visiting, visited, at>>
rewriteVars == <<FunctionsToRemove, FunctionsAddedWithNewReturnType, erased>>
programVars == <<replaced, wrapped, FunctionCallSitesRewritten>>
vars == <<mod, phase, Variables, loopVars, rewriteVars, programVars>>

Phase == {"start", "rewrite", "analyze", "propagate", "remove", "done", "crashed"}
Nowhere == [f |-> NoValue, i |-> 0, u |-> 0, j |-> 0]

Init ==
  /\ mod \in Modules
  /\ phase = "start"
  /\ Variables = [x \in {} |-> NewInfo]
  /\ pending = {} /\ visiting = NoValue /\ visited = {} /\ at = Nowhere
  /\ FunctionsToRemove = {} /\ FunctionsAddedWithNewReturnType = {}
  /\ erased = {} /\ replaced = {} /\ wrapped = {}
  /\ FunctionCallSitesRewritten = 0

-----------------------------------------------------------------------------
(* What the pass reads off the program. *)

Body(f) == mod.code[f]
Positions == UNION {{f} \X DOMAIN Body(f) : f \in Fn}
At(p) == Body(p[1])[p[2]]

(* replaceAllUsesWith has put the ExtractValue in the place of the call. *)
Now(v) == IF v \in replaced THEN OrigRet[v] ELSE v

(* The operands of the instruction at position p; a rewritten return has the
   aggregate for operand, and none of these values. *)
Operands(p) ==
  LET I == At(p) IN
  CASE I.op \in {"alloca", "malloc"} -> << >>
    [] I.op \in {"free", "cast"}     -> <<Now(I.val)>>
    [] I.op = "ret"                  -> IF p \in wrapped THEN << >> ELSE <<Now(I.val)>>
    [] I.op \in {"load", "gep"}      -> <<Now(I.ptr)>>
    [] I.op = "store"                -> <<Now(I.val), Now(I.ptr)>>
    [] I.op = "call"                 -> [k \in DOMAIN I.args |-> Now(I.args[k])]

(* The instructions that define v, if they have one of the opcodes ops. *)
DefinedBy(v, ops) ==
  {I \in {At(p) : p \in Positions} : I.op \in ops /\ I.dst = v /\ v \notin replaced}
IsA(v, ops) == DefinedBy(v, ops) # {}

(* v is a GEP, instruction or constant expression, on the global g. *)
IsGEPOn(v, g) == \/ \E I \in DefinedBy(v, {"gep"}) : Now(I.ptr) = g
                 \/ v \in Konst /\ KonstBase[v] = g

Mentioned(p) == {g \in Global : \E k \in DOMAIN Operands(p) :
                    Operands(p)[k] = g \/ IsGEPOn(Operands(p)[k], g)}

(* The operand a load or a (bit)cast takes its pointer from. *)
Under(v, castOk) ==
  {Now(I.ptr) : I \in DefinedBy(v, {"load"})} \cup
  {Now(I.val) : I \in {C \in DefinedBy(v, {"cast"}) : castOk \/ C.bit}}

(* v and what is found by going back through loads and casts from it. *)
Behind(v, castOk) ==
  LET Back(n, near) == UNION {{x} \cup Under(x, castOk) : x \in near}
  IN  FoldSet(Back, {v}, 1..Cardinality(Value)) \cap Value

-----------------------------------------------------------------------------
(* processInstruction: one action per kind of instruction.  All start from
   Seen, the map in which the globals the operands name depend on f. *)

(* A faulty variant: it overlooks the globals a GEP operand is on. *)
SeenDirectly(f, i) ==
  LET ops == Operands(<<f, i>>)
  IN  AddDependentFunction(Variables, {ops[k] : k \in DOMAIN ops} \cap Global, f)

Seen(f, i) == AddDependentFunction(Variables, Mentioned(<<f, i>>), f)
Crash == phase' = "crashed"

Alloca(f, i) ==
  LET I == Body(f)[i] IN
  /\ I.op = "alloca"
  /\ Variables' = IF I.pointer THEN RegisterVariable(Seen(f, i), I.dst)
                  ELSE SetSizeForPointerVariable(Seen(f, i), I.dst, I.size)
  /\ UNCHANGED <<phase, programVars>>

Malloc(f, i) ==
  LET I == Body(f)[i] IN
  /\ I.op = "malloc"
  /\ Variables' = SetSizeForPointerVariable(Seen(f, i), I.dst, I.size)
  /\ UNCHANGED <<phase, programVars>>

Free(f, i) ==
  LET I == Body(f)[i] IN
  /\ I.op = "free"
  /\ Variables' = ClearSizes(Seen(f, i), Behind(Now(I.val), FALSE))
  /\ UNCHANGED <<phase, programVars>>

(* rewriteCallSite gives up when an argument has no entry, a non-pointer
   argument included; the counter has been incremented by then.  A rewritten
   call is erased; the loop over instructions that re-analyses it in the
   propagation goes on from the erased instruction and faults. *)
Call(f, i) ==
  LET I == Body(f)[i]
      m == IF I.pointer THEN SetSizeForPointerVariable(Seen(f, i), I.dst, I.size)
           ELSE Seen(f, i)
      rewrites == I.callee \in FunctionsToRemove
      succeeds == rewrites /\ \A k \in DOMAIN I.args : HasInfo(m, Now(I.args[k]))
  IN
  /\ I.op = "call"
  /\ FunctionCallSitesRewritten' = FunctionCallSitesRewritten + (IF rewrites THEN 1 ELSE 0)
  /\ replaced' = IF succeeds THEN replaced \cup {I.dst} ELSE replaced
  /\ Variables' = IF succeeds /\ I.pointer
                  THEN SetSizeForPointerVariable(m, OrigRet[I.dst], "runtime")
                  ELSE m
  /\ IF succeeds /\ phase = "propagate" THEN Crash ELSE UNCHANGED phase
  /\ UNCHANGED wrapped

(* A return is left as it is when nothing is known of the pointer. *)
Ret(f, i) ==
  LET I == Body(f)[i] IN
  /\ I.op = "ret"
  /\ Variables' = Seen(f, i)
  /\ wrapped' =
       IF /\ f \in FunctionsAddedWithNewReturnType
          /\ \E v \in Behind(Now(I.val), TRUE) : HasInfo(Seen(f, i), v)
       THEN wrapped \cup {<<f, i>>} ELSE wrapped
  /\ UNCHANGED <<phase, replaced, FunctionCallSitesRewritten>>

(* A constant without an entry gets one. *)
WithKonst(m, v) ==
  IF v \in Konst /\ ~HasInfo(m, v) THEN SetSizeForPointerVariable(m, v, "const") ELSE m

MetadataSet(m, f, v) ==
  IF f \in mod.uninstrumented THEN m ELSE SetHasMetadataTableEntry(m, v)

(* A store of a pointer through an instruction of another basic block only
   gives that instruction a size variable. *)
Store(f, i) ==
  LET I   == Body(f)[i]
      val == Now(I.val)
      ptr == Now(I.ptr)
      m   == WithKonst(Seen(f, i), val)
      classified == SetSizeForPointerVariable(
                      ClassifyPointerVariable(m, ptr, ClassOf(m, val)),
                      ptr, SizeOf(m, val))
  IN
  /\ I.op = "store"
  /\ Variables' =
       IF val \notin Value THEN Seen(f, i)
       ELSE IF I.far THEN SetExplicitSizeVariableForPointerVariable(m, ptr)
       ELSE IF ~HasInfo(m, val) THEN m
       ELSE IF IsA(ptr, {"alloca"}) THEN classified
       ELSE MetadataSet(classified, f, ptr)
  /\ UNCHANGED <<phase, programVars>>

(* The size variable of a pointer is read when it has not been read yet or
   was read in another basic block.  For a parameter the "variable" is the size
   argument itself, an integer, and reading through it is a crash; so may be
   what the uninitialised entry of null leads to. *)
Load(f, i) ==
  LET I   == Body(f)[i]
      ptr == Now(I.ptr)
      m   == WithKonst(Seen(f, i), ptr)
      read == SetInstantiatedExplicitSizeVariable(
                SetSizeForPointerVariable(m, ptr, "runtime"), ptr, TRUE)
      From(n) == SetSizeForPointerVariable(
                   ClassifyPointerVariable(n, I.dst, ClassOf(n, ptr)),
                   I.dst, SizeOf(n, ptr))
      isParam == \E g \in Fn : ptr \in mod.params[g]
  IN
  /\ I.op = "load"
  /\ UNCHANGED programVars
  /\ \/ /\ I.dst \notin Local
        /\ Variables' = Seen(f, i) /\ UNCHANGED phase
     \/ /\ I.dst \in Local /\ ~HasInfo(m, ptr)
        /\ Variables' = m /\ UNCHANGED phase
     \/ /\ I.dst \in Local /\ ptr = Null
        /\ \/ Variables' = From(m) /\ UNCHANGED phase
           \/ Variables' = m /\ Crash
     \/ /\ I.dst \in Local /\ ptr \in DOMAIN m \ {Null}
        /\ \E elsewhere \in BOOLEAN :
             /\ elsewhere => m[ptr].size = "runtime"
             /\ IF /\ m[ptr].hasExplicitSizeVariable
                   /\ ~m[ptr].instantiatedExplicitSizeVariable \/ elsewhere
                THEN IF isParam THEN Variables' = m /\ Crash
                     ELSE Variables' = From(read) /\ UNCHANGED phase
                ELSE Variables' = From(m) /\ UNCHANGED phase

(* The size behind an offset: a constant when both are. *)
SubSize(size, offset) ==
  IF size \in {"zero", "one", "const"} /\ offset = "const" THEN "const" ELSE "runtime"

Gep(f, i) ==
  LET I   == Body(f)[i]
      ptr == Now(I.ptr)
      m   == RegisterVariable(
               IF I.zero THEN Seen(f, i) ELSE ClassifyPointerVariable(Seen(f, i), ptr, SEQ),
               I.dst)
      looked == SetSizeForPointerVariable(
                  IF HasInfo(m, ptr) THEN MetadataSet(m, f, ptr) ELSE m,
                  I.dst, IF f \in mod.uninstrumented THEN "const" ELSE "runtime")
  IN
  /\ I.op = "gep"
  /\ Variables' =
       IF I.pointer THEN MetadataSet(looked, f, I.dst)
       ELSE IF ~HasInfo(m, ptr) THEN m
       ELSE SetSizeForPointerVariable(m, I.dst,
              IF I.zero THEN SizeOf(m, ptr) ELSE SubSize(SizeOf(m, ptr), I.size))
  /\ UNCHANGED <<phase, programVars>>

(* An unsafe cast makes the loaded or returned pointer dynamic.  The size of
   a bitcast call result is read without asking whether there is one. *)
Cast(f, i) ==
  LET I   == Body(f)[i]
      val == Now(I.val)
      s   == Seen(f, i)
      called == IsA(val, {"call", "malloc"})
      sized  == IF I.bit /\ SizeOf(s, val) = "one"
                THEN SetSizeForPointerVariable(s, val, I.size) ELSE s
      m == IF IsA(val, {"load"}) THEN ClassifyPointerVariable(s, val, DYN)
           ELSE IF called
           THEN ClassifyPointerVariable(ClassifyPointerVariable(sized, val, DYN), I.dst, DYN)
           ELSE s
  IN
  /\ I.op = "cast"
  /\ UNCHANGED programVars
  /\ IF ~I.unsafe THEN Variables' = s /\ UNCHANGED phase
     ELSE IF called /\ I.bit /\ ~HasInfo(s, val) THEN Variables' = s /\ Crash
     ELSE /\ Variables' = IF HasInfo(s, val)
                          THEN SetSizeForPointerVariable(m, I.dst, SizeOf(m, val)) ELSE m
          /\ UNCHANGED phase

processInstruction(f, i) ==
  \/ Alloca(f, i) \/ Malloc(f, i) \/ Free(f, i) \/ Call(f, i) \/ Ret(f, i)
  \/ Store(f, i) \/ Load(f, i) \/ Gep(f, i) \/ Cast(f, i)
-----------------------------------------------------------------------------
(* runOnModule. *)

RegisterGlobals ==
  /\ phase = "start"
  /\ Variables' = [g \in Global |-> [NewInfo EXCEPT !.isGlobal = TRUE, !.size = "const"]]
  /\ phase' = "rewrite"
  /\ pending' = Fn
  /\ UNCHANGED <<mod, visiting, visited, at, rewriteVars, programVars>>

(* A faulty variant: the whitelist is forgotten when a size is marked read. *)
RewriteMarkingAll(f) ==
  /\ phase = "rewrite" /\ f \in pending
  /\ pending' = pending \ {f}
  /\ Variables' = [v \in DOMAIN Variables \cup mod.params[f] |->
                     IF v \in mod.params[f]
                     THEN [Info(Variables, v) EXCEPT !.instantiatedExplicitSizeVariable = TRUE]
                     ELSE Variables[v]]
  /\ UNCHANGED <<mod, phase, visiting, visited, at, rewriteVars, programVars>>

(* Every pointer parameter gets an entry: of a whitelisted function with a
   large constant size, of any other with the size parameter added for it. *)
rewriteFunctionSignature(f) ==
  LET whitelisted == f \in mod.whitelisted
      changes == ~whitelisted /\ (mod.params[f] # {} \/ f \in mod.returnsPointer)
      Param(v) ==
        [Info(Variables, v) EXCEPT
           !.size = IF whitelisted THEN "const" ELSE "argument",
           !.hasExplicitSizeVariable = @ \/ ~whitelisted,
           !.instantiatedExplicitSizeVariable = @ \/ ~whitelisted]
  IN
  /\ phase = "rewrite" /\ f \in pending
  /\ pending' = pending \ {f}
  /\ Variables' = [v \in DOMAIN Variables \cup mod.params[f] |->
                     IF v \in mod.params[f] THEN Param(v) ELSE Variables[v]]
  /\ FunctionsToRemove' = IF changes THEN FunctionsToRemove \cup {f} ELSE FunctionsToRemove
  /\ FunctionsAddedWithNewReturnType' =
       IF changes /\ f \in mod.returnsPointer
       THEN FunctionsAddedWithNewReturnType \cup {f} ELSE FunctionsAddedWithNewReturnType
  /\ UNCHANGED <<mod, phase, visiting, visited, at, erased, programVars>>

BeginAnalysis ==
  /\ phase = "rewrite" /\ pending = {}
  /\ phase' = "analyze" /\ pending' = Fn
  /\ UNCHANGED <<mod, Variables, visiting, visited, at, rewriteVars, programVars>>

(* The order of the functions is that of the module, which may be any. *)
EnterAnalysis(f) ==
  /\ phase = "analyze" /\ at = Nowhere /\ f \in pending
  /\ pending' = pending \ {f}
  /\ at' = [Nowhere EXCEPT !.f = f]
  /\ UNCHANGED <<mod, phase, Variables, visiting, visited, rewriteVars, programVars>>

analyzeFunction ==
  /\ phase = "analyze" /\ at.f \in Fn /\ at.j < Len(Body(at.f))
  /\ at' = [at EXCEPT !.j = @ + 1]
  /\ processInstruction(at.f, at.j + 1)
  /\ UNCHANGED <<mod, pending, visiting, visited, rewriteVars>>

LeaveAnalysis ==
  /\ phase = "analyze" /\ at.f \in Fn /\ at.j = Len(Body(at.f))
  /\ at' = Nowhere
  /\ UNCHANGED <<mod, phase, Variables, pending, visiting, visited, rewriteVars, programVars>>

BeginPropagation ==
  /\ phase = "analyze" /\ at = Nowhere /\ pending = {}
  /\ phase' = "propagate"
  /\ UNCHANGED <<mod, Variables, loopVars, rewriteVars, programVars>>

(* The iterator over TheState.Variables, which are sorted by address, comes to
   the global g: its functions are scanned if its class changed. *)
VisitGlobal(g) ==
  /\ phase = "propagate" /\ visiting = NoValue /\ g \in Global \ visited
  /\ IF Variables[g].didClassificationChange
     THEN /\ pending' = Variables[g].dependentFunctions
          /\ Variables' = [Variables EXCEPT ![g].didClassificationChange = FALSE]
          /\ visiting' = g
          /\ UNCHANGED visited
     ELSE /\ visited' = visited \cup {g}
          /\ UNCHANGED <<pending, Variables, visiting>>
  /\ UNCHANGED <<mod, phase, at, rewriteVars, programVars>>

(* A rewritten call is no instruction of the program SVF has seen. *)
HasValueNode(f, i) == ~(Body(f)[i].op = "call" /\ Body(f)[i].dst \in replaced)

(* <<i, u>>: operand u of instruction i is the global being visited. *)
UsesIn(p) == {k \in DOMAIN Operands(p) : Operands(p)[k] = visiting}
Uses == UNION {{i} \X UsesIn(<<at.f, i>>) : i \in DOMAIN Body(at.f)}
Before(p, q) == p[1] < q[1] \/ (p[1] = q[1] /\ p[2] < q[2])

(* The instructions still to be re-analysed on account of the current use;
   the instruction the use belongs to is never among them. *)
Aliases ==
  IF at.i = 0 THEN {}
  ELSE {j \in DOMAIN Body(at.f) : /\ at.j < j /\ j # at.i
                                  /\ HasValueNode(at.f, at.i) /\ HasValueNode(at.f, j)
                                  /\ <<at.i, j>> \in mod.alias[at.f]}
LaterUses == {p \in Uses : Before(<<at.i, at.u>>, p)}

(* A faulty variant: the function just taken stays on the list. *)
EnterFunctionAgain(f) ==
  /\ phase = "propagate" /\ visiting # NoValue /\ at = Nowhere /\ f \in pending
  /\ at' = [Nowhere EXCEPT !.f = f]
  /\ UNCHANGED <<mod, phase, Variables, pending, visiting, visited, rewriteVars, programVars>>

(* functionsToAnalyze is sorted by name, and the names may be any. *)
EnterFunction(f) ==
  /\ phase = "propagate" /\ visiting # NoValue /\ at = Nowhere /\ f \in pending
  /\ pending' = pending \ {f}
  /\ at' = [Nowhere EXCEPT !.f = f]
  /\ UNCHANGED <<mod, phase, Variables, visiting, visited, rewriteVars, programVars>>

NextUse ==
  /\ phase = "propagate" /\ at.f \in Fn /\ Aliases = {}
  /\ \E p \in LaterUses :
       /\ \A q \in LaterUses : p = q \/ Before(p, q)
       /\ at' = [at EXCEPT !.i = p[1], !.u = p[2], !.j = 0]
  /\ UNCHANGED <<mod, phase, Variables, pending, visiting, visited, rewriteVars, programVars>>

Reanalyze ==
  /\ phase = "propagate" /\ at.f \in Fn
  /\ \E j \in Aliases :
       /\ \A k \in Aliases : j =< k
       /\ at' = [at EXCEPT !.j = j]
       /\ processInstruction(at.f, j)
  /\ UNCHANGED <<mod, pending, visiting, visited, rewriteVars>>

LeaveFunction ==
  /\ phase = "propagate" /\ at.f \in Fn /\ Aliases = {} /\ LaterUses = {}
  /\ at' = Nowhere
  /\ UNCHANGED <<mod, phase, Variables, pending, visiting, visited, rewriteVars, programVars>>

LeaveGlobal ==
  /\ phase = "propagate" /\ visiting # NoValue /\ at = Nowhere /\ pending = {}
  /\ visited' = visited \cup {visiting}
  /\ visiting' = NoValue
  /\ UNCHANGED <<mod, phase, Variables, pending, at, rewriteVars, programVars>>

BeginRemoval ==
  /\ phase = "propagate" /\ visited = Global
  /\ phase' = "remove" /\ pending' = FunctionsToRemove
  /\ UNCHANGED <<mod, Variables, visiting, visited, at, rewriteVars, programVars>>

(* A call that could not be rewritten still calls the old function. *)
Called(f) == \/ f \in mod.addressTaken
             \/ \E p \in Positions : /\ At(p).op = "call" /\ At(p).callee = f
                                     /\ At(p).dst \notin replaced

RemoveOldFunction(f) ==
  /\ phase = "remove" /\ f \in pending
  /\ pending' = pending \ {f}
  /\ erased' = IF Called(f) THEN erased ELSE erased \cup {f}
  /\ UNCHANGED <<mod, phase, Variables, visiting, visited, at, FunctionsToRemove,
                 FunctionsAddedWithNewReturnType, programVars>>

Finish ==
  /\ phase = "remove" /\ pending = {}
  /\ phase' = "done"
  /\ UNCHANGED <<mod, Variables, loopVars, rewriteVars, programVars>>

Step ==
  \/ RegisterGlobals \/ BeginAnalysis \/ BeginPropagation \/ BeginRemoval \/ Finish
  \/ \E f \in Fn : \/ rewriteFunctionSignature(f) \/ EnterAnalysis(f)
                   \/ EnterFunction(f) \/ RemoveOldFunction(f)
  \/ \E g \in Global : VisitGlobal(g)
  \/ analyzeFunction \/ LeaveAnalysis
  \/ NextUse \/ Reanalyze \/ LeaveFunction \/ LeaveGlobal

Terminating == phase \in {"done", "crashed"} /\ UNCHANGED vars

Next == Step \/ Terminating
Spec == Init /\ [][Next]_vars
FairSpec == Spec /\ WF_vars(Step)
-----------------------------------------------------------------------------
(* The rules of the program, for the refinement: v or what may replace it;
   along which edges a class is copied; and where one is demanded. *)

Forms(v) == {v} \cup {OrigRet[w] : w \in {v} \cap Local}
DefinedAs(v, ops) == \E p \in Positions : At(p).op \in ops /\ At(p).dst = v

FlowOf(I) ==
  IF I.op = "store" /\ I.val \in Value /\ ~I.far THEN Forms(I.val) \X Forms(I.ptr)
  ELSE IF I.op = "load" /\ I.dst \in Local THEN Forms(I.ptr) \X {I.dst}
  ELSE {}
Flow == UNION {FlowOf(At(p)) : p \in Positions}

DemandOf(I) ==
  IF I.op = "gep" /\ ~I.zero THEN Forms(I.ptr) \X {SEQ}
  ELSE IF I.op = "cast" /\ I.unsafe
  THEN {v \in Forms(I.val) : DefinedAs(v, {"load", "call", "malloc"})} \X {DYN}
       \cup {v \in {I.dst} : \E w \in Forms(I.val) : DefinedAs(w, {"call", "malloc"})} \X {DYN}
  ELSE {}
Demand == UNION {DemandOf(At(p)) : p \in Positions}

KI == INSTANCE KindInference
        WITH flow <- Flow, demand <- Demand,
             kind <- [v \in Value |-> KindOf(Variables, v)]

(* The pass implements the classification: every class it ever gives to a
   value, in the analysis or in the propagation, is one that a store, a load,
   an indexing or a cast of the program calls for, and no class is lowered. *)
ImplementsKindInference == KI!ClassSpec

-----------------------------------------------------------------------------
TypeOK ==
  /\ mod \in Modules
  /\ phase \in Phase
  /\ IsVariableMap(Variables)
  /\ pending \subseteq IF phase = "remove" THEN FunctionsToRemove ELSE Fn
  /\ visiting \in Global \cup {NoValue}
  /\ visited \subseteq Global
  /\ at \in [f: Fn \cup {NoValue}, i: Nat, u: Nat, j: Nat]
  /\ FunctionsToRemove \subseteq Fn
  /\ FunctionsAddedWithNewReturnType \subseteq FunctionsToRemove
  /\ erased \subseteq FunctionsToRemove
  /\ replaced \subseteq Local
  /\ wrapped \subseteq Fn \X Nat
  /\ FunctionCallSitesRewritten \in Nat

Analyzed == phase \in {"propagate", "remove", "done"}

(* The analysis has passed the instruction at position p. *)
Passed(p) == \/ Analyzed
             \/ /\ phase = "analyze" /\ p[1] \notin pending
                /\ at.f = p[1] => p[2] =< at.j

(* Every global is registered, and the change flag of one the propagation has
   yet to come to says exactly whether its class was raised since: no write
   to the map that raises a class forgets the flag, and none sets it idly. *)
FlagExact ==
  phase # "start" =>
    \A g \in Global :
      /\ g \in DOMAIN Variables /\ Variables[g].isGlobal
      /\ g \notin visited \cup {visiting} =>
           (Variables[g].didClassificationChange <=> Variables[g].classification # SAFE)

(* When the propagation asks which functions depend on a global, every
   function with an instruction that names it, directly or through a GEP, is
   in the list; also while calls are being replaced under it. *)
DependentsComplete ==
  \A p \in Positions : Passed(p) =>
    \A g \in Mentioned(p) : p[1] \in Info(Variables, g).dependentFunctions

(* Every pointer indexed at an offset other than 0 is at least SEQ once its
   function is analysed, and stays so, under the name it then has: what the
   comment on line 690 says. *)
ArithmeticIsSeq ==
  \A p \in Positions :
    Passed(p) /\ At(p).op = "gep" /\ ~At(p).zero => KindOf(Variables, Now(At(p).ptr)) >= SEQ

(* What that takes of the layout of the modules, which the pass takes as it
   comes and the code says nothing of: a pointer that is the result of
   a call is indexed after the call, in the same function. *)
CallsBeforeIndexing(modules) ==
  \A m \in modules : \A f, g \in Fn : \A i \in DOMAIN m.code[f], j \in DOMAIN m.code[g] :
    LET I == m.code[f][i]
        J == m.code[g][j]
    IN  I.op = "call" /\ J.op = "gep" /\ ~J.zero /\ J.ptr = I.dst => f = g /\ i < j

(* A size is only marked as read out of a size variable when there is one,
   and a parameter of a rewritten function never loses its size argument. *)
SizeVariablesKept ==
  /\ \A v \in DOMAIN Variables : Variables[v].instantiatedExplicitSizeVariable
                                   => Variables[v].hasExplicitSizeVariable
  /\ \A f \in FunctionsToRemove : \A v \in mod.params[f] :
       Info(Variables, v).instantiatedExplicitSizeVariable

(* The pass comes to an end on every module: the propagation, although it
   writes the map it iterates over, visits a global at most once. *)
Termination == <>(phase \in {"done", "crashed"})

-----------------------------------------------------------------------------
(* What comments and messages of the code say of it, and it does not do. *)

(* Lines 1276-1278: where an instruction has the changed global for operand,
   "we need to analyze all the alias and propagate the classification inside
   the function".  Once a function has been scanned on account of a global
   (and the scan has not raised the global again), every pointer it
   loads from that global has taken the class of the global over. *)
ScanEnds == phase = "propagate" /\ at.f \in Fn /\ Aliases = {} /\ LaterUses = {}

PropagationReachesLoads ==
  ScanEnds /\ ~Variables[visiting].didClassificationChange =>
    \A i \in DOMAIN Body(at.f) :
      LET I == Body(at.f)[i] IN
      I.op = "load" /\ I.dst \in Local /\ I.ptr = visiting
        => KindOf(Variables, visiting) =< KindOf(Variables, I.dst)

(* Lines 1319-1322: the worklist that would run until no global is marked
   as changed is switched off because "the classification propagation
   algorithm can handle them": no global is left marked. *)
NoGlobalLeftChanged ==
  phase = "done" => \A g \in Global : ~Variables[g].didClassificationChange

(* Line 1041: "if we changed the return type, then we will have to pimp all
   return instructions". *)
AllReturnsRewritten ==
  phase = "done" => \A p \in Positions :
    At(p).op = "ret" /\ p[1] \in FunctionsAddedWithNewReturnType => p \in wrapped
=============================================================================
