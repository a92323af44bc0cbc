-------------------------- MODULE CriticalSections --------------------------
(***************************************************************************)
(* The critical sections and atomic operations of the functions that are   *)
(* called from the boundary, AtomicRegionAnalysis.cpp: which instructions  *)
(* a lock protects, which parameter trees they access, and the tree the    *)
(* stubs of the lock are written for (SyncStub has what they copy).  The   *)
(* program is then run, from a function at the boundary, so that the       *)
(* sections can be compared with the locks held.                           *)
(*                                                                         *)
(* A program is [functions, boundary]; a function [blocks, succ, code] in  *)
(* the order of its layout.  An instruction is [id, op, lock, object,      *)
(* versioned, callee, nodes, alias, counter]: the kind of lock taken or    *)
(* released, which one, and whether the name called carries a version; the *)
(* parameter tree nodes its operand stands for, and whether it may be what *)
(* a boundary pointer points to.                                           *)
(***************************************************************************)
EXTENDS Integers, Sequences, FiniteSets, Functions

CONSTANTS FunctionName, Block, Excluded, LockKind,
          TreeNode,      \* [tree, field]
          sharedField,   \* the nodes whose field is shared
          Programs, NoTree, MaxDepth

Instruction ==
  [id: Nat, op: {"lock", "unlock", "load", "store", "atomic", "call", "br", "ret"},
   lock: LockKind, object: Nat, versioned: BOOLEAN, callee: FunctionName \cup {"none"},
   nodes: SUBSET TreeNode, alias: BOOLEAN, counter: BOOLEAN]

(* Control stays in the function, and a block ends where it branches or returns. *)
WellFormed(f) ==
  /\ f.blocks \in Seq(Block) \ {<< >>}
  /\ \A b \in Range(f.blocks) :
       /\ f.code[b] \in Seq(Instruction) \ {<< >>}
       /\ \A k \in DOMAIN f.code[b] :
            /\ f.code[b][k].op \in {"br", "ret"} <=> k = Len(f.code[b])
            /\ f.code[b][k].op = "call" => f.code[b][k].callee \in FunctionName
       /\ f.succ[b] \in Seq(Block) /\ Range(f.succ[b]) \subseteq Range(f.blocks)

ASSUME FunctionAssumption == IsFiniteSet(FunctionName) /\ IsFiniteSet(TreeNode)
ASSUME ProgramAssumption ==
  \A p \in Programs :
    /\ p.boundary \subseteq FunctionName
    /\ \A f \in FunctionName : WellFormed(p.functions[f])
(* An instruction stands at one place of one function. *)
ASSUME PlaceAssumption ==
  \A p \in Programs : \A f, g \in FunctionName :
    \A j \in DOMAIN p.functions[f].blocks, k \in DOMAIN p.functions[g].blocks :
      \A m \in DOMAIN p.functions[f].code[p.functions[f].blocks[j]],
         n \in DOMAIN p.functions[g].code[p.functions[g].blocks[k]] :
        p.functions[f].code[p.functions[f].blocks[j]][m] =
          p.functions[g].code[p.functions[g].blocks[k]][n] => f = g /\ j = k /\ m = n

VARIABLES
  prog,
  _funcs,            \* the functions still to be looked at
  _critical_sections,          \* the unlock instruction per lock instruction
  unwarned,          \* the lock instructions not yet looked into
  _accessed,         \* nodes accessed in an atomic region
  _sync_data_inst_tree_map,
  _atomic_operations, _processed_func_names, _warning_atomic_op_count,
  phase,
  run                \* activations of the program, the innermost last
vars == <<prog, _funcs, _critical_sections, unwarned, _accessed, _sync_data_inst_tree_map,
          _atomic_operations, _processed_func_names, _warning_atomic_op_count, phase, run>>

Fn(f) == prog.functions[f]
Code(f, b) == Fn(f).code[b]
(* inst_begin(F) to inst_end(F): <<block, instruction>>, block after block. *)
Layout(f) == UNION {{k} \X DOMAIN Code(f, Fn(f).blocks[k]) : k \in DOMAIN Fn(f).blocks}
InstAt(f, p) == Code(f, Fn(f).blocks[p[1]])[p[2]]
Before(p, q) == p[1] < q[1] \/ (p[1] = q[1] /\ p[2] < q[2])
Place(f, i) == CHOOSE p \in Layout(f) : InstAt(f, p) = i
InstsOf(f) == UNION {Range(Code(f, b)) : b \in Range(Fn(f).blocks)}
Insts == UNION {InstsOf(f) : f \in FunctionName}
Home(i) == CHOOSE f \in FunctionName : i \in InstsOf(f)

Callees(f) == {i.callee : i \in {j \in InstsOf(f) : j.op = "call"}}
(* computeBoundaryTransitiveClosure: the searches of the call graph find what
   can be reached from a boundary function that is not excluded. *)
ClosedUnderCalls(S) == \A f \in S : Callees(f) \ Excluded \subseteq S
BoundaryClosure ==
  {f \in FunctionName : \E g \in prog.boundary \ Excluded :
     \A S \in SUBSET FunctionName : g \in S /\ ClosedUnderCalls(S) => f \in S}

-----------------------------------------------------------------------------
isLockInst(i) == i.op = "lock"
(* The name of the unlock function is looked up by that of the lock function
   as it is called: one with a version is not in the map. *)
isUnlockInst(i, lock) == i.op = "unlock" /\ ~lock.versioned /\ i.lock = lock.lock

Unlocks(f, lock) ==
  {p \in Layout(f) : isUnlockInst(InstAt(f, p), lock) /\ ~Before(p, Place(f, lock))}
FirstOf(f, places) == {InstAt(f, p) : p \in {q \in places : ~ \E r \in places : Before(r, q)}}
(* Faulty variants: the last unlock is kept; those laid out before are kept. *)
UnlockLast(f, lock) ==
  {InstAt(f, p) : p \in {q \in Unlocks(f, lock) : ~ \E r \in Unlocks(f, lock) : Before(q, r)}}
UnlockAny(f, lock) == FirstOf(f, {p \in Layout(f) : isUnlockInst(InstAt(f, p), lock)})

(* Every unlock laid out after the lock is inserted for it, but a map keeps the
   first. *)
UnlockOf(f, lock) == FirstOf(f, Unlocks(f, lock))
computeCSInFunc(f) ==
  [l \in {i \in InstsOf(f) : isLockInst(i) /\ UnlockOf(f, i) # {}} |->
     CHOOSE u \in UnlockOf(f, l) : TRUE]

Between(p, q, f) == {r \in Layout(f) : Before(p, r) /\ Before(r, q)}
(* A faulty variant: the instruction in front of the unlock is left out. *)
computeInstsShort(l, u) ==
  LET f == Home(l)
      inside == Between(Place(f, l), Place(f, u), f)
  IN {InstAt(f, p) : p \in {q \in inside : \E r \in inside : Before(q, r)}}
computeInstsInCS(l, u) ==
  LET f == Home(l) IN {InstAt(f, p) : p \in Between(Place(f, l), Place(f, u), f)}

Init ==
  /\ prog \in Programs
  /\ _funcs = BoundaryClosure
  /\ _critical_sections = [l \in {} |-> l] /\ unwarned = {} /\ _accessed = {}
  /\ _sync_data_inst_tree_map = [l \in {} |-> NoTree]
  /\ _atomic_operations = {} /\ _processed_func_names = {} /\ _warning_atomic_op_count = 0
  /\ phase = "sections" /\ run = << >>

(* computeCriticalSections, computeAtomicOperations: functions in any order. *)
computeCriticalSections(f) ==
  /\ phase = "sections" /\ f \in _funcs
  /\ _critical_sections' =
       [l \in DOMAIN _critical_sections \cup DOMAIN computeCSInFunc(f) |->
          IF l \in DOMAIN _critical_sections THEN _critical_sections[l] ELSE computeCSInFunc(f)[l]]
  /\ unwarned' = unwarned \cup DOMAIN computeCSInFunc(f)
  /\ _atomic_operations' = _atomic_operations \cup {i \in InstsOf(f) : i.op = "atomic"}
  /\ _funcs' = _funcs \ {f}
  /\ phase' = IF _funcs' = {} THEN "warnings" ELSE phase
  /\ UNCHANGED <<prog, _accessed, _sync_data_inst_tree_map, _processed_func_names,
                 _warning_atomic_op_count, run>>

Put(m, l, t) == [x \in DOMAIN m \cup {l} |-> IF x = l THEN t ELSE m[x]]
(* computeWarningCS: the nodes of what is accessed in a section and may be a
   boundary object; the tree of the first one, in an order of addresses, is
   the lock's.  A faulty variant before it: only what is stored to. *)
SectionStores(l) ==
  {i \in computeInstsInCS(l, _critical_sections[l]) : i.op = "store" /\ i.alias}
SectionAccesses(l) ==
  {i \in computeInstsInCS(l, _critical_sections[l]) : i.op \in {"load", "store"} /\ i.alias}
computeWarningCS(l) ==
  /\ phase = "warnings" /\ l \in unwarned
  /\ LET nodes == UNION {i.nodes : i \in SectionAccesses(l)}
     IN /\ _accessed' = _accessed \cup nodes
        /\ \/ /\ nodes = {}
              /\ UNCHANGED _sync_data_inst_tree_map
           \/ \E n \in nodes :
                _sync_data_inst_tree_map' = Put(_sync_data_inst_tree_map, l, n.tree)
  /\ unwarned' = unwarned \ {l}
  /\ UNCHANGED <<prog, _funcs, _critical_sections, _atomic_operations,
                 _processed_func_names, _warning_atomic_op_count, phase, run>>

(* computeWarningAtomicOps: one warning per function with an operation on a
   shared field; counters are left out.  A function of a version counts as the
   one it is a version of. *)
sharedOperation(a) == ~a.counter /\ a.nodes \cap sharedField # {}
(* A faulty variant: a warning for every operation. *)
warnAlways(f, a) == sharedOperation(a)
warns(f, a) == sharedOperation(a) /\ f \notin _processed_func_names
computeWarningAtomicOps(a) ==
  /\ phase = "warnings" /\ unwarned = {} /\ a \in _atomic_operations
  /\ LET f == Home(a)
     IN IF warns(f, a)
        THEN /\ _processed_func_names' = _processed_func_names \cup {f}
             /\ _warning_atomic_op_count' = _warning_atomic_op_count + 1
        ELSE UNCHANGED <<_processed_func_names, _warning_atomic_op_count>>
  /\ _atomic_operations' = _atomic_operations \ {a}
  /\ UNCHANGED <<prog, _funcs, _critical_sections, unwarned, _accessed,
                 _sync_data_inst_tree_map, phase, run>>

-----------------------------------------------------------------------------
(* The program runs; an activation knows the lock instructions it executed and
   did not undo. *)
Activation(f) == [fn |-> f, bb |-> Fn(f).blocks[1], pc |-> 1, held |-> {}]
Now   == run[Len(run)]
Ahead == Code(Now.fn, Now.bb)[Now.pc]
WithNow(a) == [run EXCEPT ![Len(run)] = a]
Start(f) ==
  /\ phase = "warnings" /\ unwarned = {} /\ _atomic_operations = {}
  /\ f \in prog.boundary
  /\ phase' = "running" /\ run' = <<Activation(f)>>
  /\ UNCHANGED <<prog, _funcs, _critical_sections, unwarned, _accessed, _sync_data_inst_tree_map,
                 _atomic_operations, _processed_func_names, _warning_atomic_op_count>>
Running == phase = "running" /\ run # << >>
Analysed == <<prog, _funcs, _critical_sections, unwarned, _accessed, _sync_data_inst_tree_map,
              _atomic_operations, _processed_func_names, _warning_atomic_op_count, phase>>
Released(h, u) == {l \in h : l.lock = u.lock /\ l.object = u.object}
Execute ==
  /\ Running /\ Ahead.op \in {"lock", "unlock", "load", "store", "atomic"}
  /\ run' = WithNow([Now EXCEPT !.pc = @ + 1,
       !.held = CASE Ahead.op = "lock"   -> @ \cup {Ahead}
                  [] Ahead.op = "unlock" -> @ \ Released(@, Ahead)
                  [] OTHER -> @])
  /\ UNCHANGED Analysed
Branch(b) ==
  /\ Running /\ Ahead.op = "br" /\ b \in Range(Fn(Now.fn).succ[Now.bb])
  /\ run' = WithNow([Now EXCEPT !.bb = b, !.pc = 1])
  /\ UNCHANGED Analysed
Invoke ==
  /\ Running /\ Ahead.op = "call" /\ Len(run) < MaxDepth
  /\ run' = Append(WithNow([Now EXCEPT !.pc = @ + 1]), Activation(Ahead.callee))
  /\ UNCHANGED Analysed
Return ==
  /\ Running /\ Ahead.op = "ret"
  /\ run' = SubSeq(run, 1, Len(run) - 1)
  /\ UNCHANGED Analysed
Over == phase = "running" /\ (run # << >> => (Ahead.op = "call" /\ Len(run) = MaxDepth))
Resting == Over /\ UNCHANGED vars

Analyse == \E f \in FunctionName : computeCriticalSections(f)
Warn    == (\E l \in unwarned : computeWarningCS(l)) \/ (\E a \in _atomic_operations : computeWarningAtomicOps(a))
Execution == Execute \/ (\E b \in Block : Branch(b)) \/ Invoke \/ Return
Next == Analyse \/ Warn \/ (\E f \in FunctionName : Start(f)) \/ Execution
Spec == Init /\ [][Next \/ Resting]_vars

-----------------------------------------------------------------------------
(* The walk from a lock to its unlock, computeInstsInCS, ends. *)
PairOK(l) ==
  LET f == Home(l)
  IN _critical_sections[l] \in InstsOf(f) /\ Before(Place(f, l), Place(f, _critical_sections[l]))
TypeOK ==
  /\ prog \in Programs /\ _funcs \subseteq BoundaryClosure
  /\ DOMAIN _critical_sections \subseteq Insts /\ \A l \in DOMAIN _critical_sections : PairOK(l)
  /\ unwarned \subseteq DOMAIN _critical_sections
  /\ _accessed \subseteq TreeNode
  /\ DOMAIN _sync_data_inst_tree_map \subseteq DOMAIN _critical_sections
  /\ Range(_sync_data_inst_tree_map) \subseteq {n.tree : n \in TreeNode}
  /\ _processed_func_names \subseteq FunctionName /\ _warning_atomic_op_count \in Nat
  /\ phase \in {"sections", "warnings", "running"}

(* Functions whose layout tells their sections: control goes forward, names
   carry no versions, the locks of a kind do not overlap, and where there are
   branches there is one and every path releases it. *)
BlocksOf(f) == Range(Fn(f).blocks)
Forward(f) ==
  \A k \in DOMAIN Fn(f).blocks : \A b \in Range(Fn(f).succ[Fn(f).blocks[k]]) :
    \E m \in DOMAIN Fn(f).blocks : m > k /\ Fn(f).blocks[m] = b
Straight(f) == Len(Fn(f).blocks) = 1
LockCalls(f, kind) ==
  {p \in Layout(f) : InstAt(f, p).op \in {"lock", "unlock"} /\ InstAt(f, p).lock = kind}
(* The lock taken at p is released at q, the next call of its kind. *)
Pairs(f, p, q) ==
  /\ InstAt(f, p).op = "lock" /\ InstAt(f, q).op = "unlock" /\ Before(p, q)
  /\ LockCalls(f, InstAt(f, p).lock) \cap Between(p, q, f) = {}
Releases(f, p, q, S) ==
  /\ Fn(f).blocks[p[1]] \in S
  /\ \A b \in S \ {Fn(f).blocks[q[1]]} : Fn(f).succ[b] # << >> /\ Range(Fn(f).succ[b]) \subseteq S
Apart(f, kind) ==
  LET calls == LockCalls(f, kind)
  IN /\ \A p \in calls :
          /\ ~InstAt(f, p).versioned
          /\ \A q \in calls : InstAt(f, p).object = InstAt(f, q).object
          /\ \E q \in calls : Pairs(f, p, q) \/ Pairs(f, q, p)
     /\ \/ Straight(f)
        \/ \E p, q \in calls : /\ calls = {p, q} /\ Pairs(f, p, q)
                               /\ \E S \in SUBSET BlocksOf(f) : Releases(f, p, q, S)
        \/ calls = {}
Plain(f) == Forward(f) /\ \A kind \in LockKind : Apart(f, kind)

(* What runs in a boundary function, or in one it calls, with a lock held that
   it took itself, is in the section found for the lock. *)
Reported(f) == f \in BoundaryClosure /\ Plain(f)
HeldIsInSection ==
  (Running /\ Reported(Now.fn)) =>
    \A l \in Now.held :
      Ahead.op # "unlock" \/ Ahead.lock # l.lock =>
        /\ l \in DOMAIN _critical_sections
        /\ Ahead \in computeInstsInCS(l, _critical_sections[l])

(* And where there are no branches either, nothing else is. *)
SectionIsHeld ==
  (Running /\ Reported(Now.fn) /\ Straight(Now.fn)) =>
    \A l \in DOMAIN _critical_sections :
      (Home(l) = Now.fn /\ Ahead \in computeInstsInCS(l, _critical_sections[l])) => l \in Now.held

(* What is accessed with a lock held, by the function that took it, is marked as
   accessed in an atomic region, and the lock has a tree to write stubs for: one
   that its section accesses, and that of the access when there is only one. *)
OneTree(l) == Cardinality({n.tree : n \in UNION {i.nodes : i \in SectionAccesses(l)}}) =< 1
StubTree(l) ==
  /\ l \in DOMAIN _sync_data_inst_tree_map
  /\ \E i \in SectionAccesses(l) : \E n \in i.nodes : n.tree = _sync_data_inst_tree_map[l]
HeldAccessKnown ==
  (Running /\ Reported(Now.fn) /\ Ahead.op \in {"load", "store"} /\ Ahead.alias) =>
    \A l \in Now.held : \A n \in Ahead.nodes :
      /\ n \in _accessed
      /\ StubTree(l)
      /\ OneTree(l) => _sync_data_inst_tree_map[l] = n.tree

(* The warnings do not depend on the order the operations are looked at in. *)
OneWarningEach ==
  (phase = "running") =>
    _warning_atomic_op_count =
      Cardinality({f \in BoundaryClosure : \E a \in InstsOf(f) : a.op = "atomic" /\ sharedOperation(a)})

(* "find reachable unlock insts", "insert lock/unlock pair": the unlock that
   releases a lock taken under its plain name, when the program runs, is paired
   with it. *)
ReachablePaired ==
  (Running /\ Now.fn \in BoundaryClosure /\ Ahead.op = "unlock") =>
    \A l \in {h \in Released(Now.held, Ahead) : ~h.versioned} :
      l \in DOMAIN _critical_sections /\ _critical_sections[l] = Ahead
=============================================================================
