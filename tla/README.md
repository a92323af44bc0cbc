# Specifications of DataGuard

DataGuard decides which stack objects of a C program can be separated from the
rest because no access to them can go out of bounds, be of the wrong type or
outlive them. It does so with LLVM 10 passes: a CCured-style classification of
every pointer as SAFE, SEQ or DYN (`CCured/NesCheck.cpp`), a value range
analysis (`StaticAnalysis/ValueRange`), a live range analysis
(`StaticAnalysis/LiveRange`), and a program dependence graph with alias
information from SVF (`CCured/program-dependence-graph`).

All of it is sequential code. What makes it hard is not concurrency but order:
results are computed in one order of instructions, blocks and functions, kept in
maps, and read again after other steps have changed what they were computed
from. A wrong answer is silent: an unsafe pointer stays SAFE.

## 1. Inventory

| Component | Source | State | Operations | Hard behaviour | Correct when |
|---|---|---|---|---|---|
| Pointer database | `CCured/AnalysisState.{hpp,cpp}` | map from pointer values to class, size, size variable, flags, dependent functions | register, classify, set size, set size variable, look up | a lookup of null makes an entry that is not in the map and half initialised | classes only rise; the change flag of a global follows its class |
| NesCheck pass | `CCured/NesCheck.cpp` | the database, functions to remove, functions with a new return type, counters, and the module it rewrites | rewrite signatures, analyse each instruction, rewrite calls and returns, propagate, remove old functions | call results change identity while their uses have been analysed; the propagation writes the map it iterates over and erases instructions it iterates over | section 3 |
| Metadata table | `CCured/neschecklib.c` | array of (address, size), count | find, set, look up | array moved by realloc; overwrite against append | behaves as a map with default 0 |
| Range lattice | `ValueRange/ValueRange.cpp` 35-319 | none (pure) | join, evaluate binary operations and casts | fixed-width overflow, division, signedness | contains every concrete result |
| Interprocedural dataflow | `ValueRange/DataflowAnalysis.h` | outer worklist, results per function and context, callers, a stack of activations with a worklist and a copy of the results each | merge, transfer, meet over phis, analyse call, record results | calls are analysed by recursion, activations overwrite each other's results, summaries change after they were used | no news is forgotten, facts only grow, the list empties |
| Value range pass | `ValueRange/ValueRange.cpp` 388-710 | the accesses listed | look at every access in every context | the context and the state an access is looked up under | what runs is in the ranges found, what goes out of range is listed |
| Live variables | `LiveRange/live-variable-analysis` | facts per block, phi operands per block, worklist, a statistic | transfer, meet, worklist, count | blocks that reach no exit; phi operands read before they are recorded; the length of the statistic's array | the fixed point of the liveness equations |
| LLVM copies | `LiveRange/LiveIntervals.cpp`, `CaptureTracking.cpp` | - | - | - | third-party, not modelled |
| PDG graph | `program-dependence-graph/src/Graph.cpp`, `PDGNode.cpp` | nodes, typed edges, in and out | add edge, forward and backward searches | direction and edge filters, nodes met again | equals reachability |
| Call graph | `PDGCallGraph.cpp`, `SharedDataAnalysis.cpp` 116-136 | nodes per function, call edges; the paths found | build, reach, enumerate paths, closure | cycles, activations that hand sets down by value | equals reachability and simple paths, in any order of the boundary functions |
| Parameter trees | `Tree.cpp`, `FunctionWrapper.cpp`, `CallWrapper.cpp`, `ProgramDependencyGraph.cpp`, access tags in `DataAccessAnalysis.cpp` | trees of fields per parameter and argument, address variables, edges, access tags | build breadth first, connect formal and actual trees, tag | the order of functions in the module, parameters without a tree, the uninitialised size of a tree | fields are tagged with what is done to them, in every function that gets them |
| Dependence edges | `ControlDependencyGraph.cpp`, `DataDependencyGraph.cpp` | edges | add per block, per pair of instructions | answers of LLVM and SVF | - |
| Shared data, IDL | `SharedDataAnalysis.cpp`, `DataAccessAnalysis.cpp` | shared fields, access tags, annotations | compute shared fields, infer annotations | order of inference rules | - |
| Critical sections | `AtomicRegionAnalysis.cpp` | map from lock to unlock call, accessed nodes, tree per lock, operations warned of | pair, collect a section, warn, write stubs | nested and repeated sections, orders of addresses | what runs with a lock held is in its section; the stubs copy what is shared and accessed |
| Boundary files, debug info, drawing, statistics | `BoundaryAnalysis.cpp`, `DebugInfoUtils.cpp`, `PDGUtils.cpp`, ... | none | read, write, print | - | input and output only |
| SVF | `program-dependence-graph/SVF` | - | - | - | vendored; its alias answers are an input of the model |
| Older copies of the pass | `NesCheckFast.cpp`, `program-dependence-graph/src/NesCheck.cpp`, `ValueRange/NesCheck.cpp` | - | - | - | not modelled; `NesCheck.cpp` is the one the documentation names |

How they interact: the passes of `opt` run one after the other and call each
other only through results. NesCheck asks the PDG's `PTAWrapper` for alias answers
and calls into its own database; the instrumented program calls the metadata
table. The value range and live range passes read the lists of pointers NesCheck
prints. Inside the PDG, the graph is built first, then the trees are connected
function by function, then the analyses of shared data, of accesses and of
critical sections walk it; the boundary functions and the call graph say which
functions they look at. There are no threads, locks or callbacks at run time.

## 2. What is modelled

| Module | Models | Kind |
|---|---|---|
| `AnalysisState` | the database: one operator per method, from a map to a map | helper, used by EXTENDS |
| `NesCheck` | the pass: one action per kind of instruction and per step of `runOnModule` | state machine |
| `KindInference` | what the classification promises, without the pass | abstract specification |
| `MetadataTable` | the array of `neschecklib.c` | state machine |
| `MetadataMap` | a map with default 0 | abstract specification |
| `LiveVariables` | the live variable analysis of a module | state machine |
| `RangeDomain` | the ranges of the value range analysis and their operations | operators |
| `RangeMeet` | the fold of `Meet`, and what the operations promise | state machine over `RangeDomain` |
| `Dataflow` | the interprocedural worklist, with the transfer function of the ranges | state machine over `RangeDomain` |
| `ValueRange` | the value range pass, and the analysed program as it then runs | composes `Dataflow` with a run of the program |
| `PDGSearch` | the searches of the dependence graph | state machine |
| `CallGraph` | the call graph and its queries | composes `PDGSearch` with the closure over the boundary and the enumeration of paths |
| `CriticalSections` | locks, sections, what they access, warnings, and the program as it then runs | state machine |
| `SyncStub` | the walk over each lock's parameter tree that decides what its stubs copy | composes `CriticalSections` with the walk, between the warnings and the run of the program |
| `ParameterTrees` | trees of parameters and arguments, their edges, access tags | state machine |
| `CCuredProofs` (of `KindInference` and `MetadataTable`), `NesCheckProofs`, `LiveVariablesProofs`, `RangeDomainProofs`, `DataflowProofs`, `CallGraphProofs`, `CriticalSectionsProofs`, `ParameterTreesProofs` | lemmas and theorems | proofs |
| `MCNesCheck`, `MCKindInference`, `MCMetadataTable`, `MCLiveVariables`, `MCRangeDomain`, `MCValueRange`, `MCCallGraph`, `MCCriticalSections`, `MCParameterTrees` | instances for TLC | model checking |

### AnalysisState

`Variables` is a partial function from `Value` to records with the fields of
`VariableInfo`. Every C++ method that writes is an operator `Op(map, ...)`, so
that a handler that calls three methods is the composition of three operators.
Addresses are members of `Value`; `Null` is the null constant, which
`GetPointerVariableInfo` answers with a temporary entry of class UNKNOWN. Sizes,
which are IR values in the code, are abstracted to what the pass branches on: the
constants 0 and 1, other constants, the size argument of a rewritten function,
and values the instrumented program computes.

### NesCheck

The analysed program is an input: `mod`, chosen in `Init` from `Modules` and never
changed. `Instruction` keeps of an LLVM instruction what the pass branches on
(the fields are explained where they are declared). What the pass does to the program
is kept in three variables: `replaced` (calls it has erased), `wrapped` (returns
it has rewritten) and `erased` (functions removed); `Now` and `Operands` read the
program as it is after these changes.

| Code | Actions |
|---|---|
| `runOnModule` 1188-1197, globals | `RegisterGlobals` |
| 1200-1224 and `rewriteFunctionSignature` 937-1053 | `rewriteFunctionSignature(f)`, `BeginAnalysis` |
| 1226-1232 and `analyzeFunction` 1055-1082 | `EnterAnalysis(f)`, `analyzeFunction`, `LeaveAnalysis`, `BeginPropagation` |
| `processInstruction` 401-808 | `Alloca`, `Malloc`, `Free`, `Call` (with `rewriteCallSite` 815-915), `Ret`, `Store`, `Load`, `Gep`, `Cast` |
| propagation 1234-1316 | `VisitGlobal(g)`, `EnterFunction(f)`, `NextUse`, `Reanalyze`, `LeaveFunction`, `LeaveGlobal` |
| removal 1367-1393 | `BeginRemoval`, `RemoveOldFunction(f)`, `Finish` |

Choices left open, because the code does not fix them or fixes them by data the
model does not have: the order of functions in the module, the order of globals
in the map (sorted by address), the order of dependent functions (sorted by
name), whether a size that is an instruction stands in another block, and what
follows from the uninitialised entry of null (reading through it may fault).
Faults of the pass itself end in phase `crashed`: a call rewritten during the
propagation (the iterator stands on the erased instruction), a load through a
parameter whose size was computed in another block (its size "variable" is an
integer), and a cast of a call result without an entry.

Alias answers are part of `mod`; SVF is asked before any rewriting, so a
rewritten call has no value node (`HasValueNode`).

Left out of `NesCheck`: `identifyDifferentKindsOfUnsafePointers` (1411-1526, reads
the finished map and prints), statistics other than the one counter a property
is about, indices of a GEP that are globals (an index is an integer), and keys
of erased calls that a later allocation could reuse.

### KindInference

A class is given to a value only when a rule calls for it: a flow edge from a
value that has this class, or a demand. `Raise` may raise any number of values by one
rule each and says nothing about order or completeness. It is what the pass may
at most do. (It is not what it should at least do: section 4 shows ways in
which rules are left unapplied.) `NesCheck` maps to it with `flow` and `demand` read
off the program (`FlowOf`, `DemandOf`) and `kind` read off the map. A call result
that may be replaced appears in the rules under both names (`Forms`).

### MetadataTable and MetadataMap

`setMetadataTableEntry(p, s)` searches from the front and overwrites or appends;
`lookupMetadataTableEntry(p)` searches and answers 0 for an address without an
entry. `last` is the call made last with its answer, so that a set that is lost
shows in the refinement at once, and not only at some later lookup. Entries are
never removed: `free` in the instrumented program leaves its addresses in the table.
Left out: a failing `realloc` (the result is not tested), the narrowing of the
count to the search's `int` index, and the printing helpers.

### LiveVariables

| Code | Model |
|---|---|
| `transferFunc`, `LiveVariable.cpp` 137-188 | `Live(code, i, o)`: the facts before instruction `i` in closed form, so that it can be reasoned about without recursion; `Walk` is the loop, and `LiveIsWalk` says they agree |
| recording of phi operands 164-179 | `transferFunc`, which adds to `neighbourSpecificValues` of the blocks they come from |
| `evalFunc` 208-249, `initializeWorklist` `Dataflow.h` 169-188 | `evalFunc`: fresh maps, the exits in layout order |
| worklist loop, `Dataflow.h` 103-152 | `performBackwardAnalysis`: one block per step |
| 154-166 | `finalizeBackwardAnalysis` |
| `calculate` 193-206, called per instruction 243-246 | `calculate`, one instruction per step; a count beyond the array ends in phase `crashed` |
| `runOnModule` 251-265 | `Init`, `EndFunction`, `Terminating` |

Facts are sets of values instead of bit vectors over a numbering. A block may have
several edges to one successor (a switch), so edges are numbered; the order in
which predecessors are pushed is that of LLVM's use lists, any order here.
`DumpSize` and `Filled` stand for the 500 elements of `live_dump` and the 50 of them
that are set to 0; what the other elements hold is a choice of `Init` over
`Garbage`. The forward half of `Dataflow.h` has no client and is left out, and so
is the printed listing.

### RangeDomain and RangeMeet

| Code | Model |
|---|---|
| `RangeValue`, `operator\|`, `ValueRange.cpp` 30-88 | `Unknown`, `Infinity`, `makeRange`, `Join` |
| `Meet::operator()`, `DataflowAnalysis.h` 164-171 | `RangeMeet`: `Init`, `Meet`, a fold of `Join` from the default value, one argument per step |
| `evaluateBinOP` 149-270 | `evaluateBinOP`, `Add`, `Sub`, `Mul`, `SDiv`, `UDiv` |
| `evaluateCast` 272-300 | `evaluateCast`, `Fold` (LLVM's folding of a constant) |

An `APInt` is its signed value in `-Half..Half-1`; casts go between this width and
a narrower one. A sum is computed exactly and found to have overflowed when it is
no word; truncating division and the absolute value of the least word, itself, are
written out. `Fault` is the analysis ending in an error: a division of bounds by
zero, or a bound that is null because a fold gave no integer (`NoInt`: after a cast
to a float, or of zero to a pointer). `Concrete` and `Result` are the reference: the
integers a range stands for, and what the program computes from them.
`operator==` (90-103) is equality of ranges; the conversion to strings belongs to the
listing and is left out.

### Dataflow

A function is analysed in a context, the call sites of its last `ContextSize` calls.
A map of the code is a function from the keys it has: reading a missing key with
`[]` inserts the default, and the comparisons that end the iteration see that.

| Code | Actions |
|---|---|
| the constructor and the outer loop, `DataflowAnalysis.h` 202-220 | `Init`, `TakeContext` |
| `computeForwardDataflow`, `WorkList` | a frame of `stack` per activation, `Frame` |
| a block is taken, its predecessors merged 242-251, 369-394 | `TakeBlock`, `MergePredecessor(p)`, in any order |
| an unchanged entry state ends the visit 253-259 | `EnterBlock`, `SameEntry` |
| `applyTransfer`, `meetOverPHI`, the transfer of `ValueRange.cpp` 139-319 | `Transfer`, `transfer`, `meetOverPHI`, `transferOperand` |
| `analyzeCall` 318-355 | `Call`, `FinishCall`, with `Arguments`, `NeedsUpdate`, `Complete` |
| successors and the return value 272-286 | `LeaveBlock`, `WithSuccessors`, `WithReturn` |
| results recorded, callers queued 288-301 | `FinishContext`, `FinishCall`, `QueueCallers` |

Every activation has its own copy of the results of its function and writes it
back at its end; a call analysed meanwhile may have written to what it replaces.
An operation that fails, of an instruction or of an operand that a call asks for, ends
the analysis (phase `crashed`). Programs are well formed (`WellFormed`), which says of them what
LLVM's verifier does: control stays in the function, no block is empty, a branch or return
ends a block and stands nowhere else, an instruction is at one place, neither it nor a
parameter is a constant, and it has the operands it takes: two, one for a cast or an
access, for a call one per parameter of its callee. Those of the run also have definitions that dominate uses, blocks in reverse post-order, and every block
reached. Left out: casts to floating point and to pointers, whose bounds are null, calls to
functions without a body, and the arguments of a call beyond its callee's parameters, which
`analyzeCall` does not look at.

### ValueRange

`valueRangeAnalysis` is one action: it looks at every access the analysis has a
state for, in every context, as lines 388-449 do, and collects those that lines
495-549 (arrays) and 565-694 (structures) put into `unsafePtr`. Then the program
runs, from the main function the analysis started from: `Start`, `Compute`, `Access`,
`Branch(b)`, `Invoke`, `Return`, `Stop` are the semantics of the LLVM instructions and
external. The program goes on only where every operand of its next instruction has a value
(`Operands`, in `Running`), which dominance promises and the model does not assume; a call
of a function that returns nothing leaves no value; the program may stop anywhere. An index is as wide as a pointer: `isNegative` looks at the index's own
width but `getLimitedValue` (540) does not extend the sign, so that a narrower
negative upper bound alone would not be seen. The last step (700-709), which counts
those also in NesCheck's list and prints the number, is left out.

### PDGSearch and CallGraph

| Code | Model |
|---|---|
| `addNeighbor`, `PDGNode.cpp` 5-12 | `addNeighbor`, a set of edges |
| `canReach`, `Graph.cpp` 34-70 | kind "canReach": a stack, the edge types given |
| `findNodesReachedByEdge`, `...Edges`, 72-123 | kind "reached" |
| `getAliasNodes`, `ProgramDependencyGraph.cpp` 615-636 | kind "alias", `VisitAlias`: nodes are marked when they enter the queue |
| `findCrossDomainParamNode`, `DataAccessAnalysis.cpp` 112-150 | kind "param": parameter nodes are collected and not walked through |
| `PDGCallGraph::build` 5-114 | `build`, with `getIndirectCallCandidates` |
| `PDGCallGraph::canReach` 116-137, `computeTransitiveClosure` 211-238 | kinds "calls" and "closure" |
| `computePaths`, `computePathsHelper` 185-208 | `Descend`, `FoundPath`, `GiveUp`, `TryCallee(g)`, `GoBack` on the activations `path` and `left` |
| `computeBoundaryTransitiveClosure`, `SharedDataAnalysis.cpp` 116-136 | `SkipBoundary(f)`, `AskBoundary(f)`, `SearchCalls` |

One step of the search takes one node off the queue or stack; edges of a node are
followed in any order, as the code keeps them ordered by address. The reference
is reachability as the least set that has the source and is closed under `Neighbors`,
the ends of the edges of the query's types, which is stated apart from how the search
follows them. Creating nodes from a module and binding debug types to them
(`Graph.cpp` 126-420) is left out: it translates LLVM's data and decides nothing.

### CriticalSections

| Code | Model |
|---|---|
| `computeCriticalSections`, `computeCSInFunc`, `computeAtomicOperations` `AtomicRegionAnalysis.cpp` 137-203 | `computeCriticalSections(f)`, `UnlockOf`, `isLockInst`, `isUnlockInst` |
| `computeInstsInCS` 205-230 | `computeInstsInCS` |
| `computeWarningCS`, `computeModifedNames` 232-298, 488-509 | `computeWarningCS(l)`: the tree of the first access, in an order of addresses, is the lock's |
| `computeWarningAtomicOps` 300-376 | `computeWarningAtomicOps(a)` |
| the program | `Start(f)`, `Execute`, `Branch(b)`, `Invoke`, `Return` (external) |

The layout of a function is its places, `<<block, instruction>>` by position, in the
order `Before`; `InstAt` is what stands at one and `Place` is where an instruction stands
(`PlaceAssumption`: at one place of one function). The walks of the code from the first
instruction to a lock or an unlock become comparisons of places. A lock is named by its
kind (which function takes it) and the object it is taken on; the code looks at the
kind only. Left out: the counters of statistics for nested, RCU and sequence
locks, and printing.

### SyncStub

| Code | Model |
|---|---|
| the loop over the locks, `AtomicRegionAnalysis.cpp` 36-67 | `BeginStub(l)`, in any order; `EndStub` |
| `generateSyncStubForTree` 562-626 | `BeginStub` (the root may not be projected, 569), `Projection`, `NoProjection` (581), `Object` (594) |
| `generateSyncStubProjFromTreeNode` 628-701 | `Project`: `Named` are the fields not passed over (643, 651), `Followed` those put on the queue; `Write` |
| `expandNode`, `Tree.cpp` 32-68 | `TreeShape`: what trees can be |

A stub is written once for each lock with a tree, and what it copies is kept in `stubs`. Types
are reduced to kinds: a pointer to a struct, a struct, what may be projected without having
fields in a tree, a pointer to a function, and the rest. The test at 634 asks of the object what
581 asked of the pointer to it, with the same answer. The tags of a field are the loads and stores
of the functions modelled and `Elsewhere`, what functions that are not modelled do to it; how tags come
about is the subject of `ParameterTrees`. Which fields are shared is an input. As in the code, a struct
embedded in another is named in the stub (693) but not gone into, unlike in the walk for IDL of
calls (`DataAccessAnalysis.cpp` 635-670). Left out: the names, annotations and layout of the stubs.

### ParameterTrees

| Code | Model |
|---|---|
| `Tree::build`, `TreeNode::expandNode`, `computeDerivedAddrVarsFromParent`, `Tree.cpp` 31-182 | `Shape`, `expandNode`, `AddrVars`; a node is the path to it |
| `connectIntraprocDependencies`, `ProgramDependencyGraph.cpp` 187-206, 363-391 | `connectIntraprocDependencies`: `IntraEdges`, `Written` |
| `connectInterprocDependencies` with `connectCallerAndCallee`, `connectInTrees`, `connectOutTrees` 76-160, 215-259, 394-464 | `connectInterprocDependencies`: `InterEdges`, or `crashed` where `TreeIsNull` |
| `connectFormalInTreeWithActualTree`, `connectTreeNode` 466-555 | `connectFormalInTreeWithActualTree`: `FormalEdges` |
| the loop over the functions of the module 41-58 | `waiting`, `stage` |
| `computeDataAccessForFuncArgs`, `...ForTreeNode`, `DataAccessAnalysis.cpp` 352-418, 477-494 | `computeDataAccessForFuncArgs(f)`, `TagsOf`, `ReconnectedEdges` |
| `GenericGraph::findNodesReachedByEdges`, `Graph.cpp` 96-123 | `ReachedBy` |

`Tree::_size` (`Tree.hh` 83) has no initialiser and is not set for a parameter's
first tree; `start` chooses what it holds. The three connecting steps of a function are three
actions; within one, and within the analysis of one function, edges are added in bulk: no step reads
what another step of the same action adds, but for the trees of a function that gets
one of its parameters back as another, which programs do not (the header says so). A value passed
twice has one tree, made at its first place; where the parameter of the second place has
none, the pass reads through null and the run ends in stage `crashed`. Programs are restricted to parameters
that are pointers to one recursive structure; an instruction whose address is
derived in two ways (returns of calls, globals, alias edges) is left out.

## 3. Properties and runs

| Run | Instance | Properties | Result |
|---|---|---|---|
| `nescheck` | 588 modules of 2 functions and 2 globals, with and without a whitelisted function | `TypeOK`, `FlagExact`, `DependentsComplete`, `ArithmeticIsSeq`, `SizeVariablesKept`, `ImplementsKindInference`, `Termination` | hold |
| `kind_inference` | all programs over 2 values, 3 classes | `BelowSolutions` | hold |
| `metadata_table` | 4 addresses, every sequence of calls | `OneEntryEach`, `ImplementsMap` | hold |
| `live_variables` | functions of 3 and 4 blocks, modules of 1 and 2 functions | `TypeOK`, `BackwardComplete`, `VisitedSettled`, `BelowSolutions`, `LiveIsWalk`, `DumpExact`, `Termination` | hold |
| `range_domain` | 3-bit words, 2 facts met, every second operand | `MeetIsLeast`, `ArithmeticSound`, `CastSound`, `Monotone` | hold |
| `value_range` | programs of up to 5 functions and 4 blocks, 3-bit words | `TypeOK`, `NewsArrives`, `FactsGrow`, `InRange`, `NegativeListed`, `Termination` | hold |
| `call_graph` | graphs of 4 nodes, call graphs of programs of 4 functions, every kind of query | `CallTypeOK`, `SearchExact`, `BoundaryExact`, `PathsExact`, `Answers` | hold |
| `critical_sections` | programs of 3 functions with 1 to 4 blocks over 2 parameter trees | `HeldIsInSection`, `SectionIsHeld`, `HeldAccessKnown`, `OneWarningEach`, `HeldIsCopied`, `NothingFromPrivate` | hold |
| `parameter_trees` | modules of 3 functions in 2 orders, trees of depth 4 | `TagsExact`, `CalleesBeforeComeBack` | hold |
| `propagation_reaches_loads` | `ReadOnceModules` | `PropagationReachesLoads` | violated |
| `long_listed` | as `value_range` | `LongListed` | violated |
| `sections_paired` | as `critical_sections` | `ReachablePaired` | violated |

Of the pass:

- `FlagExact`: the propagation only looks at globals whose flag is up, so a
  raise that forgets the flag is lost for good. The flag of a global not yet
  visited says exactly whether it was raised, whatever sequence of handlers ran.
- `DependentsComplete`: when the propagation takes the dependent functions of a
  global, every analysed function that names the global, directly or through a
  GEP instruction or constant, is among them.
- `ArithmeticIsSeq`: a pointer indexed at a nonzero offset is at least SEQ once
  analysed, under the name it then has. It holds for bodies in which a result
  is defined before its uses in layout order, and fails otherwise.
- `SizeVariablesKept`: an entry never claims that a size variable was read when it
  has none, and a parameter of a rewritten function keeps its size argument.
- `ImplementsKindInference`: every class given to a value is called for by a
  store, load, index or cast of the program, and none is lowered.
- `Termination`: the propagation visits a global at most once although it raises
  flags while it iterates.

Of the metadata table:

- `OneEntryEach`: no address ever has two entries; a search from the front relies on it. That
  entries also stay where they are (`EntriesStay`) is proved and not part of the run.
- `ImplementsMap`: the table answers as `MetadataMap` does. 

Of the live variable analysis:

- `BackwardComplete`: exits and predecessors of analysed blocks are analysed or on
  the list, so that every block that reaches an exit is analysed.
- `VisitedSettled`: an analysed block that is not on the list again holds what the
  liveness equations ask given its successors: no change is forgotten, whatever the
  order of the list.
- `BelowSolutions`: no fact exceeds any solution of the equations, phi operands
  included. With the two above, functions without phi instructions in which every
  block reaches an exit get the least solution.
- `DumpExact`: the elements of the statistic that were set to 0 count the program
  points with that many live values, over all functions evaluated so far.
- `Termination`: the list empties although blocks of a loop put each other back.

Of the ranges:

- `MeetIsLeast`: whatever order facts arrive in, the result is the least range above
  all of them: sound, independent of the order, and no less precise than it can be.
- `ArithmeticSound`: the range of a sum, difference, product or signed quotient
  contains every result the program can compute, with overflow. Excepted are
  quotients of a range that starts at the least word: its magnitude is not a word,
  and line 216 takes it to be negative. Faults of the analysis say nothing.
- `CastSound`: a cast of a range contains the casts of its values, as long as
  truncation cuts nothing off and zero extension does not meet both signs. Without
  these conditions it does not: `[-1, 1]` zero-extended has its bounds exchanged.
- `Monotone`: an operand that grew never makes a result shrink, with the same
  exception. A worklist over these operations moves one way.

Of the value range pass:

- `NewsArrives`: in every activation and every recorded result, what holds at the
  exit of a block is known at the entry of its successors, and what is known of
  the arguments at every entry, unless the block is on the list again. Skipping,
  the list without marks and the copies of results could each lose some.
- `FactsGrow`: what is recorded of arguments, return values and entries never
  shrinks, although an activation replaces the results of its function by its own
  copy; with it the analysis is a fixed point iteration at all.
- `InRange`: at every point the program comes to, in the context of the calls that
  led there, every value it holds is in the range found.
- `NegativeListed`: an access of an array below its start was listed.
- `Termination`: callers and callees do not bring each other back for ever.

`FactsGrow`, `InRange` and `NegativeListed` are about `Plain` programs: no recursion
(`NoRecursion`), no constant returned, a main function without parameters; `Plain` is what the
code can be held to, section 4 says why. `NewsArrives` and `Termination` hold of all.

Of the graph:

- `SearchExact`: a search that has ended answers with reachability over the edges it
  was given, however often nodes are met again. What holds meanwhile, `SearchInv`, is
  proved (section 5). It is not about two searches the code gives another meaning: `canReach` for two nodes
  (`TwoArgumentReach`, section 4), and `findNodesReachedByEdges` backward, which no code calls.
- `BoundaryExact`: the functions collected are those called from boundary functions
  that are not excluded, in whatever order these are looked at.
- `PathsExact`: a path is found exactly when there is one, and is a simple path from
  caller to callee.
- `Answers`: every query is answered, in graphs with cycles too.

Of the critical sections:

- `HeldIsInSection`: whatever runs with a lock held, that its function took, is in the
  section found for that lock. `SectionIsHeld`: without branches, nothing else is.
  Both are about functions whose layout can tell (`Plain`): control goes forward, the
  sections of a kind do not overlap, and every path releases the lock.
- `HeldAccessKnown`: a field of a boundary object accessed with a lock held is marked as
  accessed in an atomic region, and the lock's stubs are written for a tree that its section
  accesses; for the tree of the field, if the section touches one tree.
- `OneWarningEach`: a function is counted exactly once if it has an operation to be warned
  of, in whatever order operations are looked at.

Of the stubs of a lock:

- `HeldIsCopied`: a shared field that a reported function loads with a lock held is in the stub at
  the start of that lock, one that it stores to in the stub at its end: if the section touches one
  tree, and the way to the field goes through pointers to structs that are shared and
  accessed themselves. It relates the running program, the pairing of locks, the tree that was
  chosen for the lock and the walk over it. Behind an embedded struct, or a pointer that is
  private or was not accessed, nothing is copied, shared or not: this is what the code does.
- `NothingFromPrivate`: what is copied was accessed so, and is shared or of a kind that
  is always copied, as are all pointers on the way to it.

Of the trees:

- `TagsExact`: a field of a parameter is tagged with what is done to it by the
  function and by every function the parameter is passed on to, on the same side of the
  boundary, however deep; no more and no less. "Passed on" takes the loops that
  end early and the sizes that differ as the code has them.
- `CalleesBeforeComeBack`: a field a callee writes leads to the addresses of it the
  caller computes after the call, if the callee comes first in the module.

Bounds. Two functions suffice for a caller and a callee, two globals for one
behind and one ahead of the propagation's iterator; bodies have two to four
instructions, chosen by family so that each handler meets each kind of operand:
`GlobalModules` (loads and stores of globals with and without aliases),
`ReadOnceModules` (a global read at one place and raised by the other function),
`CallModules` (arguments with an entry, null, constant without an entry, integer; results
indexed, cast, stored, freed, loaded), `MemoryModules` (stack, heap, null, stores
from other blocks), `ParameterModules` (parameter read in another block). The counter
`FunctionCallSitesRewritten` is bounded by the number of instruction visits,
which is finite because each global is visited once.
For the metadata table four addresses make a search pass over entries before and
after the one it looks for. For the live variable analysis three blocks give every
shape of branch, loop, self-loop and endless loop, four blocks a loop entered
through two paths; two values give kills between a use and a definition, and a
second function shows what one leaves behind for the next. `DumpSize = 3` lets
counts reach the last element and run past it, `Filled = 2` leaves one element
unset.
For the ranges three-bit words have sums, products and quotients on both sides of
every overflow, and the operations are the same at any width; two facts give every
range that can be met, and the third is the second operand of the property.
For the value range pass `ContextSize = 2` is that of the code, and calls go three deep,
so that contexts are cut off and shared; `Loops` overflow in both directions, `Chains` and `Shared`
reach one callee in several contexts with growing arguments, `CallLoops` call in a
loop, `Recursive` meets an active callee. `MaxDepth = 4` bounds the activations of the
program that is run; only recursive ones, which are not `Plain`, reach it.
For the graph, `SmallGraphs` are all graphs of up to three edges over three nodes and
two types, with self-loops and cycles, `LargeGraphs` have nodes met twice behind a cycle.
For the critical sections, `Lines` are straight functions with a lock, two in turn, one
kind inside another, one of a kind inside another, and a versioned name; `Branching`
are diamonds, an early return, and a loop. `MaxDepth = 3` is as deep as calls go.
For the stubs there are two trees. `s` has a shared pointer to a struct, a private one, an embedded
struct and a pointer to a function side by side; `t` has a field up to a null of a type that may be
projected and one of a type that may not, a pointer to its own type cut at the depth, and a union of a
type of a global's. `MCElsewhere` lets other functions read, write or leave alone the pointers and what is
behind them, 18 ways. In `sections_paired`, which is about pairs, they leave all alone.
For the trees depth 4 is the pointer, its structure, the fields, what a field points
to and the fields behind; in the code the depth is 6 (`Tree.hh` 75), one structure more of the
same shape. `StartSize` has the value that makes sizes agree and one that does not.

Fairness. `FairSpec` asks that the pass keeps taking steps, `WF_vars(Step)`: it
is a sequential program, and its only waiting is for itself. No action has
fairness of its own, so the order of functions and globals is not restricted.
The live variable analysis is sequential code too, and has the same condition on
its `Step`; the value range analysis asks the same of `Analyse \/ valueRangeAnalysis`
only: the program it then runs may stop anywhere. The queries of the call graph
are sequential, too, `WF_callVars(CallNext)`. The metadata table, the ranges, the critical
sections and their stubs, the trees and the abstract specifications have no fairness: no
property of theirs is about progress.
Deadlock is checked in every run but those of the ranges, where the number of facts
met is bounded; the end of a pass is an action `Terminating` or `Resting`.

## 4. Where code and comments disagree

With a run of their own:

1. Comment `NesCheck.cpp` 1276-1278: when a global changed, "we need to analyze all the alias
   and propagate the classification inside the function". Lines 1284-1285 skip the
   instruction that uses the global. A function that names it in one place only, `x = load g`,
   analysed before `g` was raised, has no other use from which that load would be found as
   an alias: the scan of the function ends with `x` at the old class
   (`PropagationReachesLoads`, of loads only, at the end of each scan of a function).
   With the skip taken out of `Aliases`, the run finds nothing.
2. `ValueRange/README.md` 34: "if the declared size is less than the access range, we
   deem this seq pointer as unsafe". An upper bound at or past the size makes the
   pass look at the access (500), which it then lists only if a bound is negative
   (541-545), and prints "Classify this array as safe!" (546). The run asks for the plain
   case only: a known range whose upper bound exceeds the declared size (`LongListed`).
3. Comments `AtomicRegionAnalysis.cpp` 146 and 154: "find reachable unlock insts", "insert
   lock/unlock pair". Every unlock laid out after the lock is taken, reachable or not,
   and the map keeps the first per lock (157): an unlock on another path is paired with no
   lock (`ReachablePaired`).
Met while modelling and stated in the modules, without a run. Each of these
definitions is known not to hold; put under INVARIANT in the named configuration, TLC
shows the case:

4. Comment `NesCheck.cpp` 1319-1322: the worklist is only needed for globals SVF has no node
   for, "otherwise the classification propagation algorithm can handle them". A
   re-analysis may raise a global the iterator has passed; its flag stays up
   and nothing looks at it again (`NoGlobalLeftChanged`, `NesCheckLoads.cfg` with
   `Modules <- GlobalModules`).
5. `program-dependence-graph/README.md` 74: "Query the reachability of two nodes". `canReach`
   with two arguments passes an empty set (`Graph.cpp` 38), and the set says which edges to
   follow (63), so two distinct nodes never reach each other (`TwoArgumentReach`, `CallGraph.cfg`).
6. The same, 94: "we put the edge types we want to exclude in the set". The search follows the
   types in the set and leaves out the others (63) (`ReachExcluding`, `CallGraph.cfg`).
7. Comment 1041: "if we changed the return type, then we will have to pimp all
   return instructions". A return of a value without an entry is left as it is
   (`AllReturnsRewritten`, `NesCheck.cfg`).
8. Comment 690: "we're accessing the pointer at an offset != 0, classify it as
   SEQ". When the block with the index is laid out before the block with the call
   whose result it indexes, rewriting the call gives the result a fresh SAFE entry
   (`ArithmeticIsSeq`, `NesCheck.cfg` with `Modules <- UseFirstModules`).
9. `LiveVariable.cpp` 9: "in[B] = use[B] U (out[B] - def[B])". The worklist starts from
   the blocks without successors (`Dataflow.h` 184), so a block that reaches no exit
   is never analysed and has no facts (`HeaderEquations`, `LiveVariables.cfg`).
10. Comment `Dataflow.h` 129: "for phi node. meet the variables that are live from this
   specific block". Phi operands are recorded when the block of the phi instruction
   is analysed, and they are no part of the facts whose change brings a predecessor
   back: one analysed before misses them (`PhiOperandsArrive`, `LiveVariables.cfg`).
11. `ValueRange/README.md` 50: "this method keeps soundness of the value range
   analysis". The lower bound of an unsigned quotient is computed as upper bound by
   lower bound and the upper one as lower by upper (`ValueRange.cpp` 252-254): `[1, 3]`
   divided by `[1, 2]` is `[3, 0]` (`UnsignedSound`, `RangeDomain.cfg`).
12. Comment `DataflowAnalysis.h` 288-290: "Updating the results for this (function,context)
   means that all callers must be updated as well". The callers are put on the list, but
   a block whose entry state is as before is skipped (256) and its calls are not
   evaluated again. The first re-analysis of a caller does run, because its own
   return value was merged into its entry state since; later ones are skipped
   (`CallersUpdated`, `ValueRange.cfg`).
13. Comment `ProgramDependencyGraph.cpp` 139: "connect actual in -> formal in, formal
   out -> actual out". Formal out nodes are connected if they are tagged as written
   (116), and a callee is tagged when its turn in the module comes (47-55): of one that
   comes after its caller nothing leads back (`CalleesComeBack`, `ParameterTrees.cfg`
   with `StartSize = {0}`).

Further facts the models contain, which no document speaks of: the counter of
rewritten call sites is raised before `NesCheck.cpp` 837 gives a rewriting up; the
late pass over phi operands adds them to every successor of a block and not only
to the one with the phi instruction (`Dataflow.h` 162); 50 of the 500 elements of
`live_dump` are set to 0 (`LiveVariable.cpp` 252) and the printing loop (201) may
leave out the largest count; truncations and zero extensions may turn a range
around (`ValueRange.cpp` 278-281), signed division by a range with zero at one end
divides by it (227-230), and a bound folded to no integer is read later (157-161).
Of the value ranges: a call of an active callee takes the return value so far and the
growth of its arguments is taken up by nobody; a returned constant is not in the
state and is returned as Unknown; so are the main function's parameters; an operand
that was not visited yet is transferred where it is used, as Infinity; arrays
indexed by a constant and objects of other types are never listed. Of the graph: the
backward search follows an incoming edge to its destination (`Graph.cpp` 119), so
that it answers with the source alone. Of the critical sections: a lock called under
a versioned name has no section; and a pointer that is only read is gone through for the fields written
behind it, so that the stub at the end has their projection without the pointer. Of the trees: the uninitialised size may leave the
trees of a call apart; a parameter without a tree ends the loop over the calls of its
caller; fields behind a second pointer get no address variables; a value passed a second time, to
a parameter without a tree, makes the pass read through a null tree and fault
(`ProgramDependencyGraph.cpp` 76, called from 152; stage `crashed`); and the analysis of the accesses
connects the nodes below the roots with their address variables once more
(`DataAccessAnalysis.cpp` 409-418), which for the parameters the early returns left out is the first
time.

## 5. What is proved

For every set of values, functions and modules that the named assumptions admit:

| Theorem | Says |
|---|---|
| `CCuredProofs!ClassesAreJustified` | the abstract classification, of any set of integer classes, never exceeds a solution of the rules |
| `NesCheckProofs!TypeCorrect` | `Spec => []TypeOK` |
| `NesCheckProofs!FlagsAreExact` | `Spec => []FlagExact` |
| `NesCheckProofs!DependentsAreComplete` | `Spec => []DependentsComplete` |
| `NesCheckProofs!IndexedPointersAreSeq` | `Spec => []ArithmeticIsSeq`, if `CallsBeforeIndexing(Modules)` |
| `NesCheckProofs!SizesAreKept` | `Spec => []SizeVariablesKept` |
| `NesCheckProofs!Implements` | `Spec => ImplementsKindInference` |
| `NesCheckProofs!PassStaysBelowSolutions` | the pass never exceeds a solution of the rules of its program |
| `CCuredProofs!OneEntryForEach` | `Spec => []OneEntryEach` |
| `CCuredProofs!EntriesStayPut` | `Spec => EntriesStay` |
| `CCuredProofs!Implements` | `Spec => ImplementsMap` |
| `LiveVariablesProofs!TypeCorrect` | `Spec => []TypeOK` |
| `LiveVariablesProofs!NoPredecessorForgotten` | `Spec => []BackwardComplete` |
| `LiveVariablesProofs!NoNewsForgotten` | `Spec => []VisitedSettled` |
| `LiveVariablesProofs!FactsAreJustified` | `Spec => []BelowSolutions` |
| `LiveVariablesProofs!TransferIsWalk` | `Spec => []LiveIsWalk`: the closed form is the loop, for blocks of every length |
| `LiveVariablesProofs!StatisticIsExact` | `Spec => []DumpExact` |
| `RangeDomainProofs!TypeCorrect` | `Spec => []TypeOK` |
| `RangeDomainProofs!MeetIsLeastBound` | `Spec => []MeetIsLeast` |
| `RangeDomainProofs!ArithmeticIsSound` | `Spec => []ArithmeticSound`, at every width |
| `RangeDomainProofs!CastsAreSound` | `Spec => []CastSound`, between every two widths |
| `RangeDomainProofs!OperationsAreMonotone` | `Spec => Monotone`, at every width |
| `RangeDomainProofs!SumsAreSound` | ranges of sums and differences miss no result, wrapped ones included |
| `DataflowProofs!InductiveInvariant` | `VSpec => []IInv`: what every activation knows, and what is recorded |
| `DataflowProofs!TypeCorrect` | `VSpec => []TypeOK`, for every well-formed program and context length |
| `DataflowProofs!NoNewsForgotten` | `VSpec => []NewsArrives`, recursion included |
| `DataflowProofs!NothingRecordedIsLost` | `VSpec => FactsGrow` |
| `DataflowProofs!RangesSound` | `VSpec => [](ExactOperations => InRange)`, for calls of every depth |
| `DataflowProofs!NegativesListed` | `VSpec => [](ExactOperations => NegativeListed)` |
| `CallGraphProofs!SearchKept` | `SearchSpec => []SearchInv` |
| `CallGraphProofs!SearchIsExact` | `SearchSpec => []SearchExact`, for every finite graph, cycles included, and every search but the two named in section 3 |
| `CallGraphProofs!CallsKept` | the inductive invariant of every query of the call graph |
| `CallGraphProofs!TypeCorrect` | `CallSpec => []CallTypeOK` |
| `CallGraphProofs!CallSearchIsExact` | `CallSpec => [](SearchInv /\ SearchExact)` |
| `CallGraphProofs!BoundaryIsExact` | `CallSpec => []BoundaryExact` |
| `CallGraphProofs!PathsAreExact` | `CallSpec => []PathsExact` |
| `CriticalSectionsProofs!OneWarningForEach` | `Spec => []OneWarningEach`, for every program and order |
| `CriticalSectionsProofs!HeldIsReported` | `Spec => []HeldIsInSection` |
| `CriticalSectionsProofs!ReportedIsHeld` | `Spec => []SectionIsHeld` |
| `CriticalSectionsProofs!AccessIsKnown` | `Spec => []HeldAccessKnown` |
| `CriticalSectionsProofs!StubsLeaveSections` | `SyncSpec => Spec`: writing the stubs disturbs nothing that was found |
| `CriticalSectionsProofs!SectionsWithStubs` | the properties of sections, accesses and warnings hold with the stubs written, `SyncSpec` |
| `CriticalSectionsProofs!TypeCorrect` | `Spec => []TypeOK`: among others, the walk from a lock to its unlock ends |
| `ParameterTreesProofs!FieldsAreTaggedExactly` | `Spec => []TagsExact`, for every module and trees of every depth |
| `ParameterTreesProofs!WritesOfCalleesComeBack` | `Spec => []CalleesBeforeComeBack` |
| `ParameterTreesProofs!Typing` | `Spec => []TypeOK` |

Assumptions, all evaluated by TLC:

- of the pass, `NullAssumption`, `ModulesAssumption` and `ValueAssumption`: how the kinds of
  values partition, that locals are neither globals' constants nor null, that a
  whitelisted function is not instrumented, and that the value which replaces a rewritten
  call is a local the module does not name yet, one per call (`ReplacementsAreNew`:
  `rewriteCallSite` creates it, `NesCheck.cpp` 897-910);
- `KindOrder` (classes are integers), `SizeAssumption` of the table;
- of the live variable analysis, that functions have blocks of their own, that no block is
  without a terminator, that edges and phi operands stay in their function, that there are
  finitely many values and that the array's lengths are numbers;
- of the ranges, that widths are positive, that the narrow one is the wide one or at most
  half of it (`HalfAssumption`: both are powers of two), and that a null bound is no
  integer (`NoIntAssumption`);
- of the interprocedural analysis that constants are words (`ConstantAssumption`), that
  values, blocks and functions are different keys (`KeyAssumption`: they are objects of
  different addresses), that contexts have a length (`ContextAssumption`), and that programs are
  `WellFormed` (`ModuleAssumption`); dominance, which LLVM also promises, is not needed;
- of the graph that it is finite (`NodeAssumption`), and of the call graph what a
  program and a query consist of (`CallTypesAssumption`);
- of the critical sections that there are finitely many functions and tree nodes
  (`FunctionAssumption`), that control stays in the function and a block ends where it
  branches or returns (`WellFormed` in `ProgramAssumption`), and `PlaceAssumption`; of the trees
  of their stubs, which shapes they have (`TreeAssumption`);
- of the trees that functions and fields are finitely many and trees have more than one
  level (`TypesAssumption`: the code stops at 6), and that every function has its turn once,
  addresses are taken of pointers, and a call passes a pointer for each parameter
  (`WellFormed` in `ProgramAssumption`).

`IndexedPointersAreSeq` has a hypothesis of its own, `CallsBeforeIndexing(Modules)`: the
result of a call is indexed behind the call, in its own function. Without it the theorem is
false; that is number 8 of section 4. `MCNesCheck` lets TLC evaluate that the modules of the
run meet it (`LayoutAssumption`).

`RangesSound` and `NegativesListed` have one, too: `ExactOperations`, no instruction of the
program is an `sdiv`, `udiv`, `trunc` or `zext`. Sums, differences, products, sign
extensions, phi instructions, calls and everything the analysis does not evaluate remain. Without it the
theorems are false for a reason that lies in `evaluateBinOP` and `evaluateCast`. Each was
tried with TLC on a program over three-bit words with phi instructions for operands,
which `InRange` does not hold of:

| Operation | Operands | Range found | Missed |
|---|---|---|---|
| `sdiv` | `[-4, 0]` by `[-1, 1]` | `[0, 0]`: the magnitude of the least word is itself (216) | -4, below the start of an array and not listed |
| `udiv` | `[1, 3]` by `[1, 2]` | `[3, 0]`: bounds from the wrong ends (252-254) | 1 |
| `trunc` | `[0, 3]`; `[-3, 0]` | `[0, -1]`; `[1, 0]`: bounds cut one by one (278-281) | -1, in the second case not listed |
| `zext` | `[-1, 1]` | `[3, 1]`: bounds extended one by one (278-281) | 3 |

Where such operations stay clear of these cases, the two properties are only model-checked.

The pass. The first part of `NesCheckProofs` shows of each method of the database that it
keeps the map a map of entries and either keeps every class and flag
(`KeepsKinds`) or, for `ClassifyPointerVariable`, raises one class and flags it if it
is a global's (`Tracks`); both compose. There is a lemma per handler that
processing the instruction is a `GoodStep`: it tracks, and every class that changed
is called for by a rule (`Rule`). Type correctness and the flags follow by one
induction over `IInv == TypeOK /\ FlagExact /\ AtStart`: `AtStart` (nothing is in the
map before the globals are) is needed because `RegisterGlobals` writes a map of
globals only, and `FlagExact` is needed for types because `VisitGlobal` reads the
entry of a global, which must exist. The refinement takes the same invariant: a
`GoodStep` is a `Raise`, every other step keeps all classes and is a stutter.

`DependentsComplete` and `ArithmeticIsSeq` speak of the positions passed so far. A step either
passes one position, which `PassedStep` looks at, or passes none; and of positions passed
before, `Mentioned` can only shrink (a replaced call and an erased function mention less)
while the entries only grow (`Grown`), so what held of them still does. For
`ArithmeticIsSeq` the name of a pointer must not change once it was indexed, which is
where the hypothesis about the layout comes in. `SizeVariablesKept` takes, besides `Grown`,
that only `rewriteFunctionSignature` adds a function to remove, and that it gives each of its
parameters a size argument.

The table. `IInv == TypeOK /\ OneEntryEach`. `Find` says what the search from the front
returns when no address has two entries; every step keeps that, and with it the
entry a lookup finds is the only one, which is what the refinement to a map takes.

The live variable analysis. The transfer function is monotone and distributes over
single values (`LiveMonotone` and its companions). `IInv` adds to the four
invariants that `mod` is one of `Modules` and `Neighbours`: a phi operand recorded
for a block is an operand of a phi instruction of its function. `BelowSolutions`
is not inductive without it, as `Meet` reads operands recorded earlier.
`VisitedSettled` needs `TypeOK` for the list, which holds blocks of the function at
hand: a block taken off the list settles itself, and what it unsettles are its
predecessors, which `Push` puts back. `LiveIsWalk` compares a recursive function with the
closed form without an induction over data: if they differed somewhere in a block,
they would differ at a last position (`LastPosition`, a minimum principle over
finite sets), and there both take the same step (`LiveStep`) from equal facts.
`StatisticIsExact` takes `DumpInv`: the element for `k` is the cardinality of the
points passed so far with `k` live values; the next point is in one of these sets and was not before.

The ranges. `JoinIsLeast` shows that `Join` is the least upper bound of two proper
ranges; with transitivity of the order (`BelowTransitive`) each meet keeps
`IInv == TypeOK /\ MeetIsLeast`. `BoundsSound` shows that a result between two bounds is
in the range made of them whether they overflowed or not; a sum or difference lies
between the bounds its operation computes. A product or quotient of two values lies between
the least and the greatest of the four at the corners (`ProductBetween`,
`QuotientBetween`, each moving one operand at a time to an end of its range), which is
what `Hull` takes; `HullGrows` compares two hulls for `Monotone`. The quotient by a
range with both signs is bounded by the magnitude of the dividend instead. For
`CastsAreSound`, truncation and sign extension are the identity on narrow words, and zero
extension adds the same to each of one sign, so that the bounds keep their order.

The interprocedural analysis. `IInv` has a part for every activation (`FrameInv`) and one for
the recorded results (`GoodRecords`); it is kept step by step: of an activation by
`TakeStep`, `MergeStep`, `EnterStep`, `AfterStep`, `CallingStep` and `LeaveStep`, which the
actions share. `NewsArrives` is not inductive as it stands. It takes `Kept`: while
predecessors are merged, the results still hold what the block's entry and exit were before
the visit, so that a block that is skipped knows what was merged (its entry is the old
one), and behind the last instruction the results hold the state, so that a block left
without news may forget its old exit. It takes that the blocks in `inList` are on the work list,
as a successor that is in it is not added. It takes that all activations but the innermost are
`Calling`: the call is finished by another activation's end, and writes the instruction's
state. And it takes `OnePlace`: what is recorded under an instruction is no other block's
exit. An activation without work is `Settled`, and a summary, which a call writes into
results it may not own, is under the key of a function and unsettles nothing
(`SummarySettled`). For types, a failed operation is a value, `Fault`, of a `Draft`; a draft
without one is a `State` (`SoundDraft`), and a phi instruction that finds one among its operands
leaves it in the state, where the step sees it (`AppliedIs`): what was asked for is not
overwritten (`OperandsStay`), unless by the instruction itself, which then was a state's.
The recursive functions of the model (`OperandStates`, `WithSuccessors`) are functions on
`0..n`: `Recursion` shows that there is a function with the equations, by `UpTo`, the induction
over an interval as a fact of sets.

`FactsGrow`. Results replace others at the end of an activation, which copied them when it began;
what was recorded meanwhile must not be lost. The argument is that nobody else records
under its pair of context and function. The activations of the stack are linked by calls
(`Linked`), so by `NoRecursion` no function is on it twice (`ChainApart`, `StackApart`). `GrowInv` says further
that each activation `Remembers` what is recorded of its own pair, and that the state
being merged includes the entry it started from. A step of an activation keeps what it
knew (`Carries`), and every action leaves the record `Grown`.

`InRange`. Three invariants on top of `IInv`, each about fewer programs than the one before:

- What a program does, apart from any run: `Reached` is the least set of points, with the
  arguments of their activation and the values it has, that has the beginning of every
  function with all arguments and is closed under the program's steps and under the
  returns from activations a call leads to. Recursion over runs is not needed.
- `SoundInv`, of analyses. `Effect` says of an instruction between two states that from
  values its first state allows, every step leads to values the second allows, and
  arguments it passes are allowed by what is recorded of the callee. `SoundRecord` asks it of
  every instruction, and that arguments and returns are passed along. A record is sound when nobody is
  analysing its pair; an activation is `SoundFrame`, sound for the blocks that were gone through with
  the entry they now have, and for the one being visited up to where the visit is; a
  caller is `Waiting` with the operands its callee was told of. `EffectGrows`: since records
  only grow, what another function's analysis does cannot make a sound one unsound, which is where
  `FactsGrow` is used. The operations enter by `OperationSound`, which unlike `ArithmeticSound` is
  about all ranges, with bounds in the wrong order too, and by `OutcomeHolds`; `Honest`
  states know nothing false of constants, of which a phi instruction may leave the range
  in a state.
- `RecordHolds` puts the two together: if a record is sound and `Settled` (which `NewsArrives`
  gives), every reached point whose arguments it was told of has values its state allows. The
  set of points of which this holds is closed, so `Reached` is inside it.
- `RunInv`, of the running program: there is a sequence of reached points that the activations
  of the run follow, each called with what the one below it passes, and with arguments that
  were recorded (`Tracks`). At the main function `Rooted` gives a record; a call keeps it by
  `Effect`, a return by the closure of `Reached`. `Reported` says that what `Listed`
  asks for is in `unsafePtr`; with `RangesSound` a negative index is in a range that is
  unknown or reaches below zero, so that `NegativesListed` follows.

The searches. `Reach` is the intersection of the closed sets with the source, so that no
induction over paths is needed: what a search has visited is inside it because `Reach`
is closed itself (`ReachClosed`; `FollowsNeighbors` says that what the search follows leads
to the neighbors the reference has), and at the end the visited nodes are a closed set with
the source, which `Reach` is inside of (`ReachLeast`). `SearchInv` is inductive as it stands: `Covered` is
the loop invariant that makes the visited set closed once nothing is pending,
`Justified` the one that keeps it inside. The lemmas about queues say what is in a
sequence after one element is taken off its front or its end and others are appended.
`SearchSpec` takes the steps `CallGraph` takes for each of its searches.

The call graph. `CallInv` says of each query what `SearchInv` says of a search. For the
closure over the boundary, what was collected is what the functions no longer to do
reach. For paths, `NoneLost`: as long as none was found, every simple walk
from the function asked of to the one sought agrees with the activations up to one that has
yet to begin, or whose next function on the walk is in what it has `left` to try; each of
`Descend`, `TryCallee`, `GiveUp` and `GoBack` keeps it. At the end no activation is left, so
there is no such walk, and a function that can be reached is reached by one
(`ReachedByWalk`: what simple walks reach is closed, as a walk that meets itself can be cut
short).

The warnings. `IInv` of `CriticalSectionsProofs` says that the counter is the number of
functions warned of, that these have something to be warned of, and that every function that
has is among them or `Pending`: not looked at yet, or with an operation that is not.
`HomeIsUnique` is needed because a warning is recorded for the function an
instruction is found in. At the end nothing is pending.

The sections. `HeldIsInSection` is not inductive: it says nothing of the instructions
between the lock and here. `ActInv` says of every activation, not only of the innermost,
that each lock it holds was taken at a place before the one it has come to
and is released at a later one, the next call of its kind, which every way from here goes to
(`HeldInside`; `Releases` gives the set of blocks of these ways), and, without
branches, that every lock taken before and released later is held (`InsideHeld`). `Stepped`
keeps it over one instruction, `Branched` over a branch: the target is in the set of
blocks, and no block of the set is laid out behind the unlock's (`ReleasedBehind`: the last
of the set could not go anywhere). `PairFound` shows that `computeCSInFunc` finds just this
unlock. `SectionsInv` says that the map holds what was found in the functions looked at, in
whatever order, and `TreeFound` that the nodes a section accesses are marked once its lock was
looked into, and that the lock's tree is that of one of them; with one tree, it is the tree of
all (`AccessIsKnown`).

The trees. Neither property says anything before the end, so the invariant says what every
stage has done. `InOrder`: the functions waiting are the tail of the order that is left, so
what is not waiting is finished. `Laid`: the edges that the stages of a function add are there
once it had its turn, and those out of a callee's written nodes if the callee was connected
before. `Justified`: every `PARAMETER_IN` edge is of a kind that some function calls for, and of
that function; without it a tag could come from anywhere. `Seen`: of a function whose
accesses were computed, the tags are exact already, which needs that edges added later (by
`ReconnectedEdges`) change nothing that is reached. `ReachedIsLeast` shows that the
search returns the least set that contains the node and is closed under the edges, on which the
halves of `TagsExact` rest: along `Holders`, the least set closed under passing on, every
holder is reached (`HoldersAreReached`), and the set of the holders' nodes is closed under the
edges, so that nothing else is (`OnlyHoldersAreReached`). `FirstLevels` and `FirstFields` say which
nodes a tree has as far down as addresses are found for parameters, and that the addresses of
a field are those the function takes of what the parameter points to.

Only model-checked: `InRange` and `NegativeListed` for programs with the four operations above;
what the stubs of a lock copy (`HeldIsCopied`, `NothingFromPrivate`); and `Termination` and
`Answers`: liveness under fairness is out of the prover's reach, as are ENABLED, induction over
data and RECURSIVE operators. The three violated properties are shown by TLC alone.

## 6. What is left

Worth doing next, most important first:

1. `RangesSound` for signed quotients of dividends that cannot be the least word and for
   truncations that cut nothing off: a condition on the ranges found, not on the program.
2. Theorems about what `SyncStub` copies: the walk as the least set closed under following, as for the searches.
3. Trees of return values and of globals in `ParameterTrees`, and its edges between aliases.
4. The walk over the post-dominator tree in `ControlDependencyGraph.cpp`, against the
   definition of control dependence.

Not modelled, and why:

- SVF with CUDD (`program-dependence-graph/SVF`), most of the lines of the repository, is a
  vendored pointer analysis and BDD library. NesCheck's alias answers are inputs of the model.
- `NesCheckFast.cpp` and the other copies of the pass, of the value range analysis's
  support code and of LLVM's own passes: earlier or third-party versions of what is modelled.
- `DataDependencyGraph.cpp` and `ControlDependencyGraph.cpp`: they add an edge per answer of LLVM's
  memory dependence, alias and post-dominator analyses and keep no state.
- Which structure types are shared, the inference of annotations and the generation
  of the IDL text (`SharedDataAnalysis.cpp` but for its closure, `DataAccessAnalysis.cpp` but for its
  tags): matching of names and types, read from files, into text.
- Reading and writing of boundary files, debug information, drawing, statistics and printing.
