------------------------------ MODULE Dataflow ------------------------------
(***************************************************************************)
(* The interprocedural worklist of ValueRange/DataflowAnalysis.h, with the *)
(* transfer function of ValueRange.cpp.  A function is analysed per        *)
(* context, the last ContextSize call sites.  A call that brings news to   *)
(* its callee's arguments analyses the callee at once, by recursion: the   *)
(* variable stack holds a frame per activation of computeForwardDataflow,  *)
(* each with its own copy of the results of its function.                  *)
(*                                                                         *)
(* A DenseMap is a function from the keys it has; reading it with []       *)
(* inserts the default, and the comparisons of the code see that.  The     *)
(* results of a function are keyed by instructions, by blocks (the state   *)
(* at their entry) and by the function itself (its arguments' and its      *)
(* return value's ranges).                                                 *)
(***************************************************************************)
EXTENDS RangeDomain, Sequences, SequencesExt

CONSTANTS
  Value,            \* instructions, arguments and integer constants
  ConstantInt,      \* the constants among them,
  IntValue,         \* and what they are
  FunctionName, Block,
  NoBlock, NoSite,  \* null pointers
  ContextSize,      \* 2 in the code
  Modules           \* the programs considered

(* A function's blocks are listed in reverse post-order; a block's last
   instruction is its terminator.  from says where a phi's operands come from.
   Casts to floating point and pointers, whose bounds are null, are left out. *)
WordCast == CastOp \ {"itofp", "inttoptr"}
Opcode == BinaryOp \cup WordCast \cup {"phi", "call", "access", "opaque", "br", "ret"}
Instruction == [id : Value, op : Opcode, args : Seq(Value), from : Seq(Block),
                callee : FunctionName]
Function == [params : Seq(Value), blocks : Seq(Block), succ : [Block -> Seq(Block)],
             code : [Block -> Seq(Instruction)]]

ASSUME ConstantAssumption ==
  ConstantInt \subseteq Value /\ IntValue \in [ConstantInt -> Word]
ASSUME KeyAssumption ==
  /\ Value \cap Block = {} /\ Value \cap FunctionName = {} /\ Block \cap FunctionName = {}
  /\ NoBlock \notin Block /\ NoSite \notin Value
ASSUME ContextAssumption == ContextSize \in Nat

(* What LLVM lets be a program: control stays among the blocks of a function,
   which has one, branches or returns at the end of a block and nowhere else,
   an instruction is at one place only, is no constant, and has the operands it
   takes.  Of a call these are the arguments that its callee has parameters for. *)
WellFormed(m) ==
  /\ DOMAIN m.functions \subseteq FunctionName /\ m.main \in DOMAIN m.functions
  /\ \A f \in DOMAIN m.functions :
       LET F == m.functions[f]
           In == Range(F.blocks)
       IN /\ F \in Function /\ F.blocks # << >> /\ Range(F.params) \cap ConstantInt = {}
          /\ \A b \in In : F.code[b] # << >> /\ Range(F.succ[b]) \subseteq In
          /\ \A b \in In : \A j \in DOMAIN F.code[b] :
               F.code[b][j].op \in {"br", "ret"} <=> j = Len(F.code[b])
          /\ \A b, c \in In : \A j \in DOMAIN F.code[b], k \in DOMAIN F.code[c] :
               F.code[b][j].id = F.code[c][k].id => b = c /\ j = k
          /\ \A b \in In : \A i \in Range(F.code[b]) :
               /\ i.id \notin ConstantInt
               /\ i.op \in BinaryOp => Len(i.args) = 2
               /\ i.op \in WordCast \cup {"access"} => Len(i.args) = 1
               /\ i.op = "call" => /\ i.callee \in DOMAIN m.functions
                                  /\ Len(i.args) = Len(m.functions[i.callee].params)
ASSUME ModuleAssumption == \A m \in Modules : WellFormed(m)

VARIABLES
  mod,          \* the program: its functions, and the one it starts with
  allResults,   \* the results per <<context, function>>
  contextWork, callers,
  stack,        \* activations, the innermost last
  phase
vars == <<mod, allResults, contextWork, callers, stack, phase>>

Fn(f)      == mod.functions[f]
Blocks(f)  == Range(Fn(f).blocks)
Code(f, b) == Fn(f).code[b]
Exit(f, b) == Code(f, b)[Len(Code(f, b))]
Succs(f, b) == Range(Fn(f).succ[b])
Preds(f, b) == {p \in Blocks(f) : b \in Succs(f, p)}
Instructions(f) == UNION {Range(Code(f, b)) : b \in Blocks(f)}

-----------------------------------------------------------------------------
(* Maps from keys. *)
Empty     == [k \in {} |-> Unknown]
NoResults == [k \in {} |-> Empty]
Set(s, k, r) == [x \in DOMAIN s \cup {k} |-> IF x = k THEN r ELSE s[x]]
Get(s, k, default) == IF k \in DOMAIN s THEN s[k] ELSE default
Touch(s, k, default) == Set(s, k, Get(s, k, default))

(* mergeInState: a key of both is met. *)
Merge(s, t) ==
  [x \in DOMAIN s \cup DOMAIN t |->
     IF x \in DOMAIN s \cap DOMAIN t THEN Join(s[x], t[x])
     ELSE IF x \in DOMAIN s THEN s[x] ELSE t[x]]

(* getRangeFor: a constant is its own range, other operands are looked up. *)
getRangeFor(v, s) == IF v \in ConstantInt THEN makeRange(IntValue[v], IntValue[v])
                     ELSE Get(s, v, Unknown)
Looked(v, s) == IF v \in ConstantInt THEN s ELSE Touch(s, v, Unknown)

(* RangeTransfer::operator() for an instruction: the range it gives and the
   keys it looked up. *)
Transferred(i, s) ==
  CASE i.op \in BinaryOp -> evaluateBinOP(i.op, getRangeFor(i.args[1], s), getRangeFor(i.args[2], s))
    [] i.op \in WordCast   -> evaluateCast(i.op, getRangeFor(i.args[1], s))
    [] OTHER             -> Infinity
LookedUp(i, s) ==
  CASE i.op \in BinaryOp -> Looked(i.args[2], Looked(i.args[1], s))
    [] i.op \in WordCast   -> Looked(i.args[1], s)
    [] OTHER             -> s
transfer(i, s) == Set(LookedUp(i, s), i.id, Transferred(i, s))

(* An operand that has no range yet is transferred where it is used: a
   constant, an argument, or an instruction of a block not analysed yet. *)
transferOperand(f, v, s) ==
  IF v \in ConstantInt THEN Set(s, v, getRangeFor(v, s))
  ELSE IF \E i \in Instructions(f) : i.id = v
  THEN transfer(CHOOSE i \in Instructions(f) : i.id = v, s)
  ELSE Set(s, v, Infinity)
WithOperand(f, v, s) == IF v \in DOMAIN s THEN s ELSE transferOperand(f, v, s)

(* The states while the operands of a phi instruction or a call are asked for
   in turn. *)
OperandStates(f, args, s) ==
  LET w[k \in 0..Len(args)] == IF k = 0 THEN s ELSE WithOperand(f, args[k], w[k - 1])
  IN w
meetOverPHI(f, i, s) ==
  LET w == OperandStates(f, i.args, s)
      phiValue[k \in 0..Len(i.args)] ==
        IF k = 0 THEN Unknown ELSE Join(phiValue[k - 1], w[k][i.args[k]])
  IN Set(w[Len(i.args)], i.id, phiValue[Len(i.args)])

applyTransfer(f, i, s) == IF i.op = "phi" THEN meetOverPHI(f, i, s) ELSE transfer(i, s)

-----------------------------------------------------------------------------
(* Activations of computeForwardDataflow.  work holds the blocks to visit;
   WorkList::add does not enter a block into inList, so a block may be on the
   list several times.  bb is the block being visited, toMerge the predecessors
   still to be merged into state, pc the next instruction, 0 while merging. *)
Frame(context, f, results) ==
  [ context |-> context, fn |-> f,
    results |-> IF f \in DOMAIN results THEN results
                ELSE [k \in DOMAIN results \cup {i.id : i \in Instructions(f)} |->
                        Get(results, k, Empty)],
    work |-> Fn(f).blocks, inList |-> Blocks(f),
    bb |-> NoBlock, toMerge |-> {}, pc |-> 0, state |-> Empty,
    oldEntryState |-> Empty, oldExitState |-> Empty ]

Top == stack[Len(stack)]
WithTop(fr) == [stack EXCEPT ![Len(stack)] = fr]
active == {<<stack[k].context, stack[k].fn>> : k \in DOMAIN stack}

Init(programs) ==
  /\ mod \in programs
  /\ allResults = [p \in {} |-> Empty]
  /\ contextWork = <<<<[k \in 1..ContextSize |-> NoSite], mod.main>>>>
  /\ callers = {}
  /\ stack = << >>
  /\ phase = "analysis"

(* The outer loop takes the next function; with its context's results. *)
TakeContext ==
  /\ phase = "analysis" /\ stack = << >> /\ contextWork # << >>
  /\ LET p == Head(contextWork)
         old == Get(allResults, p, NoResults)
     IN /\ allResults' = Set(allResults, p, old)
        /\ stack' = <<Frame(p[1], p[2], old)>>
  /\ contextWork' = Tail(contextWork)
  /\ UNCHANGED <<mod, callers, phase>>

(* A block is taken off the list; merging starts from its own entry state. *)
TakeBlock ==
  /\ phase = "analysis" /\ stack # << >> /\ Top.bb = NoBlock /\ Top.work # << >>
  /\ LET b == Head(Top.work)
         x == Exit(Top.fn, b).id
         r == Touch(Touch(Top.results, b, Empty), x, Empty)
     IN stack' = WithTop([Top EXCEPT !.work = Tail(@), !.inList = @ \ {b},
                                     !.bb = b, !.toMerge = Preds(Top.fn, b), !.pc = 0,
                                     !.results = r, !.state = r[b],
                                     !.oldEntryState = r[b], !.oldExitState = r[x]])
  /\ UNCHANGED <<mod, allResults, contextWork, callers, phase>>

(* mergeStateFromPredecessors, in the order of LLVM's use lists: any. *)
MergePredecessor(p) ==
  /\ phase = "analysis" /\ stack # << >> /\ p \in Top.toMerge
  /\ stack' = WithTop([Top EXCEPT
       !.toMerge = @ \ {p},
       !.state = Merge(@, Get(Top.results, Exit(Top.fn, p).id, Empty))])
  /\ UNCHANGED <<mod, allResults, contextWork, callers, phase>>

(* With the arguments merged the entry state is complete.  If it is the old
   one, and not empty, the block is skipped. *)
Entered(fr) == Merge(fr.state, Get(fr.results, fr.fn, Empty))
SameEntry(fr) == Entered(fr) = fr.oldEntryState /\ DOMAIN Entered(fr) # {}
EnterBlock ==
  /\ phase = "analysis" /\ stack # << >>
  /\ Top.bb # NoBlock /\ Top.pc = 0 /\ Top.toMerge = {}
  /\ LET r == Touch(Top.results, Top.fn, Empty)
         s == Entered(Top)
     IN stack' = WithTop(
          IF SameEntry(Top) THEN [Top EXCEPT !.bb = NoBlock, !.results = r]
          ELSE [Top EXCEPT !.pc = 1, !.state = s, !.results = Set(r, Top.bb, s)])
  /\ UNCHANGED <<mod, allResults, contextWork, callers, phase>>

AtInstruction == /\ phase = "analysis" /\ stack # << >> /\ Top.bb # NoBlock
                 /\ Top.pc \in 1..Len(Code(Top.fn, Top.bb))
Current == Code(Top.fn, Top.bb)[Top.pc]

Faulty(s) == \E k \in DOMAIN s : s[k] = Fault
(* The state after an instruction is recorded under it. *)
After(fr, i, s) == [fr EXCEPT !.state = s, !.results = Set(@, i.id, s), !.pc = @ + 1]

Transfer ==
  /\ AtInstruction /\ Current.op # "call"
  /\ LET s == applyTransfer(Top.fn, Current, Top.state)
     IN IF Faulty(s) THEN phase' = "crashed" /\ stack' = stack
        ELSE phase' = phase /\ stack' = WithTop(After(Top, Current, s))
  /\ UNCHANGED <<mod, allResults, contextWork, callers>>

(* analyzeCall.  Operands without a range are transferred, as those of a phi
   instruction are; as definitions come before their uses, they are constants
   or parameters of the main function.  The arguments are met
   with what the callee was called with before in this context; news, or a
   callee without summary, is analysed first, unless the callee is being
   analysed already. *)
NewContext(context, site) == IF ContextSize = 0 THEN << >> ELSE Append(Tail(context), site)
ToCall(fr, i) == <<NewContext(fr.context, i.id), i.callee>>
Summary(all, p) == Get(Get(all, p, NoResults), p[2], Empty)
WithSummary(all, p, s) == Set(all, p, Set(Get(all, p, NoResults), p[2], s))

Params(f) == Fn(f).params
(* A faulty variant: the arguments of this call replace those of earlier ones. *)
ArgumentsOfThis(i, s, summary) ==
  LET position(v) == CHOOSE k \in DOMAIN Params(i.callee) : Params(i.callee)[k] = v
  IN [v \in Range(Params(i.callee)) |-> s[i.args[position(v)]]]
Arguments(i, s, summary) ==
  LET position(v) == CHOOSE k \in DOMAIN Params(i.callee) : Params(i.callee)[k] = v
  IN [v \in Range(Params(i.callee)) |->
        Join(s[i.args[position(v)]], Get(summary, v, Unknown))]
WithArguments(summary, a) ==
  [v \in DOMAIN summary \cup DOMAIN a |-> IF v \in DOMAIN a THEN a[v] ELSE summary[v]]
(* A faulty variant: a callee is analysed at its first call only. *)
NeedsSummary(summary, a) == DOMAIN summary = {}
NeedsUpdate(summary, a) ==
  DOMAIN summary = {} \/ \E v \in DOMAIN a : a[v] # Get(summary, v, Unknown)

(* What a call does once the callee has been analysed, or was not: the call's
   range is that of the callee's return value so far. *)
Complete(fr, i, all) ==
  LET p == ToCall(fr, i)
      returned == Get(Summary(all, p), i.callee, Unknown)
  IN [ frame |-> After(fr, i, Set(fr.state, i.id, returned)),
       all |-> WithSummary(all, p, Touch(Summary(all, p), i.callee, Unknown)),
       caller |-> <<p, <<fr.context, fr.fn>>>> ]

Call ==
  /\ AtInstruction /\ Current.op = "call"
  /\ LET i == Current
         p == ToCall(Top, i)
         s == OperandStates(Top.fn, i.args, Top.state)[Len(i.args)]
         summary == Summary(allResults, p)
         a == Arguments(i, s, summary)
         all == WithSummary(allResults, p, WithArguments(summary, a))
         fr == [Top EXCEPT !.state = s]
         c == Complete(fr, i, all)
     IN IF Faulty(s)
        THEN phase' = "crashed" /\ UNCHANGED <<allResults, stack, callers>>
        ELSE /\ phase' = phase
             /\ \/ /\ NeedsUpdate(summary, a) /\ p \notin active
                   /\ allResults' = all
                   /\ stack' = Append(WithTop(fr), Frame(p[1], p[2], all[p]))
                   /\ callers' = callers
                \/ /\ ~(NeedsUpdate(summary, a) /\ p \notin active)
                   /\ allResults' = c.all
                   /\ stack' = WithTop(c.frame)
                   /\ callers' = callers \cup {c.caller}
  /\ UNCHANGED <<mod, contextWork>>

(* The end of a block: if its exit state changed, its successors go onto the
   list, and a return's value is met with those returned before.  The operand
   is looked up only: a constant has no range unless something transferred it. *)
ReturnValue(i, s) == IF i.args = << >> THEN Unknown ELSE Get(s, i.args[1], Unknown)
WithReturn(fr, i) ==
  LET summary == Get(fr.results, fr.fn, Empty)
  IN Set(fr.results, fr.fn,
         Set(summary, fr.fn, Join(Get(summary, fr.fn, Unknown), ReturnValue(i, fr.state))))
(* WorkList::add; the successors are added in turn. *)
(* A faulty variant: blocks that were visited before are not visited again. *)
AddedUnseen(fr, work, b) ==
  IF b \in fr.inList \cup DOMAIN fr.results THEN work ELSE Append(work, b)
Added(fr, work, b) == IF b \in fr.inList THEN work ELSE Append(work, b)
WithSuccessors(fr) ==
  LET succ == Fn(fr.fn).succ[fr.bb]
      w[k \in 0..Len(succ)] == IF k = 0 THEN fr.work ELSE Added(fr, w[k - 1], succ[k])
  IN w[Len(succ)]

LeaveBlock ==
  /\ phase = "analysis" /\ stack # << >> /\ Top.bb # NoBlock
  /\ Top.pc = Len(Code(Top.fn, Top.bb)) + 1
  /\ LET last == Exit(Top.fn, Top.bb)
     IN stack' = WithTop(
          IF Top.state = Top.oldExitState THEN [Top EXCEPT !.bb = NoBlock]
          ELSE [Top EXCEPT !.bb = NoBlock, !.work = WithSuccessors(Top),
                           !.results = IF last.op = "ret" THEN WithReturn(Top, last) ELSE @])
  /\ UNCHANGED <<mod, allResults, contextWork, callers, phase>>

(* The end of computeForwardDataflow: results that differ from those recorded
   replace them, and those who called in this context go onto the outer list. *)
Finished == phase = "analysis" /\ stack # << >> /\ Top.bb = NoBlock /\ Top.work = << >>
Recorded == Set(allResults, <<Top.context, Top.fn>>, Top.results)
(* A faulty variant: the callers are told every time. *)
RecordedNever(fr) == FALSE
RecordedAlready(fr) == Get(allResults, <<fr.context, fr.fn>>, NoResults) = fr.results
Callers(p) == {c[2] : c \in {d \in callers : d[1] = p}}
QueueCallers ==
  LET p == <<Top.context, Top.fn>>
  IN IF RecordedAlready(Top) THEN contextWork' = contextWork
     ELSE \E order \in SetToSeqs(Callers(p)) : contextWork' = contextWork \o order

FinishContext ==
  /\ Finished /\ Len(stack) = 1
  /\ allResults' = Recorded
  /\ QueueCallers
  /\ stack' = << >>
  /\ UNCHANGED <<mod, callers, phase>>

FinishCall ==
  /\ Finished /\ Len(stack) > 1
  /\ LET fr == stack[Len(stack) - 1]
         c == Complete(fr, Code(fr.fn, fr.bb)[fr.pc], Recorded)
     IN /\ allResults' = c.all
        /\ stack' = Append(SubSeq(stack, 1, Len(stack) - 2), c.frame)
        /\ callers' = callers \cup {c.caller}
  /\ QueueCallers
  /\ UNCHANGED <<mod, phase>>

Analysed == phase = "analysis" /\ stack = << >> /\ contextWork = << >>

Next ==
  \/ TakeContext \/ TakeBlock \/ EnterBlock \/ Transfer \/ Call \/ LeaveBlock
  \/ FinishContext \/ FinishCall
  \/ \E p \in Block : MergePredecessor(p)
Spec == Init(Modules) /\ [][Next]_vars

-----------------------------------------------------------------------------
Keys == Value \cup Block \cup FunctionName
IsState(s) == DOMAIN s \subseteq Value \cup FunctionName /\ \A k \in DOMAIN s : s[k] \in RangeValue
AreResults(r) == DOMAIN r \subseteq Keys /\ \A k \in DOMAIN r : IsState(r[k])
IsFrame(fr) ==
  /\ fr.fn \in FunctionName /\ AreResults(fr.results)
  /\ Range(fr.work) \subseteq Blocks(fr.fn) /\ fr.inList \subseteq Range(fr.work)
  /\ fr.bb \in Blocks(fr.fn) \cup {NoBlock}
  /\ fr.bb # NoBlock => /\ fr.toMerge \subseteq Preds(fr.fn, fr.bb)
                        /\ fr.pc \in 0..(Len(Code(fr.fn, fr.bb)) + 1)
  /\ IsState(fr.state) /\ IsState(fr.oldEntryState) /\ IsState(fr.oldExitState)

TypeOK ==
  /\ \A p \in DOMAIN allResults : AreResults(allResults[p])
  /\ \A k \in DOMAIN stack : IsFrame(stack[k])
  /\ phase \in {"analysis", "crashed", "reported", "running"}

(* Every range of s is known of t, or more is. *)
Included(s, t) == \A k \in DOMAIN s : k \in DOMAIN t /\ Below(s[k], t[k])
Without(s, f) == [k \in DOMAIN s \ {f} |-> s[k]]
EntryState(r, b) == Get(r, b, Empty)
ExitState(r, f, b) == Get(r, Exit(f, b).id, Empty)

(* No news is forgotten.  What holds at the exit of a block holds at the entry
   of its successors, and what is known of arguments at the entry of every
   block, unless the block is still on the list.  Of the block being visited,
   successors know the exit before the visit, and its own entry is being put
   together. *)
Knows(fr, b) ==
  \/ b \in Range(fr.work)
  \/ LET entry == IF b = fr.bb /\ fr.pc = 0 THEN fr.state ELSE EntryState(fr.results, b)
         from  == IF b = fr.bb /\ fr.pc = 0 THEN Preds(fr.fn, b) \ fr.toMerge
                                            ELSE Preds(fr.fn, b)
     IN /\ \A p \in from :
             Included(IF p = fr.bb THEN fr.oldExitState ELSE ExitState(fr.results, fr.fn, p), entry)
        /\ (b = fr.bb /\ fr.pc = 0) \/ Included(Without(Get(fr.results, fr.fn, Empty), fr.fn), entry)
NewsArrives ==
  /\ \A k \in DOMAIN stack : \A b \in Blocks(stack[k].fn) : Knows(stack[k], b)
  /\ \A q \in DOMAIN allResults : \A b \in Blocks(q[2]) : \A p \in Preds(q[2], b) :
       Included(ExitState(allResults[q], q[2], p), EntryState(allResults[q], b))

(* What the analysis can be held to: no function calls itself, even by others,
   no constant is returned, and the main function has no parameters. *)
Calls(f, g) == \E i \in Instructions(f) : i.op = "call" /\ i.callee = g
NoRecursion ==
  \A S \in SUBSET DOMAIN mod.functions :
    S # {} => \E f \in S : \A g \in S : ~Calls(f, g)
Plain ==
  /\ NoRecursion
  /\ \A f \in DOMAIN mod.functions : \A i \in Instructions(f) :
       i.op = "ret" => Range(i.args) \cap ConstantInt = {}
  /\ Params(mod.main) = << >>

(* What is recorded of arguments, return values and block entries only grows,
   over all contexts and repeated analyses: nothing a caller said is lost when
   the results of an activation replace those recorded meanwhile. *)
FactsGrow ==
  [][Plain => \A p \in DOMAIN allResults :
       \A k \in ({p[2]} \cup Blocks(p[2])) \cap DOMAIN allResults[p] :
         Included(allResults[p][k], allResults'[p][k])]_vars

(* "Updating the results for this (function,context) means that all callers
   must be updated as well": when the analysis ends, what calls return is what
   their callees were found to return. *)
CallersUpdated ==
  Analysed =>
    \A p \in DOMAIN allResults : \A i \in {j \in Instructions(p[2]) : j.op = "call"} :
      LET callee == <<NewContext(p[1], i.id), i.callee>>
      IN callee \in DOMAIN allResults =>
           Below(Get(Summary(allResults, callee), i.callee, Unknown),
                 Get(Get(allResults[p], i.id, Empty), i.id, Unknown))
=============================================================================
