----------------------------- MODULE ValueRange -----------------------------
(***************************************************************************)
(* The value range pass: valueRangeAnalysis of ValueRange.cpp runs the     *)
(* interprocedural analysis from the main function and lists the accesses  *)
(* that may be out of range.  The analysed program is then run, from the   *)
(* same main function, so that what was found can be compared with what    *)
(* happens.                                                                *)
(*                                                                         *)
(* An access is a GetElementPtr instruction.  Its operand is the index the *)
(* pass looks at, a word as wide as a pointer; Object says what it indexes *)
(* and of how many elements or fields.                                     *)
(***************************************************************************)
EXTENDS Dataflow

CONSTANTS Object,     \* per access, [type, size]
          MaxDepth    \* activations of the program that is run

ASSUME ObjectAssumption ==
  \A v \in DOMAIN Object : Object[v].type \in {"array", "struct", "other"} /\ Object[v].size \in Nat

VARIABLES unsafePtr,  \* what the pass lists
          run         \* activations of the analysed program, the innermost last
allVars == <<vars, unsafePtr, run>>

Points(f) == UNION {{b} \X DOMAIN Code(f, b) : b \in Blocks(f)}
InstructionAt(f, at) == Code(f, at[1])[at[2]]

(* getIncomingState: results are keyed by the block at its first instruction,
   else by the instruction before. *)
PointKey(f, at) == IF at[2] = 1 THEN at[1] ELSE Code(f, at[1])[at[2] - 1].id
getIncomingState(p, at) == Get(Get(allResults, p, NoResults), PointKey(p[2], at), Empty)

-----------------------------------------------------------------------------
(* What makes the pass list an access: of an array, a range that may be
   negative or is not known; of a structure also a constant that is no field.
   The byte counts of an index in range never exceed those of the object. *)
(* A faulty variant: the upper bound alone is looked at. *)
ListedForUpper(index, r) ==
  index \notin ConstantInt /\ (r \in {Unknown, Infinity} \/ r.rvalue < 0)
ListedForArray(index, r) ==
  index \notin ConstantInt /\ (r \in {Unknown, Infinity} \/ r.lvalue < 0 \/ r.rvalue < 0)
ListedForStruct(index, r, size) ==
  IF index \in ConstantInt THEN IntValue[index] \notin 0..(size - 1)
  ELSE r \in {Unknown, Infinity}
Listed(i, s) ==
  LET index == i.args[1]
      r == Get(s, index, Unknown)
  IN CASE Object[i.id].type = "array"  -> ListedForArray(index, r)
       [] Object[i.id].type = "struct" -> ListedForStruct(index, r, Object[i.id].size)
       [] OTHER                        -> FALSE

(* Every access of every function in every context it was analysed in. *)
valueRangeAnalysis ==
  /\ Analysed
  /\ unsafePtr' =
       {i.id : i \in UNION {
          {InstructionAt(p[2], at) : at \in
             {q \in Points(p[2]) :
                LET i == InstructionAt(p[2], q)
                IN /\ i.op = "access" /\ i.id \in DOMAIN allResults[p]
                   /\ Listed(i, getIncomingState(p, q))}} : p \in DOMAIN allResults}}
  /\ phase' = "reported"
  /\ UNCHANGED <<mod, allResults, contextWork, callers, stack, run>>

-----------------------------------------------------------------------------
(* The program as it runs. *)
Activation(context, f, env) ==
  [context |-> context, fn |-> f, bb |-> Head(Fn(f).blocks), pc |-> 1, prev |-> NoBlock, env |-> env]
Now == run[Len(run)]
WithNow(a) == [run EXCEPT ![Len(run)] = a]
Ahead == InstructionAt(Now.fn, <<Now.bb, Now.pc>>)
Of(a, v) == IF v \in ConstantInt THEN IntValue[v] ELSE a.env[v]

(* What an instruction may compute. *)
Outcomes(a, i) ==
  CASE i.op \in BinaryOp -> Result(i.op, Of(a, i.args[1]), Of(a, i.args[2]))
    [] i.op = "trunc"    -> {Fold("trunc", Of(a, i.args[1]))}
    [] i.op \in {"sext", "zext"} -> {Fold(i.op, x) : x \in {Of(a, i.args[1])} \cap Narrow}
    [] i.op = "phi"      -> {Of(a, i.args[k]) : k \in {j \in DOMAIN i.args : i.from[j] = a.prev}}
    [] OTHER             -> Word
Step(a) == [a EXCEPT !.pc = @ + 1]
Assign(a, v, x) == [a EXCEPT !.env = Set(@, v, x)]

Start ==
  /\ phase = "reported"
  /\ \E arguments \in [Range(Params(mod.main)) -> Word] :
       run' = <<Activation([k \in 1..ContextSize |-> NoSite], mod.main, arguments)>>
  /\ phase' = "running"
  /\ UNCHANGED <<mod, allResults, contextWork, callers, stack, unsafePtr>>

(* Every operand the next instruction takes has a value: LLVM takes no program
   in which a use can be reached around its definition. *)
Operands(a, i) == IF i.op = "phi" THEN {i.args[k] : k \in {j \in DOMAIN i.args : i.from[j] = a.prev}}
                  ELSE Range(i.args)
Running == /\ phase = "running" /\ run # << >>
           /\ Operands(Now, Ahead) \subseteq ConstantInt \cup DOMAIN Now.env
Moving == UNCHANGED <<vars, unsafePtr>>

Compute == /\ Running /\ Ahead.op \notin {"call", "br", "ret", "access"}
           /\ \E x \in Outcomes(Now, Ahead) : run' = WithNow(Step(Assign(Now, Ahead.id, x)))
           /\ Moving
Access == /\ Running /\ Ahead.op = "access"
          /\ run' = WithNow(Step(Now))
          /\ Moving
Branch(b) == /\ Running /\ Ahead.op = "br" /\ b \in Succs(Now.fn, Now.bb)
             /\ run' = WithNow([Now EXCEPT !.prev = Now.bb, !.bb = b, !.pc = 1])
             /\ Moving
Invoke ==
  /\ Running /\ Ahead.op = "call" /\ Len(run) < MaxDepth
  /\ LET params == Params(Ahead.callee)
         position(v) == CHOOSE k \in DOMAIN params : params[k] = v
         env == [v \in Range(params) |-> Of(Now, Ahead.args[position(v)])]
     IN run' = Append(run, Activation(NewContext(Now.context, Ahead.id), Ahead.callee, env))
  /\ Moving
Return ==
  /\ Running /\ Ahead.op = "ret" /\ Len(run) > 1
  /\ LET a == run[Len(run) - 1]
         site == InstructionAt(a.fn, <<a.bb, a.pc>>)
         b == IF Ahead.args = << >> THEN [a EXCEPT !.env = Without(@, site.id)]
              ELSE Assign(a, site.id, Of(Now, Ahead.args[1]))
     IN run' = Append(SubSeq(run, 1, Len(run) - 2), Step(b))
  /\ Moving
(* The main function returns, or the program stops anywhere. *)
Stop == phase = "running" /\ run # << >> /\ run' = << >> /\ Moving

VInit == Init(Modules) /\ unsafePtr = {} /\ run = << >>
Analyse == Next /\ UNCHANGED <<unsafePtr, run>>
Execute == Start \/ Compute \/ Access \/ (\E b \in Block : Branch(b)) \/ Invoke \/ Return \/ Stop
Over == phase = "crashed" \/ (phase = "running" /\ run = << >>)
Terminating == Over /\ UNCHANGED allVars

VNext == Analyse \/ valueRangeAnalysis \/ Execute \/ Terminating
VSpec == VInit /\ [][VNext]_allVars
(* The pass is sequential and waits for nothing. *)
FairSpec == VSpec /\ WF_allVars(Analyse \/ valueRangeAnalysis)

-----------------------------------------------------------------------------
(* Every value the running program holds lies in the range found for it at
   that point, in the context of the calls that led there. *)
RangesHold ==
  \A k \in DOMAIN run :
    LET a == run[k]
        s == getIncomingState(<<a.context, a.fn>>, <<a.bb, a.pc>>)
    IN \A v \in DOMAIN a.env : a.env[v] \in Concrete(Get(s, v, Unknown), Word)
InRange == Plain => RangesHold

(* Every access of an array below its start was listed. *)
NegativeListed ==
  (/\ Plain /\ Running
   /\ Ahead.op = "access" /\ Object[Ahead.id].type = "array"
   /\ Ahead.args[1] \notin ConstantInt /\ Of(Now, Ahead.args[1]) < 0)
  => Ahead.id \in unsafePtr

(* "If the declared size is less than the access range, we deem this seq
   pointer as unsafe": of an array and a range with bounds, both sizes counted
   in elements.  The access range ends at the upper bound of the index, as in
   the comparison the code makes for a constant index (487) and in what it
   prints for a range. *)
LongListed ==
  phase = "reported" =>
    \A p \in DOMAIN allResults : \A at \in Points(p[2]) :
      LET i == InstructionAt(p[2], at)
          r == Get(getIncomingState(p, at), i.args[1], Unknown)
      IN (/\ i.op = "access" /\ isConstant(r)
          /\ Object[i.id].type = "array" /\ Object[i.id].size < r.rvalue)
         => i.id \in unsafePtr

(* The analysis ends: blocks of loops, and callers and callees, do not bring
   each other back for ever. *)
Termination == <>(phase # "analysis")
=============================================================================
