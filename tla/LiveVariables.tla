--------------------------- MODULE LiveVariables ---------------------------
(***************************************************************************)
(* The live variable analysis of StaticAnalysis/LiveRange: the backward    *)
(* worklist of Dataflow.h and the transfer function, driver and statistic  *)
(* of LiveVariable.cpp.  The forward half of Dataflow.h is never used: the *)
(* only client constructs it with forward = false.                         *)
(*                                                                         *)
(* A bit vector is the set of values whose bit is set.  Every function of  *)
(* the module has blocks of its own, so maps from blocks are total         *)
(* functions that start empty, and a fresh map per function is the old one *)
(* with fresh entries for the function's blocks.                           *)
(***************************************************************************)
EXTENDS Integers, Sequences, FiniteSets, Functions

CONSTANTS
  Block, Var,  \* basic blocks; instructions and arguments that are used
  None,        \* the name of an instruction nothing uses
  Modules,     \* the programs considered
  DumpSize,    \* length of live_dump: 500 in the code
  Filled,      \* how many of its elements are set to 0: 50 in the code
  Garbage      \* what an element that nobody has set may hold

(* A phi instruction has, per incoming block, a value; its other fields are
   those of any instruction. *)
Instruction == [op: {"phi", "terminator", "other"}, def: Var \cup {None},
                uses: SUBSET Var, incoming: SUBSET (Block \X Var)]
Function == [blocks: Seq(Block), succ: [Block -> Seq(Block)],
             code: [Block -> Seq(Instruction)]]

Blocks(f) == Range(f.blocks)

(* Edges and phi operands stay in the function; no block is without a terminator. *)
WellFormed(f) ==
  \A b \in Blocks(f) :
    /\ f.code[b] # << >>
    /\ Range(f.succ[b]) \subseteq Blocks(f)
    /\ \A k \in 1..Len(f.code[b]) : f.code[b][k].incoming \subseteq Blocks(f) \X Var

ASSUME ModulesAssumption ==
  \A m \in Modules :
    /\ m \in Seq(Function)
    /\ \A i \in 1..Len(m) : WellFormed(m[i])
    /\ \A i, j \in 1..Len(m) : Blocks(m[i]) \cap Blocks(m[j]) # {} => i = j
ASSUME VarAssumption == IsFiniteSet(Var)
ASSUME DumpAssumption == DumpSize \in Nat /\ Filled \in 0..DumpSize /\ Garbage \subseteq Int

VARIABLES
  mod,                      \* the program
  cur,                      \* the function evalFunc was called for last
  phase,
  in, out,                  \* the facts at a block's start and end
  neighbourSpecificValues,  \* per block, the phi operands that come from it
  visited, worklist,
  at,                       \* <<block, instruction>> the statistic is at
  live_dump, n
vars == <<mod, cur, phase, in, out, neighbourSpecificValues, visited, worklist,
          at, live_dump, n>>
dataflow == <<in, out, neighbourSpecificValues, visited>>

fn == mod[cur]
Code(b) == fn.code[b]

-----------------------------------------------------------------------------
(* Faulty variants: one forgets definitions, one asks the successors' phi
   operands instead of the block's own, one pushes predecessors whether or not
   there is news for them, two push too few, one counts phi instructions, one
   counts instructions from 0. *)
LiveWithDef(code, i, o) ==
  o \cup {v \in Var : \E k \in i..Len(code) : code[k].op # "phi" /\ v \in code[k].uses}
MeetTheirs(b) ==
  UNION {in[s] \cup neighbourSpecificValues[s] : s \in Range(fn.succ[b])}
AwaitsAlways(p, changed, seen) == TRUE
AwaitsNews(p, changed, seen) == changed
AwaitsFirst(p, changed, seen) == p \notin seen
CountsAll(inst) == TRUE
NextFromZero == IF at[2] < Len(Code(fn.blocks[at[1]])) - 1 THEN <<at[1], at[2] + 1>>
                                                          ELSE <<at[1] + 1, 0>>

(* The values whose bit an instruction clears, and those whose bit it sets. *)
Kills(inst) == IF inst.op = "terminator" THEN {} ELSE {inst.def}
Uses(inst) == IF inst.op = "phi" THEN {} ELSE inst.uses

(* The facts before instruction i, given those at the block's end: what the
   walk from the last instruction to i, clearing definitions and then setting
   operands, arrives at. *)
Live(code, i, o) ==
  {v \in o : \A k \in i..Len(code) : v \notin Kills(code[k])} \cup
  {v \in Var : \E k \in i..Len(code) :
                 v \in Uses(code[k]) /\ \A j \in i..(k - 1) : v \notin Kills(code[j])}

(* The walk itself, one instruction at a time from the block's end. *)
Walk(code, o) ==
  LET w[i \in 1..(Len(code) + 1)] ==
        IF i = Len(code) + 1 THEN o ELSE (w[i + 1] \ Kills(code[i])) \cup Uses(code[i])
  IN w

(* What a block's phi instructions tell the blocks they take values from. *)
Incoming(f, b) ==
  UNION {f.code[b][k].incoming : k \in {j \in DOMAIN f.code[b] : f.code[b][j].op = "phi"}}

transferFunc(b, o) ==
  /\ in' = [in EXCEPT ![b] = Live(Code(b), 1, o)]
  /\ neighbourSpecificValues' =
       [c \in Block |-> neighbourSpecificValues[c] \cup
                          {v \in Var : <<c, v>> \in Incoming(fn, b)}]

(* The facts at the end of b: the union over its successors, with the phi
   operands known to come from b; nothing at an exit. *)
MeetSucc(f, facts, b) == UNION {facts[s] : s \in Range(f.succ[b])}
Meet(b) == IF Len(fn.succ[b]) = 0 THEN {}
           ELSE MeetSucc(fn, in, b) \cup neighbourSpecificValues[b]

(* The edges into b; a block may have several to the same successor.  They
   are visited in the order of LLVM's use lists, any order here. *)
Edges(f) == UNION {{p} \X DOMAIN f.succ[p] : p \in Blocks(f)}
InEdges(f, b) == {e \in Edges(f) : f.succ[e[1]][e[2]] = b}
Orders(S) == {s \in [1..Cardinality(S) -> S] : Range(s) = S}

(* Whether a predecessor has to be analysed (again) once its successor was. *)
Awaits(p, changed, seen) == changed \/ p \notin seen

(* The list with the sources of the edges at its end. *)
Push(list, edges) == list \o [i \in DOMAIN edges |-> edges[i][1]]

(* Where the exits are in the function's layout. *)
Exits(f) == {k \in DOMAIN f.blocks : Len(f.succ[f.blocks[k]]) = 0}

-----------------------------------------------------------------------------
(* live_dump starts with its first elements set to 0. *)
Init ==
  /\ mod \in Modules
  /\ live_dump \in {d \in [0..(DumpSize - 1) -> Garbage \cup {0}] :
                      \A k \in 0..(DumpSize - 1) : k < Filled => d[k] = 0}
  /\ cur = 0 /\ phase = "module" /\ n = 0
  /\ in = [b \in Block |-> {}] /\ out = [b \in Block |-> {}]
  /\ neighbourSpecificValues = [b \in Block |-> {}]
  /\ visited = {} /\ worklist = << >> /\ at = <<1, 1>>

(* The next function: fresh facts, and its exits on the worklist, in the order
   in which they are laid out. *)
evalFunc ==
  LET f == mod[cur + 1] IN
  /\ phase = "module" /\ cur < Len(mod)
  /\ cur' = cur + 1 /\ phase' = "worklist"
  /\ in' = [b \in Block |-> IF b \in Blocks(f) THEN {} ELSE in[b]]
  /\ out' = [b \in Block |-> IF b \in Blocks(f) THEN {} ELSE out[b]]
  /\ visited' = visited \ Blocks(f)
  /\ \E s \in Orders(Exits(f)) :
       /\ \A i, j \in DOMAIN s : i < j => s[i] < s[j]
       /\ worklist' = [i \in DOMAIN s |-> f.blocks[s[i]]]
  /\ UNCHANGED <<mod, neighbourSpecificValues, at, live_dump, n>>

(* One block: its facts, and the predecessors that await them. *)
performBackwardAnalysis ==
  /\ phase = "worklist" /\ worklist # << >>
  /\ LET b == Head(worklist) IN
     /\ visited' = visited \cup {b}
     /\ out' = [out EXCEPT ![b] = Meet(b)]
     /\ transferFunc(b, Meet(b))
     /\ \E s \in Orders({e \in InEdges(fn, b) : Awaits(e[1], in'[b] # in[b], visited')}) :
          worklist' = Push(Tail(worklist), s)
  /\ UNCHANGED <<mod, cur, phase, at, live_dump, n>>

(* The operands that come from a block are added to all its successors. *)
finalizeBackwardAnalysis ==
  /\ phase = "worklist" /\ worklist = << >>
  /\ in' = [s \in Block |-> in[s] \cup UNION {neighbourSpecificValues[b] :
                                 b \in {c \in Blocks(fn) : s \in Range(fn.succ[c])}}]
  /\ phase' = "dump" /\ at' = <<1, 1>>
  /\ UNCHANGED <<mod, cur, out, neighbourSpecificValues, visited, worklist, live_dump, n>>

(* instrInSet: what the last walk over the block left at its instructions. *)
instrInSet(b, i) == IF b \in visited THEN Live(Code(b), i, out[b]) ELSE {}

(* The statistic counts program points, not phi instructions. *)
Counts(inst) == inst.op # "phi"

Unfinished == at[1] =< Len(fn.blocks)
NextPoint == IF at[2] < Len(Code(fn.blocks[at[1]])) THEN <<at[1], at[2] + 1>>
                                                   ELSE <<at[1] + 1, 1>>

calculate ==
  /\ phase = "dump" /\ Unfinished
  /\ LET b     == fn.blocks[at[1]]
         count == Cardinality(instrInSet(b, at[2])) IN
     \/ /\ ~Counts(Code(b)[at[2]])
        /\ at' = NextPoint /\ UNCHANGED <<phase, live_dump, n>>
     \/ /\ Counts(Code(b)[at[2]]) /\ count < DumpSize
        /\ n' = IF count > n THEN count + 1 ELSE n
        /\ live_dump' = [live_dump EXCEPT ![count] = @ + 1]
        /\ at' = NextPoint /\ UNCHANGED phase
     \/ \* a write past the end of live_dump
        /\ Counts(Code(b)[at[2]]) /\ count >= DumpSize
        /\ phase' = "crashed" /\ UNCHANGED <<at, live_dump, n>>
  /\ UNCHANGED <<mod, cur, worklist, dataflow>>

EndFunction ==
  /\ phase = "dump" /\ ~Unfinished
  /\ phase' = "module"
  /\ UNCHANGED <<mod, cur, worklist, at, live_dump, n, dataflow>>

Over == phase = "crashed" \/ (phase = "module" /\ cur = Len(mod))
Terminating ==
  /\ Over
  /\ UNCHANGED vars

Step == evalFunc \/ performBackwardAnalysis \/ finalizeBackwardAnalysis
          \/ calculate \/ EndFunction
Next == Step \/ Terminating
Spec == Init /\ [][Next]_vars
FairSpec == Spec /\ WF_vars(Step)

-----------------------------------------------------------------------------
(* The worklist holds blocks of the function at hand only, facts are sets of
   values, and the statistic stays in its array. *)
TypeOK ==
  /\ cur \in 0..Len(mod)
  /\ phase \in {"module", "worklist", "dump", "crashed"}
  /\ phase # "module" => cur > 0
  /\ in \in [Block -> SUBSET Var] /\ out \in [Block -> SUBSET Var]
  /\ neighbourSpecificValues \in [Block -> SUBSET Var]
  /\ visited \subseteq Block
  /\ worklist \in Seq(IF phase = "worklist" THEN Blocks(fn) ELSE {})
  /\ at \in (Nat \ {0}) \X (Nat \ {0})
  /\ live_dump \in [0..(DumpSize - 1) -> Int] /\ n \in Nat

(* No predecessor is forgotten: exits and predecessors of analysed blocks have
   been analysed or are going to be, so every block that reaches an exit is. *)
BackwardComplete ==
  phase = "worklist" =>
    \A b \in Blocks(fn) :
      Len(fn.succ[b]) = 0 \/ Range(fn.succ[b]) \cap visited # {} =>
        b \in visited \cup Range(worklist)

(* No news is forgotten: an analysed block that is not going to be analysed
   again holds what the header's equations ask of it given its successors. *)
VisitedSettled ==
  phase = "worklist" =>
    \A b \in (visited \cap Blocks(fn)) \ Range(worklist) :
      Live(Code(b), 1, MeetSucc(fn, in, b)) \subseteq in[b]

(* The closed form of the transfer is the walk of the code. *)
LiveIsWalk ==
  phase = "worklist" /\ worklist = << >> =>
    \A b \in Blocks(fn) : \A o \in SUBSET Var : \A i \in 1..(Len(Code(b)) + 1) :
      Live(Code(b), i, o) = Walk(Code(b), o)[i]

(* A solution of the equations for one value v, as the set F of blocks at whose
   start it is live: at a block's end v is asked for by its successors and by
   phi instructions that take it from there. *)
PhiUses(f, b) == {v \in Var : \E s \in Blocks(f) : <<b, v>> \in Incoming(f, s)}
Asks(f, v, F, b) == Range(f.succ[b]) \cap F # {} \/ v \in PhiUses(f, b)
Solves(f, v, F) ==
  \A b \in Blocks(f) :
    v \in Live(f.code[b], 1, IF Asks(f, v, F, b) THEN {v} ELSE {}) => b \in F

(* Nothing is reported live without cause: whatever the order of the worklist,
   every fact is in every solution of the equations. *)
BelowSolutions ==
  phase = "worklist" =>
    \A v \in Var : \A F \in SUBSET Blocks(fn) :
      Solves(fn, v, F) =>
        \A b \in Blocks(fn) : /\ v \in in[b] => b \in F
                              /\ v \in out[b] => Asks(fn, v, F, b)

(* The points of the functions evaluated so far, and of the one at hand up to
   where the statistic is. *)
Before(i, k) == i < at[1] \/ (i = at[1] /\ k < at[2])
Points ==
  UNION {UNION {{<<c, i, k>> : k \in DOMAIN mod[c].code[mod[c].blocks[i]]} :
                i \in DOMAIN mod[c].blocks} : c \in 1..cur}
Counted == {p \in Points : /\ mod[p[1]].code[mod[p[1]].blocks[p[2]]][p[3]].op # "phi"
                           /\ p[1] < cur \/ phase = "module" \/ Before(p[2], p[3])}
LiveAt(p) == LET f == mod[p[1]]  b == f.blocks[p[2]] IN
  IF b \in visited THEN Live(f.code[b], p[3], out[b]) ELSE {}
WithLive(k) == Cardinality({p \in Counted : Cardinality(LiveAt(p)) = k})

(* The elements set to 0 count the program points with that many live values. *)
DumpExact ==
  phase \in {"dump", "module"} => \A k \in 0..(Filled - 1) : live_dump[k] = WithLive(k)

(* The analysis of a module ends although blocks come back to the worklist. *)
Termination == <>Over

-----------------------------------------------------------------------------
(* What comments say and the code does not do. *)

(* "in[B] = use[B] U (out[B] - def[B])": the header's equations hold when the
   loop ends, in functions without phi instructions. *)
HeaderEquations ==
  phase = "worklist" /\ worklist = << >> /\ (\A b \in Blocks(fn) : Incoming(fn, b) = {}) =>
    \A b \in Blocks(fn) : in[b] = Live(Code(b), 1, MeetSucc(fn, in, b))

(* "for phi node. meet the variables that are live from this specific block":
   an operand that comes from an analysed block is live at its end. *)
PhiOperandsArrive ==
  phase = "dump" =>
    \A b, c \in Blocks(fn) \cap visited : \A v \in Var :
      <<c, v>> \in Incoming(fn, b) => v \in out[c]
=============================================================================
