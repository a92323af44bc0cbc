------------------------ MODULE LiveVariablesProofs ------------------------
(***************************************************************************)
(* The live variable analysis forgets no predecessor and no news, and      *)
(* reports nothing live without cause, for every control-flow graph, every *)
(* order of predecessors and every module of functions.                    *)
(***************************************************************************)
EXTENDS LiveVariables, FiniteSetTheorems, TLAPS

(* What neighbourSpecificValues holds was asked for by a phi instruction of a
   function evaluated so far. *)
Neighbours ==
  \A b \in Block : \A v \in neighbourSpecificValues[b] :
    \E j \in 1..cur : v \in PhiUses(mod[j], b)

IInv == /\ TypeOK /\ mod \in Modules
        /\ BackwardComplete /\ VisitedSettled /\ BelowSolutions /\ Neighbours

-----------------------------------------------------------------------------
(* The transfer function yields values and is monotone. *)
LEMMA LiveTyped ==
  ASSUME NEW code, NEW i, NEW o \in SUBSET Var
  PROVE  Live(code, i, o) \in SUBSET Var
BY DEF Live

LEMMA LiveMonotone ==
  ASSUME NEW code, NEW i, NEW o, NEW p, o \subseteq p
  PROVE  Live(code, i, o) \subseteq Live(code, i, p)
BY DEF Live

(* The positions of a sequence are finitely many. *)
LEMMA Indices ==
  \A k \in Nat : IsFiniteSet(1..k)
<1>. SUFFICES ASSUME NEW k \in Nat PROVE IsFiniteSet(1..k)
  OBVIOUS
<1>1. 1 \in Int /\ k \in Int
  OBVIOUS
<1>. QED
  BY <1>1, FS_Interval

(* An order of a finite set is a sequence of all its elements. *)
LEMMA OrderIsSeq ==
  ASSUME NEW S, IsFiniteSet(S), NEW s \in Orders(S)
  PROVE  /\ s \in Seq(S) /\ DOMAIN s = 1..Len(s)
         /\ \A e \in S : \E i \in DOMAIN s : s[i] = e
<1>1. Cardinality(S) \in Nat
  BY FS_CardinalityType
<1>2. s \in [1..Cardinality(S) -> S] /\ Range(s) = S
  BY DEF Orders
<1>. QED
  BY <1>1, <1>2 DEF Range

(* A function has finitely many edges, all of them between its blocks. *)
LEMMA EdgesAreFinite ==
  ASSUME NEW f \in Function, NEW b
  PROVE  /\ IsFiniteSet(InEdges(f, b))
         /\ \A e \in InEdges(f, b) : e[1] \in Blocks(f)
         /\ \A p \in Blocks(f) : b \in Range(f.succ[p]) =>
              \E e \in InEdges(f, b) : e[1] = p
<1>1. /\ f.blocks \in Seq(Block) /\ f.succ \in [Block -> Seq(Block)]
      /\ Blocks(f) \subseteq Block
  BY DEF Function, Blocks, Range
<1> DEFINE Out == [i \in 1..Len(f.blocks) |-> {f.blocks[i]} \X DOMAIN f.succ[f.blocks[i]]]
           Family == {{p} \X DOMAIN f.succ[p] : p \in Blocks(f)}
<1>2. IsFiniteSet(Family)
  <2>1. Out \in Surjection(1..Len(f.blocks), Family)
    <3>1. \A i \in 1..Len(f.blocks) : f.blocks[i] \in Blocks(f)
      BY <1>1 DEF Blocks, Range
    <3>2. \A i \in 1..Len(f.blocks) : Out[i] \in Family
      BY <3>1
    <3>3. ASSUME NEW T \in Family  PROVE \E i \in 1..Len(f.blocks) : Out[i] = T
      <4>1. PICK p \in Blocks(f) : T = {p} \X DOMAIN f.succ[p]
        OBVIOUS
      <4>2. PICK i \in 1..Len(f.blocks) : f.blocks[i] = p
        <5>1. \E i \in DOMAIN f.blocks : f.blocks[i] = p
          BY DEF Blocks, Range
        <5>2. DOMAIN f.blocks = 1..Len(f.blocks)
          BY <1>1
        <5>. QED
          BY <5>1, <5>2
      <4>. QED
        BY <4>1, <4>2
    <3>. HIDE DEF Family
    <3>4. Out \in [1..Len(f.blocks) -> Family]
      BY <3>2
    <3>. QED
      BY <3>3, <3>4 DEF Surjection
  <2>2. IsFiniteSet(1..Len(f.blocks))
    BY <1>1, Indices
  <2>. QED
    BY <2>1, <2>2, FS_Surjection
<1>3. \A T \in Family : IsFiniteSet(T)
  <2>1. SUFFICES ASSUME NEW p \in Blocks(f)
                 PROVE  IsFiniteSet({p} \X DOMAIN f.succ[p])
    OBVIOUS
  <2>2. DOMAIN f.succ[p] = 1..Len(f.succ[p]) /\ Len(f.succ[p]) \in Nat
    BY <1>1
  <2>3. IsFiniteSet(1..Len(f.succ[p]))
    BY <2>2, Indices
  <2>4. IsFiniteSet({p})
    BY FS_Singleton
  <2>. QED
    BY <2>2, <2>3, <2>4, FS_Product
<1>4. IsFiniteSet(Edges(f))
  BY <1>2, <1>3, FS_UNION DEF Edges
<1>5. IsFiniteSet(InEdges(f, b))
  BY <1>4, FS_Subset DEF InEdges
<1>6. \A e \in InEdges(f, b) : e[1] \in Blocks(f)
  BY DEF InEdges, Edges
<1>7. ASSUME NEW p \in Blocks(f), b \in Range(f.succ[p])
      PROVE  \E e \in InEdges(f, b) : e[1] = p
  <2>1. PICK k \in DOMAIN f.succ[p] : f.succ[p][k] = b
    BY <1>7 DEF Range
  <2>2. <<p, k>> \in InEdges(f, b)
    BY <1>7, <2>1 DEF InEdges, Edges
  <2>. QED
    BY <2>2
<1>. QED
  BY <1>5, <1>6, <1>7

(* Taking a block off the front and pushing the sources of some edges. *)
LEMMA Pushed ==
  ASSUME NEW B, NEW w \in Seq(B), w # << >>,
         NEW S, IsFiniteSet(S), \A e \in S : e[1] \in B, NEW s \in Orders(S),
         NEW x, x = Push(Tail(w), s)
  PROVE  /\ x \in Seq(B) /\ Head(w) \in B
         /\ Range(w) \subseteq {Head(w)} \cup Range(x)
         /\ \A e \in S : e[1] \in Range(x)
<1> DEFINE t == [i \in DOMAIN s |-> s[i][1]]
<1>1. s \in Seq(S) /\ DOMAIN s = 1..Len(s) /\ \A e \in S : \E i \in DOMAIN s : s[i] = e
  BY OrderIsSeq
<1>2. t \in Seq(B) /\ Len(t) = Len(s) /\ \A i \in 1..Len(s) : t[i] = s[i][1]
  BY <1>1
<1>3. Tail(w) \in Seq(B) /\ Len(Tail(w)) = Len(w) - 1 /\ Head(w) = w[1] /\ Head(w) \in B
      /\ \A i \in 1..(Len(w) - 1) : Tail(w)[i] = w[i + 1]
  OBVIOUS
<1>. HIDE DEF t
<1>4. x = Tail(w) \o t
  BY DEF t, Push
<1>5. /\ x \in Seq(B) /\ Len(x) = Len(w) - 1 + Len(s)
      /\ \A i \in 1..(Len(w) - 1) : x[i] = w[i + 1]
      /\ \A i \in 1..Len(s) : x[Len(w) - 1 + i] = s[i][1]
  <2>1. Len(s) \in Nat /\ Len(w) - 1 \in Nat /\ Len(Tail(w)) = Len(w) - 1
    BY <1>1, <1>3
  <2>2. /\ x \in Seq(B) /\ Len(x) = Len(w) - 1 + Len(s)
        /\ \A i \in 1..(Len(w) - 1 + Len(s)) :
             x[i] = IF i =< Len(w) - 1 THEN Tail(w)[i] ELSE t[i - (Len(w) - 1)]
    <3> DEFINE u == Tail(w)
    <3>0. u \in Seq(B)
      BY <1>3
    <3>. HIDE DEF u
    <3>1. /\ u \o t \in Seq(B) /\ Len(u \o t) = Len(u) + Len(t)
          /\ \A i \in 1..(Len(u) + Len(t)) :
               (u \o t)[i] = IF i =< Len(u) THEN u[i] ELSE t[i - Len(u)]
      <4>1. t \in Seq(B)
        BY <1>2
      <4>. HIDE DEF t
      <4>2. u \o t \in Seq(B)
        BY <3>0, <4>1
      <4>3. Len(u \o t) = Len(u) + Len(t)
        BY <3>0, <4>1
      <4>4. ASSUME NEW i \in 1..(Len(u) + Len(t))
            PROVE  (u \o t)[i] = IF i =< Len(u) THEN u[i] ELSE t[i - Len(u)]
        BY <3>0, <4>1
      <4>. QED
        BY <4>2, <4>3, <4>4
    <3>2. x = u \o t /\ Len(u) = Len(w) - 1 /\ u = Tail(w)
      BY <1>4, <2>1 DEF u
    <3>. QED
      BY <1>2, <3>1, <3>2
  <2>3. \A i \in 1..(Len(w) - 1) : x[i] = w[i + 1]
    BY <1>3, <2>1, <2>2
  <2>4. ASSUME NEW i \in 1..Len(s)  PROVE x[Len(w) - 1 + i] = s[i][1]
    <3>1. Len(w) - 1 + i \in 1..(Len(w) - 1 + Len(s)) /\ ~(Len(w) - 1 + i =< Len(w) - 1)
      BY <2>1
    <3>2. (Len(w) - 1 + i) - (Len(w) - 1) = i
      BY <2>1
    <3>. QED
      BY <1>2, <2>2, <3>1, <3>2
  <2>. QED
    BY <2>2, <2>3, <2>4
<1>6. ASSUME NEW i \in 1..Len(w)  PROVE w[i] \in {Head(w)} \cup Range(x)
  <2>1. CASE i = 1
    BY <1>3, <2>1
  <2>2. CASE i # 1
    <3>1. i - 1 \in 1..(Len(w) - 1) /\ i - 1 \in 1..Len(x)
      BY <1>1, <1>5, <2>2
    <3>2. x[i - 1] = w[i] /\ i - 1 \in DOMAIN x
      BY <1>5, <3>1
    <3>. QED
      BY <3>2 DEF Range
  <2>. QED
    BY <2>1, <2>2
<1>7. ASSUME NEW e \in S  PROVE e[1] \in Range(x)
  <2>1. PICK i \in 1..Len(s) : s[i] = e
    BY <1>1
  <2>2. Len(w) - 1 + i \in DOMAIN x /\ x[Len(w) - 1 + i] = e[1]
    BY <1>1, <1>5, <2>1
  <2>. QED
    BY <2>2 DEF Range
<1>8. Range(w) \subseteq {Head(w)} \cup Range(x)
  <2>1. ASSUME NEW y \in Range(w)  PROVE \E i \in 1..Len(w) : w[i] = y
    BY DEF Range
  <2>. QED
    BY <1>6, <2>1
<1>. QED
  BY <1>3, <1>5, <1>7, <1>8

-----------------------------------------------------------------------------
(* The function at hand is one of the module, well formed, and shares no block
   with another. *)
LEMMA FnTyped ==
  ASSUME mod \in Modules, NEW j \in 1..Len(mod)
  PROVE  /\ mod \in Seq(Function) /\ mod[j] \in Function /\ WellFormed(mod[j])
         /\ Blocks(mod[j]) \subseteq Block
         /\ \A b \in Blocks(mod[j]) : Range(mod[j].succ[b]) \subseteq Blocks(mod[j])
         /\ \A b \in Blocks(mod[j]) : \A e \in Incoming(mod[j], b) : e[1] \in Blocks(mod[j])
         /\ \A i \in 1..Len(mod) : Blocks(mod[i]) \cap Blocks(mod[j]) # {} => i = j
<1>1. /\ mod \in Seq(Function) /\ WellFormed(mod[j])
      /\ \A i \in 1..Len(mod) : Blocks(mod[i]) \cap Blocks(mod[j]) # {} => i = j
  BY ModulesAssumption
<1>2. mod[j] \in Function
  BY <1>1
<1>3. mod[j].blocks \in Seq(Block) /\ mod[j].code \in [Block -> Seq(Instruction)]
  BY <1>2 DEF Function
<1>4. Blocks(mod[j]) \subseteq Block
  BY <1>3 DEF Blocks, Range
<1>5. ASSUME NEW b \in Blocks(mod[j]), NEW e \in Incoming(mod[j], b)
      PROVE  e[1] \in Blocks(mod[j])
  <2>1. PICK k \in DOMAIN mod[j].code[b] : e \in mod[j].code[b][k].incoming
    BY <1>5 DEF Incoming
  <2>2. DOMAIN mod[j].code[b] = 1..Len(mod[j].code[b])
    BY <1>3, <1>4, <1>5
  <2>. QED
    BY <1>1, <1>5, <2>1, <2>2 DEF WellFormed
<1>. QED
  BY <1>1, <1>2, <1>4, <1>5 DEF WellFormed

(* The values a block's phi instructions ask of b were asked for in the function
   b is a block of. *)
LEMMA NeighboursOfFn ==
  ASSUME IInv, cur \in 1..Len(mod), NEW b \in Blocks(fn)
  PROVE  neighbourSpecificValues[b] \subseteq PhiUses(fn, b)
<1>. SUFFICES ASSUME NEW v \in neighbourSpecificValues[b]
              PROVE  v \in PhiUses(fn, b)
  OBVIOUS
<1>1. b \in Block
  BY FnTyped DEF IInv, fn
<1>2. PICK j \in 1..cur : v \in PhiUses(mod[j], b)
  BY <1>1 DEF IInv, Neighbours
<1>3. j \in 1..Len(mod)
  BY <1>2
<1>4. PICK s \in Blocks(mod[j]) : <<b, v>> \in Incoming(mod[j], s)
  BY <1>2 DEF PhiUses
<1>5. <<b, v>>[1] \in Blocks(mod[j])
  BY <1>3, <1>4, FnTyped DEF IInv
<1>6. j = cur
  BY <1>3, <1>5, FnTyped DEF IInv, fn
<1>. QED
  BY <1>2, <1>6 DEF fn

-----------------------------------------------------------------------------
(* What analysing one block does, in the terms the invariants speak of. *)
LEMMA Analysis ==
  ASSUME IInv, performBackwardAnalysis
  PROVE  \E b \in Blocks(fn) :
           /\ phase = "worklist" /\ cur \in 1..Len(mod) /\ UNCHANGED <<mod, cur, phase>>
           /\ visited' = visited \cup {b}
           /\ out' = [out EXCEPT ![b] = Meet(b)] /\ transferFunc(b, Meet(b))
           /\ worklist' \in Seq(Blocks(fn))
           /\ Range(worklist) \subseteq {b} \cup Range(worklist')
           /\ \A p \in Blocks(fn) :
                b \in Range(fn.succ[p]) /\ (in'[b] # in[b] \/ p \notin visited')
                  => p \in Range(worklist')
<1> DEFINE b == Head(worklist)
           S == {e \in InEdges(fn, b) : Awaits(e[1], in'[b] # in[b], visited')}
<1>1. /\ phase = "worklist" /\ cur \in 1..Len(mod) /\ UNCHANGED <<mod, cur, phase>>
      /\ worklist \in Seq(Blocks(fn)) /\ worklist # << >>
      /\ visited' = visited \cup {b}
      /\ out' = [out EXCEPT ![b] = Meet(b)] /\ transferFunc(b, Meet(b))
  BY DEF IInv, TypeOK, performBackwardAnalysis
<1>2. PICK s \in Orders(S) : worklist' = Push(Tail(worklist), s)
  BY DEF performBackwardAnalysis
<1>3. fn \in Function
  BY <1>1, FnTyped DEF IInv, fn
<1>4. /\ IsFiniteSet(S) /\ \A e \in S : e[1] \in Blocks(fn)
      /\ \A p \in Blocks(fn) : b \in Range(fn.succ[p]) =>
           \E e \in InEdges(fn, b) : e[1] = p
  <2>1. S \subseteq InEdges(fn, b)
    OBVIOUS
  <2>. HIDE DEF b, S
  <2>. QED
    BY <1>3, <2>1, EdgesAreFinite, FS_Subset
<1>5. /\ worklist' \in Seq(Blocks(fn)) /\ b \in Blocks(fn)
      /\ Range(worklist) \subseteq {b} \cup Range(worklist')
      /\ \A e \in S : e[1] \in Range(worklist')
  <2>1. /\ IsFiniteSet(S) /\ \A e \in S : e[1] \in Blocks(fn)
        /\ worklist \in Seq(Blocks(fn)) /\ worklist # << >>
    BY <1>1, <1>4
  <2>2. s \in Orders(S) /\ worklist' = Push(Tail(worklist), s)
    BY <1>2
  <2>. HIDE DEF S
  <2>3. /\ worklist' \in Seq(Blocks(fn)) /\ Head(worklist) \in Blocks(fn)
        /\ Range(worklist) \subseteq {Head(worklist)} \cup Range(worklist')
        /\ \A e \in S : e[1] \in Range(worklist')
    BY <2>1, <2>2, Pushed
  <2>. QED
    BY <2>3
<1>6. ASSUME NEW p \in Blocks(fn), b \in Range(fn.succ[p]),
             in'[b] # in[b] \/ p \notin visited'
      PROVE  p \in Range(worklist')
  <2>1. PICK e \in InEdges(fn, b) : e[1] = p
    BY <1>4, <1>6
  <2>2. e \in S
    BY <1>6, <2>1 DEF Awaits
  <2>. QED
    BY <1>5, <2>1, <2>2
<1>. HIDE DEF b, S
<1>. QED
  BY <1>1, <1>5, <1>6

(* Analysing a block keeps the invariant: predecessors that have to hear of it
   are pushed, and what it computes is granted by every solution. *)
LEMMA AnalysisKeeps ==
  ASSUME IInv, performBackwardAnalysis
  PROVE  IInv'
<1>1. PICK b \in Blocks(fn) :
        /\ phase = "worklist" /\ cur \in 1..Len(mod) /\ UNCHANGED <<mod, cur, phase>>
        /\ visited' = visited \cup {b}
        /\ out' = [out EXCEPT ![b] = Meet(b)] /\ transferFunc(b, Meet(b))
        /\ worklist' \in Seq(Blocks(fn))
        /\ Range(worklist) \subseteq {b} \cup Range(worklist')
        /\ \A p \in Blocks(fn) :
             b \in Range(fn.succ[p]) /\ (in'[b] # in[b] \/ p \notin visited')
               => p \in Range(worklist')
  BY Analysis
<1>2. /\ fn \in Function /\ Blocks(fn) \subseteq Block /\ fn' = fn /\ b \in Block
      /\ \A p \in Blocks(fn) : Range(fn.succ[p]) \subseteq Blocks(fn)
  BY <1>1, FnTyped DEF IInv, fn
<1>3. /\ in \in [Block -> SUBSET Var] /\ out \in [Block -> SUBSET Var]
      /\ neighbourSpecificValues \in [Block -> SUBSET Var]
  BY DEF IInv, TypeOK
<1>4. Meet(b) \in SUBSET Var /\ MeetSucc(fn, in, b) \subseteq Meet(b)
  <2>1. fn.succ[b] \in Seq(Block)
    BY <1>2 DEF Function
  <2>2. MeetSucc(fn, in, b) \in SUBSET Var
    BY <1>2, <1>3 DEF MeetSucc
  <2>3. Len(fn.succ[b]) = 0 => MeetSucc(fn, in, b) = {}
    BY <2>1 DEF MeetSucc, Range
  <2>. QED
    BY <1>2, <1>3, <2>2, <2>3 DEF Meet
<1>5. /\ in' = [in EXCEPT ![b] = Live(Code(b), 1, Meet(b))]
      /\ in' \in [Block -> SUBSET Var] /\ out' \in [Block -> SUBSET Var]
      /\ neighbourSpecificValues' \in [Block -> SUBSET Var]
  <2>1. Live(Code(b), 1, Meet(b)) \in SUBSET Var
    BY <1>4, LiveTyped
  <2>. QED
    BY <1>1, <1>3, <1>4, <2>1 DEF transferFunc
<1>6. /\ \A x \in Block : x # b => in'[x] = in[x]
      /\ in'[b] = Live(Code(b), 1, Meet(b))
  BY <1>2, <1>3, <1>5
<1>7. TypeOK'
  BY <1>1, <1>2, <1>5 DEF IInv, TypeOK, performBackwardAnalysis
<1>8. BackwardComplete'
  <2>1. SUFFICES ASSUME NEW p \in Blocks(fn),
                        Len(fn.succ[p]) = 0 \/ Range(fn.succ[p]) \cap visited' # {}
                 PROVE  p \in visited' \cup Range(worklist')
    BY <1>2 DEF BackwardComplete
  <2>2. CASE Len(fn.succ[p]) = 0 \/ Range(fn.succ[p]) \cap visited # {}
    BY <1>1, <2>2 DEF IInv, BackwardComplete
  <2>3. CASE b \in Range(fn.succ[p])
    BY <1>1, <2>3
  <2>. QED
    BY <1>1, <2>1, <2>2, <2>3
<1>9. VisitedSettled'
  <2>1. SUFFICES ASSUME NEW p \in Blocks(fn), p \in visited', p \notin Range(worklist')
                 PROVE  Live(fn.code[p], 1, MeetSucc(fn, in', p)) \subseteq in'[p]
    BY <1>2 DEF VisitedSettled, Code
  <2>2. MeetSucc(fn, in', p) = MeetSucc(fn, in, p)
    <3>1. \A x \in Range(fn.succ[p]) : in'[x] = in[x]
      BY <1>1, <1>2, <1>6, <2>1
    <3>. QED
      BY <3>1 DEF MeetSucc
  <2>3. CASE p = b
    BY <1>4, <1>6, <2>2, <2>3, LiveMonotone DEF Code
  <2>4. CASE p # b
    <3>1. Live(fn.code[p], 1, MeetSucc(fn, in, p)) \subseteq in[p]
      BY <1>1, <2>1, <2>4 DEF IInv, VisitedSettled, Code
    <3>. QED
      BY <1>2, <1>6, <2>1, <2>2, <2>4, <3>1
  <2>. QED
    BY <2>3, <2>4
<1>10. BelowSolutions'
  <2>1. SUFFICES ASSUME NEW v \in Var, NEW F \in SUBSET Blocks(fn), Solves(fn, v, F),
                        NEW p \in Blocks(fn)
                 PROVE  /\ v \in in'[p] => p \in F
                        /\ v \in out'[p] => Asks(fn, v, F, p)
    BY <1>2 DEF BelowSolutions
  <2>2. \A x \in Blocks(fn) : /\ v \in in[x] => x \in F
                              /\ v \in out[x] => Asks(fn, v, F, x)
    BY <1>1, <2>1 DEF IInv, BelowSolutions
  <2>3. v \in Meet(b) => Asks(fn, v, F, b)
    <3>1. neighbourSpecificValues[b] \subseteq PhiUses(fn, b)
      BY <1>1, NeighboursOfFn
    <3>2. v \in MeetSucc(fn, in, b) => Range(fn.succ[b]) \cap F # {}
      BY <1>2, <2>2 DEF MeetSucc
    <3>. QED
      BY <3>1, <3>2 DEF Meet, Asks
  <2>4. v \in Live(Code(b), 1, Meet(b)) => b \in F
    <3>1. v \in Live(fn.code[b], 1, Meet(b)) =>
            v \in Live(fn.code[b], 1, IF Asks(fn, v, F, b) THEN {v} ELSE {})
      BY <2>3 DEF Live
    <3>. QED
      BY <2>1, <3>1 DEF Solves, Code
  <2>5. CASE p = b
    BY <1>1, <1>2, <1>3, <1>6, <2>3, <2>4, <2>5
  <2>6. CASE p # b
    BY <1>1, <1>2, <1>3, <1>6, <2>2, <2>6
  <2>. QED
    BY <2>5, <2>6
<1>11. Neighbours'
  <2>1. SUFFICES ASSUME NEW c \in Block, NEW v \in neighbourSpecificValues'[c]
                 PROVE  \E j \in 1..cur : v \in PhiUses(mod[j], c)
    BY <1>1 DEF Neighbours
  <2>2. CASE v \in neighbourSpecificValues[c]
    BY <2>2 DEF IInv, Neighbours
  <2>3. CASE v \in Var /\ <<c, v>> \in Incoming(fn, b)
    <3>1. v \in PhiUses(mod[cur], c)
      BY <2>3 DEF PhiUses, fn
    <3>2. cur \in 1..cur
      <4>1. Len(mod) \in Nat
        BY <1>1, FnTyped DEF IInv
      <4>. QED
        BY <1>1, <4>1
    <3>. QED
      BY <3>1, <3>2
  <2>4. v \in neighbourSpecificValues[c] \/ (v \in Var /\ <<c, v>> \in Incoming(fn, b))
    BY <1>1, <2>1 DEF transferFunc
  <2>. QED
    BY <2>2, <2>3, <2>4
<1>. QED
  BY <1>1, <1>7, <1>8, <1>9, <1>10, <1>11 DEF IInv

-----------------------------------------------------------------------------
(* The next function starts with empty facts and its exits on the worklist. *)
LEMMA EvalKeeps ==
  ASSUME IInv, evalFunc
  PROVE  IInv'
<1> DEFINE f == mod[cur + 1]
<1>1. /\ mod \in Seq(Function) /\ cur \in 0..Len(mod) /\ cur < Len(mod)
      /\ cur' = cur + 1 /\ phase' = "worklist" /\ UNCHANGED <<mod, neighbourSpecificValues>>
  BY ModulesAssumption DEF IInv, TypeOK, evalFunc
<1>2. cur + 1 \in 1..Len(mod) /\ fn' = f
  BY <1>1 DEF fn
<1>3. /\ f \in Function /\ Blocks(f) \subseteq Block
      /\ \A b \in Blocks(f) : Range(f.succ[b]) \subseteq Blocks(f)
  BY <1>2, FnTyped DEF IInv
<1>4. f.blocks \in Seq(Block)
  BY <1>3 DEF Function
<1>. HIDE DEF f
<1>5. /\ in' = [b \in Block |-> IF b \in Blocks(f) THEN {} ELSE in[b]]
      /\ out' = [b \in Block |-> IF b \in Blocks(f) THEN {} ELSE out[b]]
      /\ visited' = visited \ Blocks(f)
  BY DEF evalFunc, f
<1>6. PICK s \in Orders(Exits(f)) : worklist' = [i \in DOMAIN s |-> f.blocks[s[i]]]
  BY DEF evalFunc, f
<1>7. /\ s \in Seq(Exits(f)) /\ DOMAIN s = 1..Len(s)
      /\ \A e \in Exits(f) : \E i \in DOMAIN s : s[i] = e
  <2>1. Exits(f) \subseteq 1..Len(f.blocks)
    BY <1>4 DEF Exits
  <2>2. IsFiniteSet(1..Len(f.blocks))
    BY <1>4, Indices
  <2>3. IsFiniteSet(Exits(f))
    BY <2>1, <2>2, FS_Subset
  <2>. QED
    BY <2>3, OrderIsSeq
<1>8. worklist' \in Seq(Blocks(f))
  <2>1. \A e \in Exits(f) : f.blocks[e] \in Blocks(f)
    BY DEF Exits, Blocks, Range
  <2>2. \A i \in 1..Len(s) : s[i] \in Exits(f)
    BY <1>7
  <2>. QED
    BY <1>6, <1>7, <2>1, <2>2
<1>9. ASSUME NEW b \in Blocks(f), Len(f.succ[b]) = 0
      PROVE  b \in Range(worklist')
  <2>1. PICK k \in DOMAIN f.blocks : f.blocks[k] = b
    BY DEF Blocks, Range
  <2>2. PICK i \in DOMAIN s : s[i] = k
    BY <1>7, <1>9, <2>1 DEF Exits
  <2>3. i \in DOMAIN worklist' /\ worklist'[i] = b
    BY <1>6, <2>1, <2>2
  <2>. QED
    BY <2>3 DEF Range
<1>10. TypeOK'
  BY <1>1, <1>2, <1>3, <1>5, <1>8 DEF IInv, TypeOK, evalFunc
<1>11. BackwardComplete'
  BY <1>2, <1>3, <1>5, <1>9 DEF BackwardComplete
<1>12. VisitedSettled'
  BY <1>2, <1>5 DEF VisitedSettled
<1>13. BelowSolutions'
  BY <1>2, <1>3, <1>5 DEF BelowSolutions
<1>14. Neighbours'
  <2>1. SUFFICES ASSUME NEW b \in Block, NEW v \in neighbourSpecificValues[b]
                 PROVE  \E j \in 1..(cur + 1) : v \in PhiUses(mod[j], b)
    BY <1>1 DEF Neighbours
  <2>2. PICK j \in 1..cur : v \in PhiUses(mod[j], b)
    BY DEF IInv, Neighbours
  <2>3. j \in 1..(cur + 1)
    BY <1>1
  <2>. QED
    BY <2>2, <2>3
<1>. QED
  BY <1>1, <1>10, <1>11, <1>12, <1>13, <1>14 DEF IInv

(* Outside the loop only types are at stake. *)
LEMMA OtherStepsKeep ==
  ASSUME IInv, finalizeBackwardAnalysis \/ calculate \/ EndFunction
  PROVE  IInv'
<1>1. /\ phase' # "worklist" /\ UNCHANGED <<mod, cur, neighbourSpecificValues, worklist>>
      /\ worklist = << >> /\ phase # "module" /\ cur > 0
  <2>1. worklist \in Seq({}) => worklist = << >>
    OBVIOUS
  <2>. QED
    BY <2>1 DEF IInv, TypeOK, finalizeBackwardAnalysis, calculate, EndFunction, dataflow
<1>2. BackwardComplete' /\ VisitedSettled' /\ BelowSolutions'
  BY <1>1 DEF BackwardComplete, VisitedSettled, BelowSolutions
<1>3. Neighbours'
  BY <1>1 DEF IInv, Neighbours, PhiUses
<1>4. TypeOK'
  <2>1. CASE finalizeBackwardAnalysis
    <3>1. in' \in [Block -> SUBSET Var]
      <4>1. \A b \in Blocks(fn) : b \in Block
        BY <1>1, FnTyped DEF IInv, TypeOK, fn
      <4>. QED
        BY <2>1, <4>1 DEF IInv, TypeOK, finalizeBackwardAnalysis
    <3>. QED
      BY <1>1, <2>1, <3>1 DEF IInv, TypeOK, finalizeBackwardAnalysis
  <2>2. CASE EndFunction
    BY <1>1, <2>2 DEF IInv, TypeOK, EndFunction, dataflow
  <2>3. CASE calculate
    <3> DEFINE b == fn.blocks[at[1]]
               count == Cardinality(instrInSet(b, at[2]))
    <3>1. count \in Nat
      <4>1. b \in Block
        <5>1. fn \in Function /\ cur \in 1..Len(mod)
          BY <1>1, FnTyped DEF IInv, TypeOK, fn
        <5>2. at[1] \in 1..Len(fn.blocks)
          BY <2>3, <5>1 DEF IInv, TypeOK, calculate, Unfinished, Function
        <5>. QED
          BY <5>1, <5>2 DEF Function
      <4>. HIDE DEF b
      <4>2. instrInSet(b, at[2]) \in SUBSET Var
        BY <4>1, LiveTyped DEF IInv, TypeOK, instrInSet
      <4>3. IsFiniteSet(instrInSet(b, at[2]))
        BY <4>2, VarAssumption, FS_Subset
      <4>. QED
        BY <4>3, FS_CardinalityType
    <3>2. NextPoint \in (Nat \ {0}) \X (Nat \ {0})
      BY DEF IInv, TypeOK, NextPoint
    <3>. HIDE DEF count
    <3>3. /\ n' = n \/ n' = count + 1
          /\ live_dump' = live_dump \/ live_dump' = [live_dump EXCEPT ![count] = @ + 1]
          /\ at' = at \/ at' = NextPoint
          /\ phase' = phase \/ phase' = "crashed"
      BY <2>3 DEF calculate, count
    <3>4. live_dump' \in [0..(DumpSize - 1) -> Int] /\ n' \in Nat
      BY <3>1, <3>3 DEF IInv, TypeOK
    <3>5. /\ at' \in (Nat \ {0}) \X (Nat \ {0})
          /\ phase' \in {"module", "worklist", "dump", "crashed"}
      BY <3>2, <3>3 DEF IInv, TypeOK
    <3>. QED
      BY <1>1, <2>3, <3>4, <3>5 DEF IInv, TypeOK, calculate, dataflow
  <2>. QED
    BY <2>1, <2>2, <2>3
<1>. QED
  BY <1>1, <1>2, <1>3, <1>4 DEF IInv

-----------------------------------------------------------------------------
(* The invariant of the analysis. *)
THEOREM Invariant == Spec => []IInv
<1>1. Init => IInv
  <2>. SUFFICES ASSUME Init PROVE IInv
    OBVIOUS
  <2>1. mod \in Seq(Function)
    BY ModulesAssumption DEF Init
  <2>2. TypeOK
    <3>1. cur \in 0..Len(mod) /\ phase = "module"
      BY <2>1 DEF Init
    <3>2. live_dump \in [0..(DumpSize - 1) -> Int]
      <4>1. Garbage \cup {0} \subseteq Int
        BY DumpAssumption
      <4>2. live_dump \in [0..(DumpSize - 1) -> Garbage \cup {0}]
        BY DEF Init
      <4>. QED
        BY <4>1, <4>2
    <3>3. at \in (Nat \ {0}) \X (Nat \ {0})
      BY DEF Init
    <3>4. worklist \in Seq({})
      BY DEF Init
    <3>. QED
      BY <3>1, <3>2, <3>3, <3>4 DEF Init, TypeOK
  <2>. QED
    BY <2>2 DEF Init, IInv, BackwardComplete, VisitedSettled, BelowSolutions, Neighbours
<1>2. IInv /\ [Next]_vars => IInv'
  <2>1. IInv /\ Next => IInv' \/ UNCHANGED vars
    BY AnalysisKeeps, EvalKeeps, OtherStepsKeep DEF Next, Step, Terminating
  <2>2. IInv /\ UNCHANGED vars => IInv'
    <3>. SUFFICES ASSUME IInv, UNCHANGED vars  PROVE IInv'
      OBVIOUS
    <3>1. UNCHANGED <<mod, cur, phase, in, out, neighbourSpecificValues, visited, worklist,
                      at, live_dump, n>> /\ fn' = fn
      BY DEF vars, fn
    <3>2. TypeOK' /\ Neighbours'
      BY <3>1 DEF IInv, TypeOK, Neighbours, PhiUses
    <3>3. BackwardComplete' /\ VisitedSettled' /\ BelowSolutions'
      BY <3>1 DEF IInv, BackwardComplete, VisitedSettled, BelowSolutions, Code
    <3>. QED
      BY <3>1, <3>2, <3>3 DEF IInv
  <2>. QED
    BY <2>1, <2>2
<1>. QED
  BY <1>1, <1>2, PTL DEF Spec

(* Facts are sets of values, and the worklist holds blocks of the function. *)
THEOREM TypeCorrect == Spec => []TypeOK
<1>1. IInv => TypeOK
  BY DEF IInv
<1>. QED
  BY <1>1, Invariant, PTL

(* Exits and predecessors of analysed blocks are analysed or going to be. *)
THEOREM NoPredecessorForgotten == Spec => []BackwardComplete
<1>1. IInv => BackwardComplete
  BY DEF IInv
<1>. QED
  BY <1>1, Invariant, PTL

(* Analysed blocks that are not going to be again satisfy the equations. *)
THEOREM NoNewsForgotten == Spec => []VisitedSettled
<1>1. IInv => VisitedSettled
  BY DEF IInv
<1>. QED
  BY <1>1, Invariant, PTL

(* No solution of the equations is exceeded. *)
THEOREM FactsAreJustified == Spec => []BelowSolutions
<1>1. IInv => BelowSolutions
  BY DEF IInv
<1>. QED
  BY <1>1, Invariant, PTL

-----------------------------------------------------------------------------
(* Of the positions a finite sequence has, those in a set that is not empty
   have a last one. *)
LEMMA LastPosition ==
  ASSUME NEW m \in Nat, NEW S, S \subseteq 1..m, S # {}
  PROVE  \E i \in S : \A j \in S : j =< i
<1> DEFINE T == {i..m : i \in S}
<1>1. IsFiniteSet(1..m)
  BY Indices
<1>2. IsWellFoundedOn(StrictSubsetOrdering(1..m), SUBSET (1..m))
  BY <1>1, FS_StrictSubsetOrderingWellFounded, FS_FiniteSubsetsOfFinite
<1>3. T \subseteq SUBSET (1..m) /\ T # {}
  <2>1. ASSUME NEW i \in S PROVE i..m \subseteq 1..m
    OBVIOUS
  <2>2. T \subseteq SUBSET (1..m)
    BY <2>1
  <2>3. PICK i \in S : TRUE
    OBVIOUS
  <2> QED
    BY <2>2, <2>3
<1> HIDE DEF T
<1>4. PICK x \in T : \A y \in T : <<y, x>> \notin StrictSubsetOrdering(1..m)
  BY <1>2, <1>3, WFMin
<1> USE DEF T
<1>5. PICK i \in S : x = i..m
  OBVIOUS
<1>6. ASSUME NEW j \in S, i < j
      PROVE  FALSE
  <2>1. j..m \in T
    OBVIOUS
  <2>2. j..m \subseteq i..m
    BY <1>6
  <2>3. i \in i..m /\ i \notin j..m
    BY <1>6
  <2>4. <<j..m, x>> \in StrictSubsetOrdering(1..m)
    BY <1>3, <1>5, <2>1, <2>2, <2>3 DEF StrictSubsetOrdering
  <2> QED
    BY <1>4, <2>1, <2>4
<1> QED
  BY <1>6

(* The values live at an instruction are those live after it, without what it
   defines, and what it uses. *)
LEMMA LiveStep ==
  ASSUME NEW code \in Seq(Instruction), NEW o \in SUBSET Var
  PROVE  /\ Live(code, Len(code) + 1, o) = o
         /\ \A i \in 1..Len(code) :
              Live(code, i, o) = (Live(code, i + 1, o) \ Kills(code[i])) \cup Uses(code[i])
<1>1. Len(code) \in Nat /\ (Len(code) + 1)..Len(code) = {}
  OBVIOUS
<1>2. Live(code, Len(code) + 1, o) = o
  BY <1>1 DEF Live
<1>3. ASSUME NEW i \in 1..Len(code)
      PROVE  Live(code, i, o) = (Live(code, i + 1, o) \ Kills(code[i])) \cup Uses(code[i])
  <2>1. Uses(code[i]) \subseteq Var
    <3>1. code[i] \in Instruction
      OBVIOUS
    <3> QED
      BY <3>1 DEF Uses, Instruction
  <2>2. /\ i..Len(code) = {i} \cup (i + 1)..Len(code) /\ i..(i - 1) = {}
        /\ \A k \in (i + 1)..Len(code) : i..(k - 1) = {i} \cup (i + 1)..(k - 1)
    BY <1>1
  <2>3. \A v : (\A k \in i..Len(code) : v \notin Kills(code[k])) <=>
                  v \notin Kills(code[i]) /\ \A k \in (i + 1)..Len(code) : v \notin Kills(code[k])
    BY <2>2
  <2>4. \A v : (\E k \in i..Len(code) :
                    v \in Uses(code[k]) /\ \A j \in i..(k - 1) : v \notin Kills(code[j])) <=>
                 \/ v \in Uses(code[i])
                 \/ /\ v \notin Kills(code[i])
                    /\ \E k \in (i + 1)..Len(code) :
                         v \in Uses(code[k]) /\ \A j \in (i + 1)..(k - 1) : v \notin Kills(code[j])
    BY <2>2
  <2> QED
    BY <2>1, <2>3, <2>4 DEF Live
<1> QED
  BY <1>2, <1>3

(* The walk from a block's end, one instruction at a time, is a function that
   satisfies its recursive definition, and there is only one. *)
LEMMA WalkIsLive ==
  ASSUME NEW code \in Seq(Instruction), NEW o \in SUBSET Var
  PROVE  \A i \in 1..(Len(code) + 1) : Walk(code, o)[i] = Live(code, i, o)
<1> DEFINE m == Len(code) + 1
           B(f, i) == IF i = m THEN o ELSE (f[i + 1] \ Kills(code[i])) \cup Uses(code[i])
           g == [i \in 1..m |-> Live(code, i, o)]
           w == Walk(code, o)
<1>1. m \in Nat /\ m > 0 /\ \A i \in 1..m : i # m => i \in 1..Len(code) /\ i + 1 \in 1..m
  OBVIOUS
<1>2. g = [i \in 1..m |-> B(g, i)]
  <2>1. ASSUME NEW i \in 1..m
        PROVE  Live(code, i, o) = B(g, i)
    <3>1. CASE i = m
      BY <3>1, LiveStep
    <3>2. CASE i # m
      <4>1. i \in 1..Len(code) /\ i + 1 \in 1..m
        BY <1>1, <3>2
      <4>2. g[i + 1] = Live(code, i + 1, o)
        BY <4>1
      <4> QED
        BY <3>2, <4>1, <4>2, LiveStep
    <3> QED
      BY <3>1, <3>2
  <2> QED
    BY <2>1
<1>3. w = CHOOSE f : f = [i \in 1..m |-> B(f, i)]
  BY DEF Walk
<1>4. w = [i \in 1..m |-> B(w, i)]
  <2> HIDE DEF g, w, B
  <2> QED
    BY <1>2, <1>3
<1> SUFFICES \A i \in 1..m : w[i] = Live(code, i, o)
  OBVIOUS
<1>5. \A i \in 1..m : w[i] = B(w, i)
  <2> HIDE DEF w, B
  <2> QED
    BY <1>4
<1> DEFINE S == {i \in 1..m : w[i] # Live(code, i, o)}
<1> HIDE DEF w
<1>6. ASSUME S # {}
      PROVE  FALSE
  <2>1. PICK i \in S : \A j \in S : j =< i
    <3>1. S \subseteq 1..m
      OBVIOUS
    <3> HIDE DEF S, m
    <3> QED
      BY <1>1, <1>6, <3>1, LastPosition
  <2>2. CASE i = m
    BY <1>5, <2>1, <2>2, LiveStep
  <2>3. CASE i # m
    <3>1. i \in 1..Len(code) /\ i + 1 \in 1..m
      BY <1>1, <2>3
    <3>2. i + 1 \notin S
      BY <2>1, <3>1
    <3>3. w[i + 1] = Live(code, i + 1, o)
      BY <3>1, <3>2
    <3>4. w[i] = (w[i + 1] \ Kills(code[i])) \cup Uses(code[i])
      BY <1>5, <2>3
    <3>5. Live(code, i, o) = (Live(code, i + 1, o) \ Kills(code[i])) \cup Uses(code[i])
      BY <3>1, LiveStep
    <3>6. w[i] = Live(code, i, o)
      BY ONLY <3>3, <3>4, <3>5
    <3> QED
      BY <2>1, <3>6
  <2> QED
    BY <2>2, <2>3
<1> QED
  BY <1>6

(* The closed form in which the other theorems speak of a block's transfer is the
   walk of its instructions that the code makes. *)
THEOREM TransferIsWalk == Spec => []LiveIsWalk
<1>1. IInv => LiveIsWalk
  <2> SUFFICES ASSUME IInv, phase = "worklist", NEW b \in Blocks(fn), NEW o \in SUBSET Var,
                      NEW i \in 1..(Len(Code(b)) + 1)
               PROVE  Live(Code(b), i, o) = Walk(Code(b), o)[i]
    BY DEF LiveIsWalk
  <2>1. fn \in Function /\ Blocks(fn) \subseteq Block
    <3>1. cur \in 1..Len(mod)
      BY DEF IInv, TypeOK
    <3> QED
      BY <3>1, FnTyped DEF IInv, fn
  <2>2. Code(b) \in Seq(Instruction)
    BY <2>1 DEF Code, Function
  <2> QED
    BY <2>2, WalkIsLive
<1> QED
  BY <1>1, Invariant, PTL

-----------------------------------------------------------------------------
(* The statistic.  Between functions, and while one is analysed, it has counted
   the points of the functions before; it stands at an instruction there is. *)
Done(p) == \/ p[1] < cur \/ phase = "module"
           \/ phase = "dump" /\ Before(p[2], p[3])
CountedSoFar == {p \in Points : /\ Counts(mod[p[1]].code[mod[p[1]].blocks[p[2]]][p[3]])
                                /\ Done(p)}
With(k) == {p \in CountedSoFar : Cardinality(LiveAt(p)) = k}
DumpInv ==
  phase # "crashed" =>
    /\ \A k \in 0..(Filled - 1) : live_dump[k] = Cardinality(With(k))
    /\ phase = "dump" /\ Unfinished => at[2] \in 1..Len(Code(fn.blocks[at[1]]))

LEMMA Positions ==
  ASSUME NEW S, NEW s \in Seq(S)
  PROVE  Len(s) \in Nat /\ DOMAIN s = 1..Len(s)
  OBVIOUS

LEMMA ImageIsFinite ==
  ASSUME NEW S, IsFiniteSet(S), NEW T, NEW f \in [S -> T], \A t \in T : \E x \in S : f[x] = t
  PROVE  IsFiniteSet(T)
<1>1. f \in Surjection(S, T)
  BY DEF Surjection
<1> QED
  BY <1>1, FS_Surjection

(* The program points are finitely many positions of instructions. *)
LEMMA PointsAre ==
  ASSUME IInv
  PROVE  /\ IsFiniteSet(Points)
         /\ \A c \in 1..cur : \A i \in 1..Len(mod[c].blocks) :
              \A k \in 1..Len(mod[c].code[mod[c].blocks[i]]) : <<c, i, k>> \in Points
         /\ \A p \in Points :
              /\ p = <<p[1], p[2], p[3]>>
              /\ p[1] \in 1..cur /\ p[1] \in 1..Len(mod) /\ p[2] \in 1..Len(mod[p[1]].blocks)
              /\ mod[p[1]].blocks[p[2]] \in Blocks(mod[p[1]])
              /\ p[3] \in 1..Len(mod[p[1]].code[mod[p[1]].blocks[p[2]]])
<1> DEFINE Ks(c, i) == {<<c, i, k>> : k \in DOMAIN mod[c].code[mod[c].blocks[i]]}
           Is(c) == {Ks(c, i) : i \in DOMAIN mod[c].blocks}
           Cs == {UNION Is(c) : c \in 1..cur}
<1>1. cur \in Nat /\ \A c \in 1..cur : c \in 1..Len(mod)
  <2>1. mod \in Seq(Function)
    BY ModulesAssumption DEF IInv
  <2> QED
    BY <2>1 DEF IInv, TypeOK
<1>2. \A c \in 1..cur :
        /\ mod[c].blocks \in Seq(Block) /\ DOMAIN mod[c].blocks = 1..Len(mod[c].blocks)
        /\ \A i \in 1..Len(mod[c].blocks) :
             /\ mod[c].blocks[i] \in Blocks(mod[c])
             /\ mod[c].code[mod[c].blocks[i]] \in Seq(Instruction)
  <2> SUFFICES ASSUME NEW c \in 1..cur
               PROVE  /\ mod[c].blocks \in Seq(Block) /\ DOMAIN mod[c].blocks = 1..Len(mod[c].blocks)
                      /\ \A i \in 1..Len(mod[c].blocks) :
                           /\ mod[c].blocks[i] \in Blocks(mod[c])
                           /\ mod[c].code[mod[c].blocks[i]] \in Seq(Instruction)
    OBVIOUS
  <2>1. mod[c] \in Function
    BY <1>1, FnTyped DEF IInv
  <2>2. mod[c].blocks \in Seq(Block) /\ mod[c].code \in [Block -> Seq(Instruction)]
    BY <2>1 DEF Function
  <2> QED
    BY <2>2 DEF Blocks, Range
<1>3. \A c \in 1..cur : \A i \in 1..Len(mod[c].blocks) :
        DOMAIN mod[c].code[mod[c].blocks[i]] = 1..Len(mod[c].code[mod[c].blocks[i]])
  BY <1>2
<1>4. ASSUME NEW c \in 1..cur
      PROVE  IsFiniteSet(UNION Is(c))
  <2>1. ASSUME NEW i \in 1..Len(mod[c].blocks)
        PROVE  IsFiniteSet(Ks(c, i))
    <3> DEFINE D == DOMAIN mod[c].code[mod[c].blocks[i]]
               f == [k \in D |-> <<c, i, k>>]
    <3>1. mod[c].code[mod[c].blocks[i]] \in Seq(Instruction) /\ D = 1..Len(mod[c].code[mod[c].blocks[i]])
      BY <1>2, <1>3
    <3>2. Len(mod[c].code[mod[c].blocks[i]]) \in Nat
      BY <3>1, Positions
    <3>3. IsFiniteSet(D)
      BY <3>1, <3>2, Indices
    <3>4. f \in [D -> Ks(c, i)] /\ \A t \in Ks(c, i) : \E k \in D : f[k] = t
      OBVIOUS
    <3> HIDE DEF D, f, Ks
    <3> QED
      BY <3>3, <3>4, ImageIsFinite
  <2> DEFINE g == [i \in 1..Len(mod[c].blocks) |-> Ks(c, i)]
  <2>2. Len(mod[c].blocks) \in Nat /\ Is(c) = {Ks(c, i) : i \in 1..Len(mod[c].blocks)}
    <3> HIDE DEF Ks
    <3> QED
      BY <1>2, Positions
  <2>3. IsFiniteSet(1..Len(mod[c].blocks))
    BY <2>2, Indices
  <2>4. /\ g \in [1..Len(mod[c].blocks) -> Is(c)]
        /\ \A t \in Is(c) : \E i \in 1..Len(mod[c].blocks) : g[i] = t
    <3> HIDE DEF Ks, Is
    <3> QED
      BY <2>2
  <2>5. IsFiniteSet(Is(c))
    <3> HIDE DEF g, Is
    <3> QED
      BY <2>3, <2>4, ImageIsFinite
  <2>6. \A t \in Is(c) : IsFiniteSet(t)
    <3> HIDE DEF Ks
    <3> QED
      BY <2>1, <2>2
  <2> HIDE DEF Is
  <2> QED
    BY <2>5, <2>6, FS_UNION
<1>5. IsFiniteSet(Cs)
  <2> DEFINE h == [c \in 1..cur |-> UNION Is(c)]
  <2>1. h \in [1..cur -> Cs] /\ \A t \in Cs : \E c \in 1..cur : h[c] = t
    <3> HIDE DEF Is
    <3> QED
      OBVIOUS
  <2>2. IsFiniteSet(1..cur)
    BY <1>1, Indices
  <2> HIDE DEF h, Cs
  <2> QED
    BY <2>1, <2>2, ImageIsFinite
<1>6. Points = UNION Cs
  BY DEF Points
<1>7. IsFiniteSet(Points)
  <2>1. \A t \in Cs : IsFiniteSet(t)
    <3> HIDE DEF Is
    <3> QED
      BY <1>4
  <2> HIDE DEF Cs
  <2> QED
    BY <1>5, <1>6, <2>1, FS_UNION
<1>8. ASSUME NEW c \in 1..cur, NEW i \in 1..Len(mod[c].blocks),
             NEW k \in 1..Len(mod[c].code[mod[c].blocks[i]])
      PROVE  <<c, i, k>> \in Points
  <2>1. <<c, i, k>> \in Ks(c, i)
    BY <1>3
  <2>2. Ks(c, i) \in Is(c)
    BY <1>2
  <2> HIDE DEF Ks, Is
  <2> QED
    BY <1>6, <2>1, <2>2
<1>9. ASSUME NEW p \in Points
      PROVE  /\ p = <<p[1], p[2], p[3]>>
             /\ p[1] \in 1..cur /\ p[1] \in 1..Len(mod) /\ p[2] \in 1..Len(mod[p[1]].blocks)
             /\ mod[p[1]].blocks[p[2]] \in Blocks(mod[p[1]])
             /\ p[3] \in 1..Len(mod[p[1]].code[mod[p[1]].blocks[p[2]]])
  <2>1. PICK c \in 1..cur : p \in UNION Is(c)
    <3> HIDE DEF Is
    <3> QED
      BY <1>6
  <2>2. PICK i \in DOMAIN mod[c].blocks : p \in Ks(c, i)
    <3> HIDE DEF Ks
    <3> QED
      BY <2>1
  <2>3. PICK k \in DOMAIN mod[c].code[mod[c].blocks[i]] : p = <<c, i, k>>
    BY <2>2
  <2>4. i \in 1..Len(mod[c].blocks) /\ k \in 1..Len(mod[c].code[mod[c].blocks[i]])
    BY <1>2, <1>3, <2>2, <2>3
  <2> QED
    BY <1>1, <1>2, <2>3, <2>4
<1> QED
  BY <1>7, <1>8, <1>9

(* The counted points and what is live there decide the counts. *)
LEMMA SameCount ==
  ASSUME CountedSoFar' = CountedSoFar, \A p \in CountedSoFar : LiveAt(p)' = LiveAt(p), NEW k
  PROVE  With(k)' = With(k)
BY DEF With

(* Facts of other functions' blocks are left alone. *)
LEMMA ElsewhereAlike ==
  ASSUME IInv, NEW c \in 1..Len(mod), NEW p \in Points, p[1] # c, mod' = mod,
         \A b \in Block : b \notin Blocks(mod[c]) =>
           (b \in visited' <=> b \in visited) /\ out'[b] = out[b]
  PROVE  LiveAt(p)' = LiveAt(p)
<1> DEFINE b == mod[p[1]].blocks[p[2]]
<1>1. p[1] \in 1..Len(mod) /\ b \in Blocks(mod[p[1]])
  BY PointsAre
<1>2. b \in Block
  BY <1>1, FnTyped DEF IInv
<1>3. b \notin Blocks(mod[c])
  <2>1. \A i \in 1..Len(mod) : Blocks(mod[i]) \cap Blocks(mod[c]) # {} => i = c
    BY FnTyped DEF IInv
  <2> HIDE DEF b
  <2> QED
    BY <1>1, <2>1
<1>4. (b \in visited' <=> b \in visited) /\ out'[b] = out[b]
  BY <1>2, <1>3
<1> QED
  BY <1>4 DEF LiveAt

(* Starting a function adds points that are not counted yet. *)
LEMMA EvalKeepsDump ==
  ASSUME IInv, DumpInv, evalFunc
  PROVE  DumpInv'
<1> DEFINE P(c) == UNION {{<<c, i, k>> : k \in DOMAIN mod[c].code[mod[c].blocks[i]]} :
                          i \in DOMAIN mod[c].blocks}
<1>1. /\ cur \in Nat /\ cur < Len(mod) /\ cur' = cur + 1 /\ phase = "module" /\ phase' = "worklist"
      /\ mod' = mod /\ live_dump' = live_dump /\ Len(mod) \in Nat
      /\ \A b \in Block : b \notin Blocks(mod[cur + 1]) =>
           (b \in visited' <=> b \in visited) /\ out'[b] = out[b]
  <2>1. mod \in Seq(Function)
    BY ModulesAssumption DEF IInv
  <2> QED
    BY <2>1 DEF IInv, TypeOK, evalFunc
<1>2. CountedSoFar' = CountedSoFar
  <2>1. \A p : p \in Points <=> \E c \in 1..cur : p \in P(c)
    BY DEF Points
  <2>2. \A p : p \in Points' <=> \E c \in 1..(cur + 1) : p \in P(c)
    BY <1>1 DEF Points
  <2>3. \A c : \A p \in P(c) : p[1] = c
    OBVIOUS
  <2> HIDE DEF P
  <2>4. \A p : p \in Points <=> p \in Points' /\ p[1] < cur + 1
    BY <1>1, <2>1, <2>2, <2>3
  <2>5. \A p : Done(p)
    BY <1>1 DEF Done
  <2>6. \A p : Done(p)' <=> p[1] < cur + 1
    BY <1>1 DEF Done
  <2> QED
    BY <1>1, <2>4, <2>5, <2>6 DEF CountedSoFar
<1>3. ASSUME NEW p \in CountedSoFar
      PROVE  LiveAt(p)' = LiveAt(p)
  <2>1. p \in Points
    BY DEF CountedSoFar
  <2>2. p[1] \in 1..cur /\ p[1] # cur + 1 /\ cur + 1 \in 1..Len(mod)
    BY <1>1, <2>1, PointsAre
  <2> QED
    BY <1>1, <2>1, <2>2, ElsewhereAlike
<1>4. \A k : With(k)' = With(k)
  BY <1>2, <1>3, SameCount
<1> QED
  BY <1>1, <1>4 DEF DumpInv

(* Analysing a block changes facts of the function at hand, of which nothing is
   counted yet. *)
LEMMA AnalysisKeepsDump ==
  ASSUME IInv, DumpInv, performBackwardAnalysis
  PROVE  DumpInv'
<1>1. PICK b \in Blocks(fn) :
        /\ phase = "worklist" /\ cur \in 1..Len(mod) /\ UNCHANGED <<mod, cur, phase>>
        /\ visited' = visited \cup {b}
        /\ out' = [out EXCEPT ![b] = Meet(b)]
  BY Analysis
<1>2. UNCHANGED <<at, live_dump>>
  BY DEF performBackwardAnalysis
<1>3. Points' = Points /\ \A p : Done(p)' <=> Done(p)
  BY <1>1, <1>2 DEF Points, Done, Before
<1>4. CountedSoFar' = CountedSoFar
  BY <1>1, <1>3 DEF CountedSoFar
<1>5. ASSUME NEW p \in CountedSoFar
      PROVE  LiveAt(p)' = LiveAt(p)
  <2>1. p \in Points /\ p[1] < cur
    BY <1>1 DEF CountedSoFar, Done
  <2>2. p[1] \in 1..cur /\ p[1] # cur
    BY <1>1, <2>1, PointsAre
  <2>3. out \in [Block -> SUBSET Var] /\ b \in Blocks(mod[cur])
    BY DEF IInv, TypeOK, fn
  <2>4. \A x \in Block : x \notin Blocks(mod[cur]) =>
          (x \in visited' <=> x \in visited) /\ out'[x] = out[x]
    BY <1>1, <2>3
  <2> QED
    BY <1>1, <2>1, <2>2, <2>4, ElsewhereAlike
<1>6. \A k : With(k)' = With(k)
  BY <1>4, <1>5, SameCount
<1> QED
  BY <1>1, <1>2, <1>6 DEF DumpInv

(* No block is empty: where a block starts there is an instruction. *)
LEMMA BlockStarts ==
  ASSUME IInv, phase # "module", NEW i \in 1..Len(fn.blocks)
  PROVE  1 \in 1..Len(Code(fn.blocks[i]))
<1>1. cur \in 1..Len(mod)
  BY DEF IInv, TypeOK
<1>2. fn \in Function /\ WellFormed(fn)
  BY <1>1, FnTyped DEF IInv, fn
<1>3. fn.blocks \in Seq(Block) /\ fn.code \in [Block -> Seq(Instruction)]
  BY <1>2 DEF Function
<1>4. fn.blocks[i] \in Blocks(fn) /\ fn.blocks[i] \in Block
  BY <1>3 DEF Blocks, Range
<1>5. Code(fn.blocks[i]) \in Seq(Instruction) /\ Code(fn.blocks[i]) # << >>
  BY <1>2, <1>3, <1>4 DEF WellFormed, Code
<1>6. \A s \in Seq(Instruction) : s # << >> => 1 \in 1..Len(s)
  OBVIOUS
<1> QED
  BY <1>5, <1>6

(* The statistic starts at the first instruction of the function. *)
LEMMA FinalizeKeepsDump ==
  ASSUME IInv, DumpInv, finalizeBackwardAnalysis
  PROVE  DumpInv'
<1>1. /\ phase = "worklist" /\ phase' = "dump" /\ at' = <<1, 1>>
      /\ UNCHANGED <<mod, cur, out, visited, live_dump>>
  BY DEF finalizeBackwardAnalysis
<1>2. Points' = Points
  BY <1>1 DEF Points
<1>3. \A p \in Points : Done(p)' <=> Done(p)
  <2> SUFFICES ASSUME NEW p \in Points PROVE ~Before(p[2], p[3])'
    BY <1>1 DEF Done
  <2>1. p[2] \in Nat \ {0} /\ p[3] \in Nat \ {0}
    BY PointsAre
  <2> QED
    BY <1>1, <2>1 DEF Before
<1>4. CountedSoFar' = CountedSoFar
  BY <1>1, <1>2, <1>3 DEF CountedSoFar
<1>5. \A p \in CountedSoFar : LiveAt(p)' = LiveAt(p)
  BY <1>1 DEF LiveAt
<1>6. \A k : With(k)' = With(k)
  BY <1>4, <1>5, SameCount
<1>7. Unfinished' => at'[2] \in 1..Len(Code(fn.blocks[at[1]]))'
  <2> SUFFICES ASSUME 1 =< Len(fn.blocks) PROVE 1 \in 1..Len(Code(fn.blocks[1]))
    BY <1>1 DEF Unfinished, fn, Code
  <2>1. 1 \in 1..Len(fn.blocks)
    <3>1. cur \in 1..Len(mod)
      BY <1>1 DEF IInv, TypeOK
    <3>2. fn \in Function
      BY <3>1, FnTyped DEF IInv, fn
    <3>3. Len(fn.blocks) \in Nat
      BY <3>2, Positions DEF Function
    <3> QED
      BY <3>3
  <2> QED
    BY <1>1, <2>1, BlockStarts
<1> QED
  BY <1>1, <1>6, <1>7 DEF DumpInv

(* At the end of the last block every point of the function is counted. *)
LEMMA EndKeepsDump ==
  ASSUME IInv, DumpInv, EndFunction
  PROVE  DumpInv'
<1>1. /\ phase = "dump" /\ phase' = "module" /\ ~Unfinished
      /\ UNCHANGED <<mod, cur, out, visited, live_dump>>
  BY DEF EndFunction, dataflow
<1>2. Points' = Points
  BY <1>1 DEF Points
<1>3. \A p \in Points : Done(p)' /\ Done(p)
  <2> SUFFICES ASSUME NEW p \in Points PROVE Done(p)
    BY <1>1 DEF Done
  <2>1. /\ p[1] \in 1..cur /\ p[2] \in 1..Len(mod[p[1]].blocks) /\ cur \in Nat
    BY PointsAre DEF IInv, TypeOK
  <2>2. CASE p[1] < cur
    BY <2>2 DEF Done
  <2>3. CASE p[1] = cur
    <3>1. p[2] \in 1..Len(fn.blocks)
      BY <2>1, <2>3 DEF fn
    <3>2. fn \in Function
      <4>1. cur \in 1..Len(mod)
        BY <1>1 DEF IInv, TypeOK
      <4> QED
        BY <4>1, FnTyped DEF IInv, fn
    <3>3. Len(fn.blocks) \in Nat /\ at[1] \in Nat
      BY <3>2, Positions DEF Function, IInv, TypeOK
    <3>4. p[2] < at[1]
      BY <1>1, <3>1, <3>3 DEF Unfinished
    <3> QED
      BY <1>1, <3>4 DEF Done, Before
  <2> QED
    BY <2>1, <2>2, <2>3
<1>4. CountedSoFar' = CountedSoFar
  BY <1>1, <1>2, <1>3 DEF CountedSoFar
<1>5. \A p \in CountedSoFar : LiveAt(p)' = LiveAt(p)
  BY <1>1 DEF LiveAt
<1>6. \A k : With(k)' = With(k)
  BY <1>4, <1>5, SameCount
<1> QED
  BY <1>1, <1>6 DEF DumpInv

(* Each step of the statistic counts the point it stands at, with the values live
   there, and goes to the next. *)
LEMMA CalculateKeepsDump ==
  ASSUME IInv, DumpInv, calculate, phase' # "crashed"
  PROVE  DumpInv'
<1> DEFINE b == fn.blocks[at[1]]
           q == <<cur, at[1], at[2]>>
           count == Cardinality(instrInSet(b, at[2]))
<1>1. /\ phase = "dump" /\ phase' = "dump" /\ Unfinished /\ at' = NextPoint
      /\ UNCHANGED <<mod, cur, out, visited>>
  BY DEF calculate, dataflow
<1>2. /\ cur \in Nat /\ cur > 0 /\ cur \in 1..Len(mod)
      /\ at = <<at[1], at[2]>> /\ at[1] \in Nat \ {0} /\ at[2] \in Nat \ {0}
      /\ at[1] \in 1..Len(fn.blocks) /\ Len(fn.blocks) \in Nat
      /\ at[2] \in 1..Len(Code(b)) /\ Len(Code(b)) \in Nat
  <2>1. cur \in 1..Len(mod) /\ cur \in Nat /\ cur > 0 /\ at \in (Nat \ {0}) \X (Nat \ {0})
    <3>1. mod \in Seq(Function)
      BY ModulesAssumption DEF IInv
    <3> QED
      BY <1>1, <3>1 DEF IInv, TypeOK
  <2>2. fn \in Function
    BY <2>1, FnTyped DEF IInv, fn
  <2>3. fn.blocks \in Seq(Block) /\ fn.code \in [Block -> Seq(Instruction)]
    BY <2>2 DEF Function
  <2>4. Len(fn.blocks) \in Nat
    BY <2>3, Positions
  <2>5. at = <<at[1], at[2]>> /\ at[1] \in Nat \ {0} /\ at[2] \in Nat \ {0}
    BY <2>1
  <2>6. at[1] \in 1..Len(fn.blocks)
    BY <1>1, <2>4, <2>5 DEF Unfinished
  <2>7. Code(b) \in Seq(Instruction)
    BY <2>3, <2>6 DEF Code
  <2>8. Len(Code(b)) \in Nat
    BY <2>7, Positions
  <2>9. at[2] \in 1..Len(Code(b))
    BY <1>1 DEF DumpInv
  <2> QED
    BY <2>1, <2>4, <2>5, <2>6, <2>8, <2>9
<1>3. /\ q \in Points /\ q[1] = cur /\ q[2] = at[1] /\ q[3] = at[2]
      /\ mod[q[1]].blocks[q[2]] = b /\ mod[q[1]].code[b] = Code(b)
  <2>1. cur \in 1..cur
    BY <1>2
  <2>2. q \in Points
    BY <1>2, <2>1, PointsAre DEF fn, Code
  <2> QED
    BY <2>2 DEF fn, Code
<1>4. Points' = Points
  BY <1>1 DEF Points
<1>5. ASSUME NEW p \in Points
      PROVE  Done(p)' <=> Done(p) \/ p = q
  <2>1. /\ p = <<p[1], p[2], p[3]>> /\ p[1] \in 1..cur /\ p[2] \in Nat \ {0} /\ p[3] \in Nat \ {0}
        /\ p[1] = cur /\ p[2] = at[1] => p[3] \in 1..Len(Code(b))
    BY PointsAre DEF fn, Code
  <2>2. CASE p[1] # cur
    <3>1. p[1] < cur
      BY <1>2, <2>1, <2>2
    <3> QED
      BY <1>1, <3>1 DEF Done
  <2>3. CASE p[1] = cur
    <3>1. (Done(p)' <=> Before(p[2], p[3])') /\ (Done(p) <=> Before(p[2], p[3]))
      BY <1>1, <1>2, <2>3 DEF Done
    <3>2. p = q <=> p[2] = at[1] /\ p[3] = at[2]
      BY <2>1, <2>3
    <3>3. CASE at[2] < Len(Code(b))
      <4>1. at' = <<at[1], at[2] + 1>>
        BY <1>1, <3>3 DEF NextPoint
      <4>2. Before(p[2], p[3])' <=> p[2] < at[1] \/ (p[2] = at[1] /\ p[3] < at[2] + 1)
        BY <4>1 DEF Before
      <4>3. p[3] < at[2] + 1 <=> p[3] < at[2] \/ p[3] = at[2]
        BY <1>2, <2>1
      <4> QED
        BY <3>1, <3>2, <4>2, <4>3 DEF Before
    <3>4. CASE ~(at[2] < Len(Code(b)))
      <4>1. at' = <<at[1] + 1, 1>> /\ at[2] = Len(Code(b))
        BY <1>1, <1>2, <3>4 DEF NextPoint
      <4>2. Before(p[2], p[3])' <=> p[2] < at[1] + 1 \/ (p[2] = at[1] + 1 /\ p[3] < 1)
        BY <4>1 DEF Before
      <4>3. /\ ~(p[3] < 1)
            /\ p[2] < at[1] + 1 <=> p[2] < at[1] \/ p[2] = at[1]
            /\ p[2] = at[1] => p[3] < at[2] \/ p[3] = at[2]
        BY <1>2, <2>1, <2>3, <4>1
      <4> QED
        BY <3>1, <3>2, <4>2, <4>3 DEF Before
    <3> QED
      BY <3>3, <3>4
  <2> QED
    BY <2>2, <2>3
<1>6. ~Done(q)
  BY <1>1, <1>2, <1>3 DEF Done, Before
<1>7. \A p : LiveAt(p)' = LiveAt(p)
  BY <1>1 DEF LiveAt
<1>8. LiveAt(q) = instrInSet(b, at[2])
  BY <1>3 DEF LiveAt, instrInSet
<1>9. Unfinished' => at'[2] \in 1..Len(Code(fn.blocks[at[1]]))'
  <2>1. CASE at[2] < Len(Code(b))
    <3>1. at' = <<at[1], at[2] + 1>>
      BY <1>1, <2>1 DEF NextPoint
    <3>2. at'[2] = at[2] + 1 /\ Code(fn.blocks[at[1]])' = Code(b)
      BY <1>1, <3>1 DEF fn, Code
    <3> QED
      BY <1>2, <2>1, <3>2
  <2>2. CASE ~(at[2] < Len(Code(b)))
    <3>1. at' = <<at[1] + 1, 1>>
      BY <1>1, <2>2 DEF NextPoint
    <3>2. at'[2] = 1 /\ Code(fn.blocks[at[1]])' = Code(fn.blocks[at[1] + 1])
      BY <1>1, <3>1 DEF fn, Code
    <3>3. Unfinished' => at[1] + 1 \in 1..Len(fn.blocks)
      BY <1>1, <1>2, <3>1 DEF Unfinished, fn
    <3> QED
      BY <1>1, <3>2, <3>3, BlockStarts
  <2> QED
    BY <2>1, <2>2
<1>10. CASE ~Counts(Code(b)[at[2]])
  <2>1. live_dump' = live_dump
    BY <1>10 DEF calculate
  <2>2. CountedSoFar' = CountedSoFar
    <3>1. \A p \in Points : Counts(mod[p[1]].code[mod[p[1]].blocks[p[2]]][p[3]]) => p # q
      BY <1>3, <1>10
    <3> HIDE DEF q, b
    <3> QED
      BY <1>1, <1>4, <1>5, <3>1 DEF CountedSoFar
  <2>3. \A k : With(k)' = With(k)
    BY <1>7, <2>2, SameCount
  <2> QED
    BY <1>1, <1>9, <2>1, <2>3 DEF DumpInv
<1>11. CASE Counts(Code(b)[at[2]])
  <2>1. count < DumpSize /\ live_dump' = [live_dump EXCEPT ![count] = @ + 1]
    BY <1>1, <1>11 DEF calculate
  <2>2. CountedSoFar' = CountedSoFar \cup {q} /\ q \notin CountedSoFar
    <3>1. Counts(mod[q[1]].code[mod[q[1]].blocks[q[2]]][q[3]])
      BY <1>3, <1>11
    <3> HIDE DEF q, b
    <3> QED
      BY <1>1, <1>3, <1>4, <1>5, <1>6, <3>1 DEF CountedSoFar
  <2>3. \A k : With(k)' = IF k = count THEN With(k) \cup {q} ELSE With(k)
    <3>1. Cardinality(LiveAt(q)) = count
      BY <1>8
    <3> HIDE DEF q, b, count
    <3> QED
      BY <1>7, <2>2, <3>1 DEF With
  <2>4. \A k : IsFiniteSet(With(k)) /\ q \notin With(k)
    <3>1. \A k : With(k) \subseteq Points
      BY DEF With, CountedSoFar
    <3> HIDE DEF q
    <3> QED
      BY <2>2, <3>1, PointsAre, FS_Subset DEF With
  <2>5. count \in Nat
    <3>1. b \in Block
      <4>1. fn \in Function
        BY <1>2, FnTyped DEF IInv, fn
      <4> QED
        BY <1>2, <4>1 DEF Function
    <3> HIDE DEF b
    <3>2. instrInSet(b, at[2]) \in SUBSET Var
      BY <3>1, LiveTyped DEF IInv, TypeOK, instrInSet
    <3>3. IsFiniteSet(instrInSet(b, at[2]))
      BY <3>2, VarAssumption, FS_Subset
    <3> QED
      BY <3>3, FS_CardinalityType
  <2>6. ASSUME NEW k \in 0..(Filled - 1)
        PROVE  live_dump'[k] = Cardinality(With(k)')
    <3>1. live_dump[k] = Cardinality(With(k))
      BY <1>1 DEF DumpInv
    <3>2. k \in 0..(DumpSize - 1) /\ live_dump \in [0..(DumpSize - 1) -> Int]
      BY DumpAssumption DEF IInv, TypeOK
    <3>3. CASE k = count
      <4>1. Cardinality(With(k)') = Cardinality(With(k)) + 1
        <5> HIDE DEF q, count
        <5>1. With(k)' = With(k) \cup {q}
          BY <2>3, <3>3
        <5> QED
          BY <2>4, <5>1, FS_AddElement
      <4> HIDE DEF count
      <4>2. live_dump'[k] = live_dump[k] + 1
        BY <2>1, <3>2, <3>3
      <4> QED
        BY <3>1, <4>1, <4>2
    <3>4. CASE k # count
      <4> HIDE DEF q, count
      <4>1. With(k)' = With(k)
        BY <2>3, <3>4
      <4>2. live_dump'[k] = live_dump[k]
        BY <2>1, <3>2, <3>4
      <4> QED
        BY <3>1, <4>1, <4>2
    <3> QED
      BY <3>3, <3>4
  <2> QED
    BY <1>1, <1>9, <2>6 DEF DumpInv
<1> QED
  BY <1>10, <1>11

(* What the statistic holds is exact: each element that the code sets to 0 first
   counts the program points of the functions so far, phi instructions aside, at
   which so many values are live, whatever the order in which blocks and functions
   were analysed. *)
THEOREM StatisticIsExact == Spec => []DumpExact
<1>1. Init => DumpInv
  <2> SUFFICES ASSUME Init, NEW k \in 0..(Filled - 1)
               PROVE  live_dump[k] = Cardinality(With(k))
    BY DEF DumpInv, Init
  <2>1. Points = {}
    BY DEF Init, Points
  <2>2. Cardinality(With(k)) = 0
    BY <2>1, FS_EmptySet DEF With, CountedSoFar
  <2>3. live_dump[k] = 0
    BY DumpAssumption DEF Init
  <2> QED
    BY <2>2, <2>3
<1>2. IInv /\ DumpInv /\ [Next]_vars => DumpInv'
  <2> SUFFICES ASSUME IInv, DumpInv, [Next]_vars PROVE DumpInv'
    OBVIOUS
  <2>1. CASE UNCHANGED vars
    <3>1. /\ UNCHANGED <<mod, cur, phase, out, visited, at, live_dump>>
      BY <2>1 DEF vars
    <3>2. CountedSoFar' = CountedSoFar /\ \A p : LiveAt(p)' = LiveAt(p)
      BY <3>1 DEF CountedSoFar, Points, Done, Before, LiveAt
    <3>3. \A k : With(k)' = With(k)
      BY <3>2, SameCount
    <3>4. (Unfinished <=> Unfinished') /\ Code(fn.blocks[at[1]])' = Code(fn.blocks[at[1]])
      BY <3>1 DEF Unfinished, fn, Code
    <3> QED
      BY <3>1, <3>3, <3>4 DEF DumpInv
  <2>2. CASE calculate /\ phase' = "crashed"
    BY <2>2 DEF DumpInv
  <2> QED
    BY <2>1, <2>2, EvalKeepsDump, AnalysisKeepsDump, FinalizeKeepsDump, EndKeepsDump,
       CalculateKeepsDump DEF Next, Step, Terminating
<1>3. DumpInv => DumpExact
  <2> SUFFICES ASSUME DumpInv, phase \in {"dump", "module"}, NEW k \in 0..(Filled - 1)
               PROVE  live_dump[k] = WithLive(k)
    BY DEF DumpExact
  <2>1. CountedSoFar = Counted
    BY DEF CountedSoFar, Counted, Done, Counts
  <2> QED
    BY <2>1 DEF DumpInv, With, WithLive
<1> QED
  BY <1>1, <1>2, <1>3, Invariant, PTL DEF Spec
=============================================================================
