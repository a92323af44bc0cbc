------------------------ MODULE ParameterTreesProofs ------------------------
(***************************************************************************)
(* For modules of any functions, structures of any fields and trees of any *)
(* depth from two on: the fields of parameters are tagged with the accesses*)
(* of all functions that get them and with no others, and what a callee    *)
(* writes leads back to the callers after it.                              *)
(***************************************************************************)
EXTENDS ParameterTrees, FiniteSetTheorems, WellFoundedInduction, TLAPS

(* Sequences are told apart by length and elements. *)
LEMMA EmptySequence ==
  ASSUME NEW S, NEW p \in Seq(S)
  PROVE  p = << >> <=> Len(p) = 0
OBVIOUS

LEMMA SameSequence ==
  ASSUME NEW S, NEW p \in Seq(S), NEW q \in Seq(S), Len(p) = Len(q),
         ASSUME NEW n \in 1..Len(p) PROVE p[n] = q[n]
  PROVE  p = q
OBVIOUS

(* Paths of a tree: the steps are finitely many, every node but the root has
   a parent, and the first two levels are the structure and its fields. *)
LEMMA Paths ==
  ASSUME NEW p \in Shape
  PROVE  /\ Len(p) \in 0..MaxTreeDepth /\ p \in [1..Len(p) -> Field \cup {1}]
         /\ p \in Seq(Field \cup {1})
<1>1. PICK m \in 0..MaxTreeDepth : p \in [1..m -> Field \cup {1}]
  BY DEF Shape, SeqOf
<1>2. m \in Nat
  BY TypesAssumption
<1> QED
  BY <1>1, <1>2

LEMMA Parents ==
  ASSUME NEW p \in Shape, p # << >>
  PROVE  /\ Front(p) \in Shape /\ Len(Front(p)) = Len(p) - 1 /\ Len(p) > 0
         /\ Last(p) \in expandNode(Front(p))
         /\ p = Append(Front(p), Last(p))
<1>1. /\ Len(p) \in 0..MaxTreeDepth /\ p \in [1..Len(p) -> Field \cup {1}]
      /\ p \in Seq(Field \cup {1})
  BY Paths
<1>2. Len(p) > 0
  BY <1>1, EmptySequence
<1> DEFINE q == Front(p)
<1>3. /\ q \in Seq(Field \cup {1}) /\ Len(q) = Len(p) - 1
      /\ q \in [1..(Len(p) - 1) -> Field \cup {1}]
      /\ \A n \in 1..(Len(p) - 1) : q[n] = p[n]
  <2>1. /\ q \in Seq(Field \cup {1}) /\ Len(q) = Len(p) - 1
        /\ \A n \in 1..(Len(p) - 1) : q[n] = p[n]
    BY <1>1, <1>2 DEF Front
  <2> HIDE DEF q
  <2> QED
    BY <2>1
<1>4. q \in SeqOf(Field \cup {1}, MaxTreeDepth)
  <2>1. Len(p) - 1 \in 0..MaxTreeDepth
    BY <1>1, <1>2, TypesAssumption
  <2> QED
    BY <1>3, <2>1 DEF SeqOf
<1>5. \A n \in DOMAIN p : p[n] \in expandNode(SubSeq(p, 1, n - 1))
  BY DEF Shape
<1>6. ASSUME NEW n \in 1..(Len(p) - 1) PROVE SubSeq(q, 1, n - 1) = SubSeq(p, 1, n - 1)
  <2>1. /\ SubSeq(p, 1, n - 1) \in Seq(Field \cup {1}) /\ Len(SubSeq(p, 1, n - 1)) = n - 1
        /\ \A m \in 1..(n - 1) : SubSeq(p, 1, n - 1)[m] = p[m]
    BY <1>1, <1>2
  <2>2. q \in Seq(Field \cup {1})
    BY <1>1, <1>2, <1>3
  <2> HIDE DEF q
  <2>3. /\ SubSeq(q, 1, n - 1) \in Seq(Field \cup {1}) /\ Len(SubSeq(q, 1, n - 1)) = n - 1
        /\ \A m \in 1..(n - 1) : SubSeq(q, 1, n - 1)[m] = q[m]
    BY <1>1, <1>2, <1>3, <2>2
  <2>4. ASSUME NEW m \in 1..(n - 1) PROVE SubSeq(q, 1, n - 1)[m] = SubSeq(p, 1, n - 1)[m]
    BY <1>1, <1>3, <2>1, <2>3
  <2> QED
    BY <2>1, <2>3, <2>4, SameSequence
<1>7. q \in Shape
  <2> HIDE DEF q
  <2>1. ASSUME NEW n \in DOMAIN q PROVE q[n] \in expandNode(SubSeq(q, 1, n - 1))
    <3>1. n \in 1..(Len(p) - 1) /\ n \in DOMAIN p
      BY <1>1, <1>3
    <3> QED
      BY <1>3, <1>5, <1>6, <3>1
  <2> QED
    BY <1>4, <2>1 DEF Shape
<1>8. Last(p) \in expandNode(q)
  <2>1. Len(p) \in DOMAIN p
    BY <1>1, <1>2
  <2> QED
    BY <1>5, <2>1 DEF Last, Front
<1>9. p = Append(q, Last(p))
  <2>1. q \in Seq(Field \cup {1}) /\ Last(p) \in Field \cup {1}
    BY <1>1, <1>2, <1>3 DEF Last
  <2>2. Append(q, Last(p)) \in Seq(Field \cup {1}) /\ Len(Append(q, Last(p))) = Len(p)
    <3> HIDE DEF q
    <3>1. Append(q, Last(p)) \in Seq(Field \cup {1}) /\ Len(Append(q, Last(p))) = Len(q) + 1
      BY <2>1
    <3> QED
      BY <1>1, <1>3, <3>1
  <2>3. ASSUME NEW n \in 1..Len(p) PROVE p[n] = Append(q, Last(p))[n]
    BY <1>1, <1>2, <1>3, <2>1 DEF Last
  <2> HIDE DEF q
  <2> QED
    BY <1>1, <2>2, <2>3, SameSequence
<1> QED
  BY <1>2, <1>3, <1>7, <1>8, <1>9

LEMMA FirstLevels ==
  /\ << >> \in Shape /\ <<1>> \in Shape /\ \A i \in Field : <<1, i>> \in Shape
  /\ \A p \in Shape : Len(p) = 1 => p = <<1>>
  /\ \A p \in Shape : Len(p) = 2 => \E i \in Field : p = <<1, i>>
<1>1. << >> \in Shape
  <2>1. << >> \in SeqOf(Field \cup {1}, MaxTreeDepth)
    BY TypesAssumption DEF SeqOf
  <2> QED
    BY <2>1 DEF Shape
<1>2. expandNode(<< >>) = {1} /\ expandNode(<<1>>) = Field
  BY DEF expandNode, IsStruct, IsPointer
<1>3. <<1>> \in Shape
  <2>1. <<1>> \in [1..1 -> Field \cup {1}] /\ 1 \in 0..MaxTreeDepth
    BY TypesAssumption
  <2>2. <<1>> \in SeqOf(Field \cup {1}, MaxTreeDepth)
    BY <2>1 DEF SeqOf
  <2>3. \A n \in DOMAIN <<1>> : n = 1 /\ SubSeq(<<1>>, 1, n - 1) = << >>
    OBVIOUS
  <2>4. ASSUME NEW n \in DOMAIN << 1 >> PROVE << 1 >>[n] \in expandNode(SubSeq(<< 1 >>, 1, n - 1))
    <3>1. n = 1 /\ SubSeq(<<1>>, 1, n - 1) = << >> /\ <<1>>[n] = 1
      BY <2>3
    <3> QED
      BY <1>2, <3>1, Zenon
  <2> QED
    BY <2>2, <2>4 DEF Shape
<1>4. ASSUME NEW i \in Field PROVE <<1, i>> \in Shape
  <2>1. <<1, i>> \in [1..2 -> Field \cup {1}] /\ 2 \in 0..MaxTreeDepth
    BY TypesAssumption
  <2>2. <<1, i>> \in SeqOf(Field \cup {1}, MaxTreeDepth)
    BY <2>1 DEF SeqOf
  <2>3. SubSeq(<<1, i>>, 1, 0) = << >> /\ SubSeq(<<1, i>>, 1, 1) = <<1>>
    <3> DEFINE q == SubSeq(<<1, i>>, 1, 1)
    <3>1. q \in Seq(Field \cup {1}) /\ Len(q) = 1 /\ q[1] = 1
      OBVIOUS
    <3>2. <<1>> \in Seq(Field \cup {1}) /\ Len(<<1>>) = 1 /\ <<1>>[1] = 1
      OBVIOUS
    <3> HIDE DEF q
    <3>3. ASSUME NEW n \in 1..Len(q) PROVE q[n] = <<1>>[n]
      BY <3>1, <3>2
    <3>4. q = <<1>>
      BY <3>1, <3>2, <3>3, SameSequence
    <3> QED
      BY <3>4 DEF q
  <2>4. \A n \in DOMAIN <<1, i>> : n = 1 \/ n = 2
    OBVIOUS
  <2>5. ASSUME NEW n \in DOMAIN <<1, i>> PROVE <<1, i>>[n] \in expandNode(SubSeq(<<1, i>>, 1, n - 1))
    <3>1. CASE n = 1
      <4>1. SubSeq(<<1, i>>, 1, n - 1) = << >> /\ <<1, i>>[n] = 1
        BY <2>3, <3>1
      <4> QED
        BY <1>2, <4>1, Zenon
    <3>2. CASE n = 2
      <4>1. SubSeq(<<1, i>>, 1, n - 1) = <<1>> /\ <<1, i>>[n] = i
        BY <2>3, <3>2
      <4> QED
        BY <1>2, <4>1, Zenon
    <3> QED
      BY <2>4, <3>1, <3>2
  <2> QED
    BY <2>2, <2>5 DEF Shape
<1>5. ASSUME NEW p \in Shape, Len(p) = 1 PROVE p = <<1>>
  <2>1. /\ p \in Seq(Field \cup {1}) /\ p # << >>
    <3>1. p \in Seq(Field \cup {1}) /\ Len(p) # 0
      BY <1>5, Paths
    <3> QED
      BY <3>1, EmptySequence
  <2>2. Len(Front(p)) = 0 /\ Front(p) \in Shape /\ Last(p) \in expandNode(Front(p))
    BY <1>5, <2>1, Parents
  <2>3. Front(p) = << >>
    BY <2>2, Paths, EmptySequence
  <2>4. p[1] = 1
    BY <1>2, <1>5, <2>2, <2>3 DEF Last
  <2> QED
    BY <1>5, <2>1, <2>4
<1>6. ASSUME NEW p \in Shape, Len(p) = 2 PROVE \E i \in Field : p = <<1, i>>
  <2>1. /\ p \in Seq(Field \cup {1}) /\ p # << >>
    <3>1. p \in Seq(Field \cup {1}) /\ Len(p) # 0
      BY <1>6, Paths
    <3> QED
      BY <3>1, EmptySequence
  <2>2. Len(Front(p)) = 1 /\ Front(p) \in Shape /\ Last(p) \in expandNode(Front(p))
    <3>1. Len(Front(p)) = Len(p) - 1 /\ Front(p) \in Shape /\ Last(p) \in expandNode(Front(p))
      BY <2>1, Parents
    <3> QED
      BY <1>6, <3>1
  <2>3. Front(p) = <<1>>
    BY <2>2, <1>5
  <2>4. p[1] = 1 /\ p[2] \in Field
    <3>1. Front(p)[1] = p[1]
      BY <1>6, <2>1 DEF Front
    <3> QED
      BY <1>2, <1>6, <2>2, <2>3, <3>1 DEF Last
  <2> QED
    BY <1>6, <2>1, <2>4
<1> QED
  BY <1>1, <1>3, <1>4, <1>5, <1>6

(* A path is the set of its numbered steps. *)
LEMMA ShapeIsFinite == IsFiniteSet(Shape)
<1> DEFINE Steps == (1..MaxTreeDepth) \X (Field \cup {1})
           steps == [p \in Shape |-> {<<n, p[n]>> : n \in 1..Len(p)}]
<1>1. IsFiniteSet(1..MaxTreeDepth) /\ IsFiniteSet(Field \cup {1})
  BY TypesAssumption, FS_Interval, FS_AddElement
<1>2. IsFiniteSet(SUBSET Steps)
  BY <1>1, FS_Product, FS_SUBSET
<1>3. steps \in [Shape -> SUBSET Steps]
  <2>1. ASSUME NEW p \in Shape, NEW n \in 1..Len(p) PROVE <<n, p[n]>> \in Steps
    BY Paths, TypesAssumption
  <2> QED
    BY <2>1
<1>4. ASSUME NEW p \in Shape, NEW q \in Shape, steps[p] = steps[q] PROVE p = q
  <2>1. p \in Seq(Field \cup {1}) /\ q \in Seq(Field \cup {1})
    BY Paths
  <2>2. ASSUME NEW n \in 1..Len(p) PROVE n \in 1..Len(q) /\ q[n] = p[n]
    <3>1. <<n, p[n]>> \in steps[q]
      BY <1>4
    <3> QED
      BY <3>1
  <2>3. ASSUME NEW n \in 1..Len(q) PROVE n \in 1..Len(p)
    <3>1. <<n, q[n]>> \in steps[p]
      BY <1>4
    <3> QED
      BY <3>1
  <2>4. Len(p) = Len(q)
    BY <2>1, <2>2, <2>3
  <2> QED
    BY <2>1, <2>2, <2>4
<1>5. steps \in Injection(Shape, SUBSET Steps)
  BY <1>3, <1>4 DEF Injection, IsInjective
<1> QED
  BY <1>2, <1>5, FS_Injection

-----------------------------------------------------------------------------
(* Of sets with finitely many elements at hand some are smallest. *)
LEMMA SmallestSet ==
  ASSUME NEW N, IsFiniteSet(N), NEW T \in SUBSET SUBSET N, T # {}
  PROVE  \E x \in T : \A y \in T : y \subseteq x => y = x
<1>1. IsWellFoundedOn(StrictSubsetOrdering(N), SUBSET N)
  BY FS_StrictSubsetOrderingWellFounded, FS_FiniteSubsetsOfFinite
<1>2. PICK x \in T : \A y \in T : <<y, x>> \notin StrictSubsetOrdering(N)
  BY <1>1, WFMin
<1>3. ASSUME NEW y \in T, y \subseteq x, y # x PROVE FALSE
  <2>1. <<y, x>> \in (SUBSET N) \X (SUBSET N)
    OBVIOUS
  <2>2. <<y, x>> \in StrictSubsetOrdering(N)
    BY <1>3, <2>1 DEF StrictSubsetOrdering
  <2> QED
    BY <1>2, <2>2
<1> QED
  BY <1>3

(* Counting up to n. *)
LEMMA UpTo ==
  ASSUME NEW n \in Nat, NEW S, 0 \in S, \A k \in 1..n : k - 1 \in S => k \in S
  PROVE  0..n \subseteq S
<1> DEFINE T == {k \in 0..n : k \notin S}
           Initial == {0..k : k \in T}
<1> SUFFICES ASSUME T # {} PROVE FALSE
  OBVIOUS
<1>1. IsFiniteSet(0..n)
  BY FS_Interval
<1>2. \E x \in Initial : \A y \in Initial : y \subseteq x => y = x
  <2> DEFINE N == 0..n
  <2>1. Initial \in SUBSET SUBSET N /\ Initial # {} /\ IsFiniteSet(N)
    BY <1>1
  <2> HIDE DEF Initial, N
  <2> QED
    BY <2>1, SmallestSet
<1> HIDE DEF Initial
<1> PICK x \in Initial : \A y \in Initial : y \subseteq x => y = x
  BY <1>2
<1> USE DEF Initial
<1>3. PICK k \in T : x = 0..k
  OBVIOUS
<1>4. k \in 1..n /\ k - 1 \notin S
  OBVIOUS
<1>5. 0..(k - 1) \in Initial
  BY <1>4
<1>6. 0..(k - 1) \subseteq 0..k /\ k \notin 0..(k - 1) /\ k \in 0..k
  BY <1>4
<1> HIDE DEF Initial, T
<1> QED
  BY <1>3, <1>5, <1>6

(* Address variables are derived from those of a node nearer to the root. *)
Origin(p) == IF IsStruct(Front(p)) THEN Front(Front(p)) ELSE Front(p)

LEMMA Origins ==
  ASSUME NEW p \in Shape, p # << >>
  PROVE  Origin(p) \in Shape /\ Len(Origin(p)) \in 0..(Len(p) - 1)
<1>1. /\ Front(p) \in Shape /\ Len(Front(p)) = Len(p) - 1 /\ Len(p) \in Nat /\ Len(p) > 0
      /\ Len(Front(p)) \in Nat
  BY Parents, Paths
<1>2. CASE IsStruct(Front(p))
  <2>1. Front(p) # << >>
    <3>1. Len(Front(p)) # 0
      BY <1>1, <1>2 DEF IsStruct
    <3>2. Front(p) \in Seq(Field \cup {1})
      BY <1>1, Paths
    <3> QED
      BY <3>1, <3>2, EmptySequence
  <2>2. Front(Front(p)) \in Shape /\ Len(Front(Front(p))) = Len(Front(p)) - 1 /\ Len(Front(p)) > 0
    BY <1>1, <2>1, Parents
  <2>3. Len(Front(Front(p))) \in 0..(Len(p) - 1)
    BY <1>1, <2>2
  <2> QED
    BY <1>2, <2>2, <2>3 DEF Origin
<1>3. CASE ~IsStruct(Front(p))
  BY <1>1, <1>3 DEF Origin
<1> QED
  BY <1>2, <1>3

(* The definition of the address variables of a tree determines them. *)
AddrStep(f, roots, p, a) ==
  IF p = << >> THEN roots ELSE computeDerivedAddrVarsFromParent(f, p, a)

LEMMA StepIsLocal ==
  ASSUME NEW f, NEW roots, NEW p \in Shape, NEW a, NEW b,
         p # << >> => a[Origin(p)] = b[Origin(p)]
  PROVE  AddrStep(f, roots, p, a) = AddrStep(f, roots, p, b)
<1>1. CASE p = << >>
  BY <1>1 DEF AddrStep
<1>2. CASE p # << >>
  BY <1>2 DEF AddrStep, computeDerivedAddrVarsFromParent, Origin
<1> QED
  BY <1>1, <1>2

LEMMA AddrVarsAre ==
  ASSUME NEW f, NEW roots
  PROVE  /\ DOMAIN AddrVars(f, roots) = Shape
         /\ \A p \in Shape : AddrVars(f, roots)[p] = AddrStep(f, roots, p, AddrVars(f, roots))
<1> DEFINE Near(n) == {p \in Shape : Len(p) =< n}
           Fits(a, n) == /\ a = [p \in Near(n) |-> a[p]]
                         /\ \A p \in Near(n) : a[p] = AddrStep(f, roots, p, a)
           S == {n \in 0..MaxTreeDepth : \E a : Fits(a, n)}
<1>1. 0 \in S
  <2> DEFINE a == [p \in Near(0) |-> roots]
  <2>1. ASSUME NEW p \in Near(0) PROVE p = << >>
    <3>1. p \in Seq(Field \cup {1}) /\ Len(p) = 0
      BY Paths
    <3> QED
      BY <3>1, EmptySequence
  <2>2. Fits(a, 0)
    BY <2>1 DEF AddrStep
  <2>3. 0 \in 0..MaxTreeDepth
    BY TypesAssumption
  <2> HIDE DEF Fits, a
  <2> QED
    BY <2>2, <2>3
<1>2. ASSUME NEW n \in 1..MaxTreeDepth, n - 1 \in S
      PROVE  n \in S
  <2>1. PICK a : Fits(a, n - 1)
    BY <1>2
  <2> DEFINE b == [p \in Near(n) |-> AddrStep(f, roots, p, a)]
  <2>2. n \in Nat
    BY TypesAssumption
  <2>3. ASSUME NEW p \in Near(n), p # << >>
        PROVE  a[Origin(p)] = b[Origin(p)]
    <3>1. Origin(p) \in Near(n - 1) /\ Origin(p) \in Near(n)
      <4>1. Origin(p) \in Shape /\ Len(Origin(p)) \in 0..(Len(p) - 1) /\ Len(p) \in Nat
        BY <2>3, Origins, Paths
      <4> QED
        BY <2>2, <4>1
    <3>2. a[Origin(p)] = AddrStep(f, roots, Origin(p), a)
      BY <2>1, <3>1
    <3> QED
      BY <3>1, <3>2
  <2>4. Fits(b, n)
    <3>1. \A p \in Near(n) : b[p] = AddrStep(f, roots, p, a)
      OBVIOUS
    <3>2. b = [p \in Near(n) |-> b[p]] /\ \A p \in Near(n) : p \in Shape
      OBVIOUS
    <3> HIDE DEF b, Near
    <3>3. ASSUME NEW p \in Near(n) PROVE b[p] = AddrStep(f, roots, p, b)
      <4>1. p \in Shape /\ (p # << >> => a[Origin(p)] = b[Origin(p)])
        BY <2>3, <3>2
      <4>2. AddrStep(f, roots, p, a) = AddrStep(f, roots, p, b)
        BY <4>1, StepIsLocal
      <4> QED
        BY <3>1, <4>2
    <3> QED
      BY <3>2, <3>3
  <2> HIDE DEF Fits, b
  <2> QED
    BY <2>4
<1> HIDE DEF S
<1>3. MaxTreeDepth \in S
  BY <1>1, <1>2, UpTo, TypesAssumption
<1> USE DEF S
<1>4. PICK a : Fits(a, MaxTreeDepth)
  BY <1>3
<1>5. Near(MaxTreeDepth) = Shape
  BY Paths, TypesAssumption
<1> DEFINE Solves(g) == g = [p \in Shape |-> AddrStep(f, roots, p, g)]
<1>6. Solves(a)
  BY <1>4, <1>5
<1>7. AddrVars(f, roots) = CHOOSE g : Solves(g)
  BY DEF AddrVars, AddrStep
<1>8. Solves(AddrVars(f, roots))
  <2> HIDE DEF Solves
  <2> QED
    BY <1>6, <1>7
<1> QED
  BY <1>8

-----------------------------------------------------------------------------
(* What a module is made of. *)
LEMMA FunctionIs ==
  ASSUME prog \in Programs, NEW f \in FunctionName
  PROVE  /\ Params(f) \in Seq(BOOLEAN) /\ Insts(f) \in Seq(Instruction)
         /\ DOMAIN Insts(f) = 1..Len(Insts(f)) /\ Len(Insts(f)) \in Nat
         /\ DOMAIN Params(f) = 1..Len(Params(f)) /\ Len(Params(f)) \in Nat
         /\ \A u \in DOMAIN Insts(f) : Insts(f)[u] \in Instruction
<1>1. WellFormed(prog)
  BY ProgramAssumption
<1>2. Params(f) \in Seq(BOOLEAN) /\ Insts(f) \in Seq(Instruction)
  BY <1>1 DEF WellFormed, Params, Insts
<1> QED
  BY <1>2

LEMMA InstructionIs ==
  ASSUME prog \in Programs, NEW f \in FunctionName, NEW u \in DOMAIN Insts(f)
  PROVE  /\ Insts(f)[u].op = "param" => Insts(f)[u].base \in DOMAIN Params(f)
         /\ Insts(f)[u].op = "gep" =>
              /\ Insts(f)[u].base \in DOMAIN Insts(f) /\ Insts(f)[u].field \in Field
              /\ Insts(f)[Insts(f)[u].base].op \in {"param", "load"}
         /\ Insts(f)[u].op \in {"load", "store"} =>
              Insts(f)[u].base \in DOMAIN Insts(f) /\ Insts(f)[Insts(f)[u].base].op = "gep"
         /\ Insts(f)[u].op = "call" =>
              /\ Insts(f)[u].callee \in FunctionName /\ Insts(f)[u].args \in Seq(Nat)
              /\ DOMAIN Insts(f)[u].args = DOMAIN Params(Insts(f)[u].callee)
              /\ \A v \in Range(Insts(f)[u].args) :
                   v \in DOMAIN Insts(f) /\ Insts(f)[v].op \in {"param", "load"}
<1>1. WellFormed(prog)
  BY ProgramAssumption
<1> DEFINE i == Insts(f)[u]
           Pointers == {v \in DOMAIN Insts(f) : Insts(f)[v].op \in {"param", "load"}}
<1>2. /\ i.op = "param" => i.base \in DOMAIN Params(f)
      /\ i.op = "gep" => i.base \in Pointers /\ i.field \in Field
      /\ i.op \in {"load", "store"} => i.base \in DOMAIN Insts(f) /\ Insts(f)[i.base].op = "gep"
      /\ i.op = "call" => /\ i.callee \in FunctionName /\ Range(i.args) \subseteq Pointers
                         /\ Len(i.args) = Len(Params(i.callee))
  BY <1>1 DEF WellFormed, Params, Insts
<1>3. i \in Instruction
  BY FunctionIs
<1>4. i.args \in Seq(Nat)
  BY <1>3 DEF Instruction
<1>5. i.op = "call" => DOMAIN i.args = DOMAIN Params(i.callee)
  BY <1>2, <1>4, FunctionIs
<1> QED
  BY <1>2, <1>4, <1>5

(* The roots of a tree, and what is derived from them. *)
LEMMA Derived ==
  ASSUME NEW f, NEW roots, NEW p \in Shape, p # << >>, NEW u \in AddrVars(f, roots)[p]
  PROVE  \E v \in AddrVars(f, roots)[Origin(p)] :
           \/ u \in Users(f, v, "gep") /\ isGEPOffsetMatchDIOffset(p, Insts(f)[u].field)
           \/ u \in Users(f, v, "load")
<1>1. u \in computeDerivedAddrVarsFromParent(f, p, AddrVars(f, roots))
  BY AddrVarsAre DEF AddrStep
<1> QED
  BY <1>1 DEF computeDerivedAddrVarsFromParent, Origin

LEMMA LocalAddresses ==
  ASSUME NEW f, NEW roots \in SUBSET DOMAIN Insts(f), NEW p \in Shape
  PROVE  AddrVars(f, roots)[p] \subseteq DOMAIN Insts(f)
<1>1. CASE p = << >>
  BY <1>1, AddrVarsAre DEF AddrStep
<1>2. CASE p # << >>
  BY <1>2, Derived DEF Users
<1> QED
  BY <1>1, <1>2

LEMMA RootAddresses ==
  ASSUME NEW f, NEW roots
  PROVE  AddrVars(f, roots)[<< >>] = roots
BY AddrVarsAre, FirstLevels DEF AddrStep

(* The addresses of a field of the structure. *)
LEMMA FirstFields ==
  ASSUME NEW f, NEW roots, NEW i \in Field
  PROVE  AddrVars(f, roots)[<<1, i>>] =
           UNION {{u \in Users(f, v, "gep") : Insts(f)[u].field = i} : v \in roots}
<1>1. Front(<<1, i>>) = <<1>>
  <2> DEFINE q == SubSeq(<<1, i>>, 1, 1)
  <2>1. q \in Seq({1}) /\ Len(q) = 1 /\ q[1] = 1
    OBVIOUS
  <2>2. <<1>> \in Seq({1}) /\ Len(<<1>>) = 1 /\ <<1>>[1] = 1
    OBVIOUS
  <2> HIDE DEF q
  <2>3. ASSUME NEW n \in 1..Len(q) PROVE q[n] = <<1>>[n]
    BY <2>1, <2>2
  <2>4. q = <<1>>
    BY <2>1, <2>2, <2>3, SameSequence
  <2>5. Len(<<1, i>>) - 1 = 1
    OBVIOUS
  <2> QED
    BY <2>4, <2>5 DEF Front, q
<1>2. Front(<<1>>) = << >>
  BY DEF Front
<1>3. IsStruct(<<1>>) /\ ~IsStruct(<<1, i>>)
  BY DEF IsStruct
<1>4. Last(<<1, i>>) = i
  BY DEF Last
<1>5. <<1, i>> # << >> /\ <<1, i>> \in Shape
  BY FirstLevels
<1>6. AddrVars(f, roots)[<<1, i>>] = computeDerivedAddrVarsFromParent(f, <<1, i>>, AddrVars(f, roots))
  BY <1>5, AddrVarsAre DEF AddrStep
<1>7. AddrVars(f, roots)[Front(Front(<<1, i>>))] = roots
  BY <1>1, <1>2, RootAddresses
<1>8. \A u : isGEPOffsetMatchDIOffset(<<1, i>>, Insts(f)[u].field) <=> Insts(f)[u].field = i
  BY <1>3, <1>4 DEF isGEPOffsetMatchDIOffset
<1> QED
  BY <1>1, <1>3, <1>6, <1>7, <1>8 DEF computeDerivedAddrVarsFromParent

(* A loaded parameter is an address variable of a root only, and the address of
   a field of it one of the two levels below that root. *)
LEMMA OnlyRoots ==
  ASSUME NEW f, NEW roots, NEW p \in Shape, NEW w \in AddrVars(f, roots)[p],
         Insts(f)[w].op = "param"
  PROVE  p = << >> /\ w \in roots
<1>1. p = << >>
  BY Derived DEF Users
<1> QED
  BY <1>1, RootAddresses

LEMMA OnlyFirstLevels ==
  ASSUME NEW f, NEW roots, NEW p \in Shape, NEW u \in AddrVars(f, roots)[p],
         \A v \in roots : Insts(f)[v].op \in {"param", "load"},
         Insts(f)[u].op = "gep", Insts(f)[Insts(f)[u].base].op = "param"
  PROVE  /\ Insts(f)[u].base \in roots
         /\ \/ p = <<1>> /\ Insts(f)[u].field = 1
            \/ p = <<1, Insts(f)[u].field>>
<1>1. p # << >>
  BY RootAddresses
<1>2. PICK v \in AddrVars(f, roots)[Origin(p)] :
         u \in Users(f, v, "gep") /\ isGEPOffsetMatchDIOffset(p, Insts(f)[u].field)
  <2>1. PICK v \in AddrVars(f, roots)[Origin(p)] :
           \/ u \in Users(f, v, "gep") /\ isGEPOffsetMatchDIOffset(p, Insts(f)[u].field)
           \/ u \in Users(f, v, "load")
    BY <1>1, Derived
  <2>2. u \notin Users(f, v, "load")
    BY DEF Users
  <2> QED
    BY <2>1, <2>2
<1>3. v = Insts(f)[u].base
  BY <1>2 DEF Users
<1>4. Origin(p) \in Shape
  BY <1>1, Origins
<1>5. Origin(p) = << >> /\ v \in roots
  BY <1>2, <1>3, <1>4, OnlyRoots
<1>6. /\ Front(p) \in Shape /\ Len(Front(p)) = Len(p) - 1 /\ Len(p) \in Nat
      /\ Last(p) \in expandNode(Front(p))
  BY <1>1, Parents, Paths
<1>7. CASE IsStruct(Front(p))
  <2>1. Len(Front(p)) % 2 = 1 /\ 0 % 2 # 1
    BY <1>7 DEF IsStruct
  <2>2. Front(p) # << >>
    <3>1. Len(Front(p)) # 0 /\ Front(p) \in Seq(Field \cup {1})
      BY <1>6, <2>1, Paths
    <3> QED
      BY <3>1, EmptySequence
  <2>3. Len(Front(Front(p))) = Len(Front(p)) - 1 /\ Front(Front(p)) \in Shape
    BY <1>6, <2>2, Parents
  <2>4. Len(Front(Front(p))) = 0
    BY <1>5, <1>7 DEF Origin
  <2>5. Len(p) = 2
    <3>1. Len(Front(p)) \in Int
      BY <1>6
    <3>2. Len(Front(p)) = 1
      BY <2>3, <2>4, <3>1
    <3>3. Len(p) \in Nat /\ Len(p) - 1 = 1
      BY <1>6, <3>2
    <3> QED
      BY <3>3
  <2>6. PICK i \in Field : p = <<1, i>>
    BY <2>5, FirstLevels
  <2>7. Insts(f)[u].field = i
    BY <1>2, <2>6 DEF isGEPOffsetMatchDIOffset, IsStruct, Last
  <2> QED
    BY <1>3, <1>5, <2>6, <2>7
<1>8. CASE ~IsStruct(Front(p))
  <2>1. Len(Front(p)) = 0
    BY <1>5, <1>8 DEF Origin
  <2>2. Len(p) = 1
    BY <1>6, <2>1
  <2>3. p = <<1>>
    BY <2>2, FirstLevels
  <2>4. Insts(f)[u].field = 1
    BY <1>2, <2>3 DEF isGEPOffsetMatchDIOffset, IsStruct
  <2> QED
    BY <1>3, <1>5, <2>3, <2>4
<1> QED
  BY <1>7, <1>8

-----------------------------------------------------------------------------
(* findNodesReachedByEdges finds the least set that has the node it starts from
   and that no edge of the type leaves. *)
LEMMA ReachedIsLeast ==
  ASSUME NEW E, IsFiniteSet(E), NEW n, NEW type
  PROVE  /\ n \in ReachedBy(E, n, type)
         /\ \A e \in E : e.type = type /\ e.src \in ReachedBy(E, n, type) => e.dst \in ReachedBy(E, n, type)
         /\ \A C : /\ n \in C
                   /\ \A e \in E : e.type = type /\ e.src \in C => e.dst \in C
                   => ReachedBy(E, n, type) \subseteq C
<1> DEFINE typed == {e \in E : e.type = type}
           N == {n} \cup {e.dst : e \in typed}
           step(seen) == seen \cup {e.dst : e \in {x \in typed : x.src \in seen}}
           Closed(C) == \A e \in typed : e.src \in C => e.dst \in C
           Least(seen) == {y \in N : \A C \in SUBSET N : seen \subseteq C /\ Closed(C) => y \in C}
           Search(r) == r = [seen \in SUBSET N |-> IF step(seen) = seen THEN seen ELSE r[step(seen)]]
<1>1. IsFiniteSet(N)
  <2> DEFINE dst == [e \in typed |-> e.dst]
  <2>1. IsFiniteSet(typed)
    BY FS_Subset
  <2>2. dst \in Surjection(typed, {e.dst : e \in typed})
    BY DEF Surjection
  <2>3. IsFiniteSet({e.dst : e \in typed})
    BY <2>1, <2>2, FS_Surjection
  <2> QED
    BY <2>3, FS_AddElement
<1>2. ASSUME NEW seen \in SUBSET N
      PROVE  /\ step(seen) \in SUBSET N /\ seen \subseteq step(seen)
             /\ seen \subseteq Least(seen)
             /\ step(seen) = seen => Least(seen) = seen
             /\ Least(step(seen)) = Least(seen)
  <2>1. step(seen) \in SUBSET N /\ seen \subseteq step(seen)
    OBVIOUS
  <2>2. seen \subseteq Least(seen)
    OBVIOUS
  <2>3. step(seen) = seen => Closed(seen)
    OBVIOUS
  <2>4. step(seen) = seen => Least(seen) = seen
    BY <2>2, <2>3
  <2>5. \A C \in SUBSET N : Closed(C) => (seen \subseteq C <=> step(seen) \subseteq C)
    OBVIOUS
  <2>6. Least(step(seen)) = Least(seen)
    BY <2>5
  <2> QED
    BY <2>1, <2>2, <2>4, <2>6
<1>3. Search([seen \in SUBSET N |-> Least(seen)])
  <2> DEFINE r == [seen \in SUBSET N |-> Least(seen)]
  <2> HIDE DEF N, step, Least
  <2>1. ASSUME NEW seen \in SUBSET N
        PROVE  r[seen] = IF step(seen) = seen THEN seen ELSE r[step(seen)]
    BY <1>2
  <2> QED
    BY <2>1
<1>4. ASSUME NEW r, Search(r), NEW seen \in SUBSET N
      PROVE  r[seen] = Least(seen)
  <2> DEFINE Bad == {x \in SUBSET N : r[x] # Least(x)}
             Rest == {N \ x : x \in Bad}
  <2> HIDE DEF step, Least
  <2> SUFFICES ASSUME Bad # {} PROVE FALSE
    OBVIOUS
  <2>1. Rest \in SUBSET SUBSET N /\ Rest # {}
    OBVIOUS
  <2> HIDE DEF Rest, N
  <2>2. PICK m \in Rest : \A y \in Rest : y \subseteq m => y = m
    BY <1>1, <2>1, SmallestSet
  <2> USE DEF Rest
  <2>3. PICK x \in Bad : m = N \ x
    OBVIOUS
  <2>4. step(x) \in SUBSET N /\ x \subseteq step(x) /\ Least(step(x)) = Least(x)
    BY <1>2
  <2>5. r[x] = IF step(x) = x THEN x ELSE r[step(x)]
    BY <1>4
  <2>6. step(x) # x
    BY <1>2, <2>5
  <2>7. step(x) \in Bad
    BY <2>4, <2>5, <2>6
  <2> QED
    BY <2>2, <2>3, <2>4, <2>6, <2>7
<1>5. ReachedBy(E, n, type) = Least({n})
  <2>1. ReachedBy(E, n, type) = (CHOOSE r : Search(r))[{n}]
    BY DEF ReachedBy
  <2> HIDE DEF Search, Least
  <2> QED
    BY <1>3, <1>4, <2>1
<1>6. Closed(Least({n}))
  OBVIOUS
<1>7. ASSUME NEW C, n \in C, \A e \in E : e.type = type /\ e.src \in C => e.dst \in C
      PROVE  Least({n}) \subseteq C
  <2>1. C \cap N \in SUBSET N /\ {n} \subseteq C \cap N /\ Closed(C \cap N)
    BY <1>7
  <2> QED
    BY <2>1
<1> QED
  BY <1>5, <1>6, <1>7

-----------------------------------------------------------------------------
(* The inductive invariant.  The functions have their turns in the order of the
   module; the edges of those that had theirs are there, and no edge the search
   for accesses follows is there for another reason. *)
InOrder ==
  /\ waiting \in Seq(FunctionName)
  /\ \E n \in 0..Len(prog.order) :
       /\ Len(waiting) = Len(prog.order) - n
       /\ \A j \in 1..Len(waiting) : waiting[j] = prog.order[n + j]

(* How far a function is. *)
Begun(f) == f \notin Range(waiting) \/ (f = Head(waiting) /\ stage # "intra")
Called(f) == f \notin Range(waiting) \/ (f = Head(waiting) /\ stage = "formal")
Finished(f) == f \notin Range(waiting)

Callee(f, c) == Insts(f)[c].callee
Args(f, c)   == Insts(f)[c].args
ComesBefore(g, f) == \E m, n \in DOMAIN prog.order : m =< n /\ prog.order[m] = g /\ prog.order[n] = f
CallIsLaid(f, c) ==
  \A k \in DOMAIN Args(f, c) :
    /\ connectActualTrees(f, c, Args(f, c)[k]) \subseteq edges
    /\ connectInTrees(f, c, Args(f, c)[k], Callee(f, c), k) \subseteq edges
    /\ ComesBefore(Callee(f, c), f) =>
         \A p \in Shape :
           FormalOut(Callee(f, c), k, p) \in Written(Callee(f, c)) =>
             Edge(FormalOut(Callee(f, c), k, p), ActualOut(f, c, Args(f, c)[k], p), "PARAMETER_OUT") \in edges
Laid ==
  \A f \in FunctionName :
    /\ Begun(f) => IntraEdges(f) \subseteq edges /\ Written(f) \subseteq written
    /\ Called(f) => \A c \in Connected(f) : ~TreeIsNull(f, c) /\ CallIsLaid(f, c)
    /\ Finished(f) => FormalEdges(f) \subseteq edges

(* The reasons for an edge. *)
EntryEdge(f, e) ==
  \E k \in DOMAIN Params(f) : e = Edge(Entry(f), FormalIn(f, k, << >>), "PARAMETER_IN")
AddressEdge(f, e) ==
  \E k \in DOMAIN Params(f) : \E x \in FormalAddresses(f, k) :
    e = Edge(FormalIn(f, k, x[1]), Inst(f, x[2]), "PARAMETER_IN")
ArgumentEdge(f, e) ==
  \E c \in Calls(f) : \E v \in Range(Args(f, c)) :
    \/ e = Edge(Inst(f, c), ActualIn(f, c, v, << >>), "PARAMETER_IN")
    \/ \E x \in Addresses(f, {v}) :
         x[2] < c /\ e = Edge(Inst(f, x[2]), ActualIn(f, c, v, x[1]), "PARAMETER_IN")
CallEdge(f, e) ==
  \E c \in Connected(f) : \E k \in DOMAIN Args(f, c) : \E p \in Shape :
    /\ ~TreeIsNull(f, c) /\ start[<<Callee(f, c), k>>] = 0
    /\ e = Edge(ActualIn(f, c, Args(f, c)[k], p), FormalIn(Callee(f, c), k, p), "PARAMETER_IN")
PassEdge(f, e) ==
  \E k \in UsableParams(f) : \E c \in Calls(f) : \E x \in FormalAddresses(f, k) :
    \E s \in Matched(x[1]) :
      /\ x[2] \in Range(Args(f, c))
      /\ e = Edge(FormalIn(f, k, x[1] \o s), ActualIn(f, c, x[2], s), "PARAMETER_IN")
Reason(f, e) ==
  EntryEdge(f, e) \/ AddressEdge(f, e) \/ ArgumentEdge(f, e) \/ CallEdge(f, e) \/ PassEdge(f, e)
Justified == \A e \in edges : e.type = "PARAMETER_IN" => \E f \in FunctionName : Reason(f, e)

(* Functions whose accesses are computed have theirs, the others none. *)
FieldTags(x, i) ==
  {t \in {"DATA_READ", "DATA_WRITE"} : [node |-> FormalIn(x[1], x[2], <<1, i>>), tag |-> t] \in accTags}
FieldUses(x, i) == UNION {Uses(y[1], y[2], i) : y \in {z \in Holders(x, i) : SameDomain(x[1], z[1])}}
Seen ==
  /\ \A a \in accTags : a.node.at[1] \notin unseen
  /\ \A x \in Formals, i \in Field :
       x[1] \notin unseen /\ Params(x[1])[x[2]] => FieldTags(x, i) = FieldUses(x, i)

IInv == TypeOK /\ IsFiniteSet(edges) /\ InOrder /\ Laid /\ Justified /\ Seen

-----------------------------------------------------------------------------
(* A module has finitely many nodes, so a function adds finitely many edges. *)
Place == {0} \cup UNION {DOMAIN Insts(f) \cup DOMAIN Params(f) : f \in FunctionName}
NodeKind == {"entry", "inst", "formal_in", "formal_out", "actual_in", "actual_out"}
EdgeType == {"PARAMETER_IN", "PARAMETER_OUT", "CALL"}
NodeSet ==
  {Node(x[1], x[2], x[3], x[4], x[5]) : x \in NodeKind \X FunctionName \X Place \X Place \X Shape}
EdgeSet == {Edge(x[1], x[2], x[3]) : x \in NodeSet \X NodeSet \X EdgeType}

LEMMA EdgeSetIsFinite ==
  ASSUME prog \in Programs
  PROVE  IsFiniteSet(EdgeSet)
<1>1. IsFiniteSet(Place)
  <2> DEFINE at == [f \in FunctionName |-> DOMAIN Insts(f) \cup DOMAIN Params(f)]
             Ats == {at[f] : f \in FunctionName}
  <2>1. IsFiniteSet(Ats)
    <3>1. at \in Surjection(FunctionName, Ats)
      BY DEF Surjection
    <3> HIDE DEF at
    <3> QED
      BY <3>1, TypesAssumption, FS_Surjection
  <2>2. ASSUME NEW T \in Ats PROVE IsFiniteSet(T)
    <3>1. PICK f \in FunctionName : T = DOMAIN Insts(f) \cup DOMAIN Params(f)
      OBVIOUS
    <3>2. IsFiniteSet(DOMAIN Insts(f)) /\ IsFiniteSet(DOMAIN Params(f))
      BY FunctionIs, FS_Interval
    <3> QED
      BY <3>1, <3>2, FS_Union
  <2>3. IsFiniteSet(UNION Ats)
    <3> HIDE DEF Ats
    <3> QED
      BY <2>1, <2>2, FS_UNION
  <2>4. IsFiniteSet({0}) /\ UNION Ats = UNION {DOMAIN Insts(f) \cup DOMAIN Params(f) : f \in FunctionName}
    BY FS_Singleton
  <2> QED
    BY <2>3, <2>4, FS_Union DEF Place
<1>2. IsFiniteSet(NodeKind) /\ IsFiniteSet(EdgeType)
  <2>1. NodeKind = {} \cup {"entry"} \cup {"inst"} \cup {"formal_in"} \cup {"formal_out"}
                   \cup {"actual_in"} \cup {"actual_out"}
    BY DEF NodeKind
  <2>2. EdgeType = {} \cup {"PARAMETER_IN"} \cup {"PARAMETER_OUT"} \cup {"CALL"}
    BY DEF EdgeType
  <2> QED
    BY <2>1, <2>2, FS_EmptySet, FS_AddElement
<1>3. IsFiniteSet(NodeSet)
  <2> DEFINE D == NodeKind \X FunctionName \X Place \X Place \X Shape
             h == [x \in D |-> Node(x[1], x[2], x[3], x[4], x[5])]
             P2 == (NodeKind \X FunctionName) \X Place
             P4 == (P2 \X Place) \X Shape
             g == [y \in P4 |-> <<y[1][1][1][1], y[1][1][1][2], y[1][1][2], y[1][2], y[2]>>]
  <2>1. IsFiniteSet(P4)
    <3>1. IsFiniteSet(NodeKind \X FunctionName)
      BY <1>2, TypesAssumption, FS_Product
    <3>2. IsFiniteSet(P2)
      BY <1>1, <3>1, FS_Product
    <3>3. IsFiniteSet(P2 \X Place)
      <4> HIDE DEF P2
      <4> QED
        BY <1>1, <3>2, FS_Product
    <3> HIDE DEF P2
    <3> QED
      BY <3>3, ShapeIsFinite, FS_Product
  <2>2. g \in Surjection(P4, D)
    <3>1. g \in [P4 -> D]
      OBVIOUS
    <3>2. ASSUME NEW x \in D PROVE \E y \in P4 : g[y] = x
      <4>1. <<<<<<<<x[1], x[2]>>, x[3]>>, x[4]>>, x[5]>> \in P4
        OBVIOUS
      <4>2. g[<<<<<<<<x[1], x[2]>>, x[3]>>, x[4]>>, x[5]>>] = x
        BY <4>1
      <4> QED
        BY <4>1, <4>2
    <3> QED
      BY <3>1, <3>2 DEF Surjection
  <2>3. IsFiniteSet(D)
    <3> HIDE DEF g, P4, D
    <3> QED
      BY <2>1, <2>2, FS_Surjection
  <2>4. h \in Surjection(D, NodeSet)
    BY DEF Surjection, NodeSet
  <2> HIDE DEF h, D
  <2> QED
    BY <2>3, <2>4, FS_Surjection
<1>4. IsFiniteSet(EdgeSet)
  <2> DEFINE D == NodeSet \X NodeSet \X EdgeType
             h == [x \in D |-> Edge(x[1], x[2], x[3])]
             P2 == (NodeSet \X NodeSet) \X EdgeType
             g == [y \in P2 |-> <<y[1][1], y[1][2], y[2]>>]
  <2>1. IsFiniteSet(P2)
    <3>1. IsFiniteSet(NodeSet \X NodeSet)
      BY <1>3, FS_Product
    <3> QED
      BY <1>2, <3>1, FS_Product
  <2>2. g \in Surjection(P2, D)
    <3>1. g \in [P2 -> D]
      OBVIOUS
    <3>2. ASSUME NEW x \in D PROVE \E y \in P2 : g[y] = x
      <4>1. <<<<x[1], x[2]>>, x[3]>> \in P2
        OBVIOUS
      <4>2. g[<<<<x[1], x[2]>>, x[3]>>] = x
        BY <4>1
      <4> QED
        BY <4>1, <4>2
    <3> QED
      BY <3>1, <3>2 DEF Surjection
  <2>3. IsFiniteSet(D)
    <3> HIDE DEF g, P2, D
    <3> QED
      BY <2>1, <2>2, FS_Surjection
  <2>4. h \in Surjection(D, EdgeSet)
    BY DEF Surjection, EdgeSet
  <2> HIDE DEF h, D
  <2> QED
    BY <2>3, <2>4, FS_Surjection
<1> QED
  BY <1>4

(* Nodes, and edges between them. *)
LEMMA NodesAre ==
  ASSUME prog \in Programs, NEW f \in FunctionName
  PROVE  /\ Entry(f) \in NodeSet
         /\ \A v \in DOMAIN Insts(f) : Inst(f, v) \in NodeSet
         /\ \A k \in DOMAIN Params(f), p \in Shape :
              FormalIn(f, k, p) \in NodeSet /\ FormalOut(f, k, p) \in NodeSet
         /\ \A c, v \in DOMAIN Insts(f), p \in Shape :
              ActualIn(f, c, v, p) \in NodeSet /\ ActualOut(f, c, v, p) \in NodeSet
<1>1. 0 \in Place /\ DOMAIN Insts(f) \subseteq Place /\ DOMAIN Params(f) \subseteq Place
  BY DEF Place
<1>2. ASSUME NEW kind \in NodeKind, NEW i \in Place, NEW a \in Place, NEW p \in Shape
      PROVE  Node(kind, f, i, a, p) \in NodeSet
  <2>1. <<kind, f, i, a, p>> \in NodeKind \X FunctionName \X Place \X Place \X Shape
    OBVIOUS
  <2>2. Node(kind, f, i, a, p) = Node(<<kind, f, i, a, p>>[1], <<kind, f, i, a, p>>[2], <<kind, f, i, a, p>>[3],
                                    <<kind, f, i, a, p>>[4], <<kind, f, i, a, p>>[5])
    OBVIOUS
  <2> QED
    BY <2>1, <2>2 DEF NodeSet
<1>3. << >> \in Shape
  BY FirstLevels
<1> QED
  BY <1>1, <1>2, <1>3 DEF NodeKind, Entry, Inst, FormalIn, FormalOut, ActualIn, ActualOut

LEMMA EdgeIs ==
  ASSUME NEW a \in NodeSet, NEW b \in NodeSet, NEW type \in EdgeType
  PROVE  Edge(a, b, type) \in EdgeSet
<1>1. <<a, b, type>> \in NodeSet \X NodeSet \X EdgeType
  OBVIOUS
<1>2. Edge(a, b, type) = Edge(<<a, b, type>>[1], <<a, b, type>>[2], <<a, b, type>>[3])
  OBVIOUS
<1> QED
  BY <1>1, <1>2 DEF EdgeSet

LEMMA AddressesAre ==
  ASSUME NEW f, NEW roots
  PROVE  /\ \A x \in Addresses(f, roots) :
              x[1] \in Shape /\ x[2] \in DOMAIN Insts(f) /\ x[2] \in AddrVars(f, roots)[x[1]]
         /\ roots \subseteq DOMAIN Insts(f) =>
              \A p \in Shape : \A v \in AddrVars(f, roots)[p] : <<p, v>> \in Addresses(f, roots)
<1>1. \A x \in Addresses(f, roots) :
        x[1] \in Shape /\ x[2] \in DOMAIN Insts(f) /\ x[2] \in AddrVars(f, roots)[x[1]]
  BY DEF Addresses
<1>2. ASSUME roots \subseteq DOMAIN Insts(f), NEW p \in Shape, NEW v \in AddrVars(f, roots)[p]
      PROVE  <<p, v>> \in Addresses(f, roots)
  <2>1. v \in DOMAIN Insts(f)
    BY <1>2, LocalAddresses
  <2> QED
    BY <2>1 DEF Addresses
<1> QED
  BY <1>1, <1>2

LEMMA FormalAddressesAre ==
  ASSUME NEW f, NEW k
  PROVE  /\ Users(f, k, "param") \subseteq DOMAIN Insts(f)
         /\ \A x \in FormalAddresses(f, k) :
              x[1] \in Shape /\ x[2] \in DOMAIN Insts(f) /\ x[2] \in AddrVars(f, Users(f, k, "param"))[x[1]]
         /\ \A p \in Shape : \A v \in AddrVars(f, Users(f, k, "param"))[p] : <<p, v>> \in FormalAddresses(f, k)
<1>1. Users(f, k, "param") \subseteq DOMAIN Insts(f)
  BY DEF Users
<1> QED
  BY <1>1, AddressesAre DEF FormalAddresses

LEMMA ArgumentsAre ==
  ASSUME prog \in Programs, NEW f \in FunctionName, NEW c \in Calls(f)
  PROVE  /\ c \in DOMAIN Insts(f) /\ c \in Nat /\ Callee(f, c) \in FunctionName
         /\ DOMAIN Args(f, c) = DOMAIN Params(Callee(f, c)) /\ Args(f, c) \in Seq(Nat)
         /\ \A k \in DOMAIN Args(f, c) : Args(f, c)[k] \in Range(Args(f, c))
         /\ \A v \in Range(Args(f, c)) : v \in DOMAIN Insts(f) /\ Insts(f)[v].op \in {"param", "load"}
<1>1. c \in DOMAIN Insts(f) /\ Insts(f)[c].op = "call"
  BY DEF Calls
<1>2. c \in Nat
  BY <1>1, FunctionIs
<1> QED
  BY <1>1, <1>2, InstructionIs DEF Callee, Args, Range

(* What the edges of each step are. *)
LEMMA TreeEdgesAre ==
  ASSUME NEW f, NEW k, NEW e
  PROVE  e \in TreeEdges(f, k) <=>
           \/ e = Edge(Entry(f), FormalIn(f, k, << >>), "PARAMETER_IN")
           \/ e = Edge(Entry(f), FormalOut(f, k, << >>), "PARAMETER_OUT")
           \/ \E x \in FormalAddresses(f, k) : e = Edge(FormalIn(f, k, x[1]), Inst(f, x[2]), "PARAMETER_IN")
           \/ \E x \in FormalAddresses(f, k) :
                hasWriteAccess(f, x[2]) /\ e = Edge(Inst(f, x[2]), FormalOut(f, k, x[1]), "PARAMETER_OUT")
BY DEF TreeEdges, Writes

LEMMA ActualTreesAre ==
  ASSUME NEW f, NEW c, NEW v, NEW e
  PROVE  e \in connectActualTrees(f, c, v) <=>
           \/ e = Edge(Inst(f, c), ActualIn(f, c, v, << >>), "PARAMETER_IN")
           \/ e = Edge(Inst(f, c), ActualOut(f, c, v, << >>), "PARAMETER_OUT")
           \/ \E x \in Addresses(f, {v}) :
                x[2] < c /\ e = Edge(Inst(f, x[2]), ActualIn(f, c, v, x[1]), "PARAMETER_IN")
           \/ \E x \in Addresses(f, {v}) :
                x[2] > c /\ e = Edge(ActualOut(f, c, v, x[1]), Inst(f, x[2]), "PARAMETER_OUT")
BY DEF connectActualTrees

LEMMA ActualEdgesAre ==
  ASSUME NEW f, NEW e \in ActualEdges(f)
  PROVE  \E c \in Calls(f) : \E k \in DOMAIN Args(f, c) : e \in connectActualTrees(f, c, Args(f, c)[k])
BY DEF ActualEdges, Args

LEMMA CallEdgesAre ==
  ASSUME NEW f, NEW c, NEW e
  PROVE  e \in connectCallerAndCallee(f, c) <=>
           \/ e = Edge(Inst(f, c), Entry(Callee(f, c)), "CALL")
           \/ \E k \in DOMAIN Args(f, c) : \E p \in Shape :
                /\ start[<<Callee(f, c), k>>] + BuiltSize = BuiltSize
                /\ e = Edge(ActualIn(f, c, Args(f, c)[k], p), FormalIn(Callee(f, c), k, p), "PARAMETER_IN")
           \/ \E k \in DOMAIN Args(f, c) : \E p \in Shape :
                /\ FormalOut(Callee(f, c), k, p) \in written
                /\ e = Edge(FormalOut(Callee(f, c), k, p), ActualOut(f, c, Args(f, c)[k], p), "PARAMETER_OUT")
<1>1. \A k : e \in connectInTrees(f, c, Args(f, c)[k], Callee(f, c), k) <=>
             \E p \in Shape :
               /\ start[<<Callee(f, c), k>>] + BuiltSize = BuiltSize
               /\ e = Edge(ActualIn(f, c, Args(f, c)[k], p), FormalIn(Callee(f, c), k, p), "PARAMETER_IN")
  BY DEF connectInTrees
<1>2. \A k : e \in connectOutTrees(f, c, Args(f, c)[k], Callee(f, c), k) <=>
             \E p \in Shape :
               /\ FormalOut(Callee(f, c), k, p) \in written
               /\ e = Edge(FormalOut(Callee(f, c), k, p), ActualOut(f, c, Args(f, c)[k], p), "PARAMETER_OUT")
  BY DEF connectOutTrees
<1>3. e \in connectCallerAndCallee(f, c) <=>
        \/ e = Edge(Inst(f, c), Entry(Callee(f, c)), "CALL")
        \/ \E k \in DOMAIN Args(f, c) : \/ e \in connectInTrees(f, c, Args(f, c)[k], Callee(f, c), k)
                                       \/ e \in connectOutTrees(f, c, Args(f, c)[k], Callee(f, c), k)
  BY DEF connectCallerAndCallee, Args, Callee
<1> QED
  BY <1>1, <1>2, <1>3

(* The edges among them that the search for accesses follows. *)
LEMMA ArgumentEdgesAre ==
  ASSUME NEW f, NEW c, NEW v, NEW e \in connectActualTrees(f, c, v)
  PROVE  \/ e = Edge(Inst(f, c), ActualIn(f, c, v, << >>), "PARAMETER_IN")
         \/ \E x \in Addresses(f, {v}) :
              x[2] < c /\ e = Edge(Inst(f, x[2]), ActualIn(f, c, v, x[1]), "PARAMETER_IN")
         \/ \E a, b : e = Edge(a, b, "PARAMETER_OUT")
<1>1. \/ e = Edge(Inst(f, c), ActualIn(f, c, v, << >>), "PARAMETER_IN")
      \/ e = Edge(Inst(f, c), ActualOut(f, c, v, << >>), "PARAMETER_OUT")
      \/ \E x \in Addresses(f, {v}) :
           x[2] < c /\ e = Edge(Inst(f, x[2]), ActualIn(f, c, v, x[1]), "PARAMETER_IN")
      \/ \E x \in Addresses(f, {v}) :
           x[2] > c /\ e = Edge(ActualOut(f, c, v, x[1]), Inst(f, x[2]), "PARAMETER_OUT")
  BY DEF connectActualTrees
<1> QED
  BY <1>1, Zenon

LEMMA CalleeEdgesAre ==
  ASSUME NEW f, NEW c, NEW e \in connectCallerAndCallee(f, c)
  PROVE  \/ \E k \in DOMAIN Args(f, c) : \E p \in Shape :
              /\ start[<<Callee(f, c), k>>] + BuiltSize = BuiltSize
              /\ e = Edge(ActualIn(f, c, Args(f, c)[k], p), FormalIn(Callee(f, c), k, p), "PARAMETER_IN")
         \/ \E a, b : e = Edge(a, b, "PARAMETER_OUT") \/ e = Edge(a, b, "CALL")
<1>1. \/ e = Edge(Inst(f, c), Entry(Callee(f, c)), "CALL")
      \/ \E k \in DOMAIN Args(f, c) : \E p \in Shape :
           /\ start[<<Callee(f, c), k>>] + BuiltSize = BuiltSize
           /\ e = Edge(ActualIn(f, c, Args(f, c)[k], p), FormalIn(Callee(f, c), k, p), "PARAMETER_IN")
      \/ \E k \in DOMAIN Args(f, c) : \E p \in Shape :
           /\ FormalOut(Callee(f, c), k, p) \in written
           /\ e = Edge(FormalOut(Callee(f, c), k, p), ActualOut(f, c, Args(f, c)[k], p), "PARAMETER_OUT")
  BY CallEdgesAre
<1> QED
  BY <1>1, Zenon

LEMMA PassEdgesAre ==
  ASSUME NEW f, NEW k, NEW c, NEW e
  PROVE  e \in PassEdges(f, k, c) <=>
           \E x \in FormalAddresses(f, k) : \E s \in Matched(x[1]) :
             /\ x[2] \in Range(Args(f, c)) /\ HasActualTree(f, c, x[2])
             /\ e = Edge(FormalIn(f, k, x[1] \o s), ActualIn(f, c, x[2], s), "PARAMETER_IN")
BY DEF PassEdges, Args

LEMMA EdgesAreLocal ==
  ASSUME prog \in Programs, NEW f \in FunctionName
  PROVE  IntraEdges(f) \cup InterEdges(f) \cup FormalEdges(f) \cup ReconnectedEdges(f) \subseteq EdgeSet
<1>1. IntraEdges(f) \subseteq EdgeSet
  <2>1. UsableParams(f) \subseteq DOMAIN Params(f) /\ << >> \in Shape
    BY FirstLevels DEF UsableParams
  <2>2. ASSUME NEW k \in UsableParams(f), NEW e \in TreeEdges(f, k) PROVE e \in EdgeSet
    BY <2>1, TreeEdgesAre, FormalAddressesAre, NodesAre, EdgeIs DEF EdgeType
  <2> QED
    BY <2>2 DEF IntraEdges
<1>2. ReconnectedEdges(f) \subseteq EdgeSet
  <2>1. ASSUME NEW e \in ReconnectedEdges(f)
        PROVE  \E k \in DOMAIN Params(f) : \E x \in FormalAddresses(f, k) :
                 e = Edge(FormalIn(f, k, x[1]), Inst(f, x[2]), "PARAMETER_IN")
    BY DEF ReconnectedEdges, TreeParams
  <2> QED
    BY <2>1, FormalAddressesAre, NodesAre, EdgeIs DEF EdgeType
<1>3. FormalEdges(f) \subseteq EdgeSet
  <2>1. ASSUME NEW e \in FormalEdges(f) PROVE e \in EdgeSet
    <3>1. PICK k \in UsableParams(f), c \in Calls(f) : e \in PassEdges(f, k, c)
      BY DEF FormalEdges
    <3>2. PICK x \in FormalAddresses(f, k) :
            \E s \in Matched(x[1]) :
              /\ x[2] \in Range(Args(f, c))
              /\ e = Edge(FormalIn(f, k, x[1] \o s), ActualIn(f, c, x[2], s), "PARAMETER_IN")
      BY <3>1, PassEdgesAre
    <3>5. PICK s \in Matched(x[1]) :
            /\ x[2] \in Range(Args(f, c))
            /\ e = Edge(FormalIn(f, k, x[1] \o s), ActualIn(f, c, x[2], s), "PARAMETER_IN")
      BY <3>2
    <3>3. k \in DOMAIN Params(f) /\ s \in Shape /\ x[1] \o s \in Shape
      BY DEF UsableParams, Matched
    <3>4. c \in DOMAIN Insts(f) /\ x[2] \in DOMAIN Insts(f)
      BY <3>5, ArgumentsAre
    <3> QED
      BY <3>5, <3>3, <3>4, NodesAre, EdgeIs DEF EdgeType
  <2> QED
    BY <2>1
<1>4. ASSUME NEW c \in Calls(f), NEW v \in Range(Args(f, c)), NEW e \in connectActualTrees(f, c, v)
      PROVE  e \in EdgeSet
  <2>1. c \in DOMAIN Insts(f) /\ v \in DOMAIN Insts(f) /\ << >> \in Shape
    BY ArgumentsAre, FirstLevels
  <2>2. \A x \in Addresses(f, {v}) : x[1] \in Shape /\ x[2] \in DOMAIN Insts(f)
    BY AddressesAre
  <2>3. \/ e = Edge(Inst(f, c), ActualIn(f, c, v, << >>), "PARAMETER_IN")
        \/ e = Edge(Inst(f, c), ActualOut(f, c, v, << >>), "PARAMETER_OUT")
        \/ \E x \in Addresses(f, {v}) :
             \/ e = Edge(Inst(f, x[2]), ActualIn(f, c, v, x[1]), "PARAMETER_IN")
             \/ e = Edge(ActualOut(f, c, v, x[1]), Inst(f, x[2]), "PARAMETER_OUT")
    BY ActualTreesAre
  <2> QED
    BY <2>1, <2>2, <2>3, NodesAre, EdgeIs DEF EdgeType
<1>5. ASSUME NEW c \in Calls(f), NEW e \in connectCallerAndCallee(f, c)
      PROVE  e \in EdgeSet
  <2>1. c \in DOMAIN Insts(f) /\ Callee(f, c) \in FunctionName
    BY ArgumentsAre
  <2>2. \A k \in DOMAIN Args(f, c) : Args(f, c)[k] \in DOMAIN Insts(f) /\ k \in DOMAIN Params(Callee(f, c))
    BY ArgumentsAre
  <2>3. \/ e = Edge(Inst(f, c), Entry(Callee(f, c)), "CALL")
        \/ \E k \in DOMAIN Args(f, c) : \E p \in Shape :
             \/ e = Edge(ActualIn(f, c, Args(f, c)[k], p), FormalIn(Callee(f, c), k, p), "PARAMETER_IN")
             \/ e = Edge(FormalOut(Callee(f, c), k, p), ActualOut(f, c, Args(f, c)[k], p), "PARAMETER_OUT")
    <3>1. \/ e = Edge(Inst(f, c), Entry(Callee(f, c)), "CALL")
          \/ \E k \in DOMAIN Args(f, c) : \E p \in Shape :
               /\ start[<<Callee(f, c), k>>] + BuiltSize = BuiltSize
               /\ e = Edge(ActualIn(f, c, Args(f, c)[k], p), FormalIn(Callee(f, c), k, p), "PARAMETER_IN")
          \/ \E k \in DOMAIN Args(f, c) : \E p \in Shape :
               /\ FormalOut(Callee(f, c), k, p) \in written
               /\ e = Edge(FormalOut(Callee(f, c), k, p), ActualOut(f, c, Args(f, c)[k], p), "PARAMETER_OUT")
      BY CallEdgesAre
    <3> QED
      BY <3>1, Zenon
  <2> QED
    BY <2>1, <2>2, <2>3, NodesAre, EdgeIs DEF EdgeType
<1>6. InterEdges(f) \subseteq EdgeSet
  <2>1. Connected(f) \subseteq Calls(f)
    BY DEF Connected
  <2>2. \A c \in Calls(f) : \A k \in DOMAIN Args(f, c) : Args(f, c)[k] \in Range(Args(f, c))
    BY ArgumentsAre
  <2>3. ActualEdges(f) \subseteq EdgeSet
    BY <1>4, <2>2, ActualEdgesAre
  <2> QED
    BY <1>5, <2>1, <2>3 DEF InterEdges
<1> QED
  BY <1>1, <1>2, <1>3, <1>6
-----------------------------------------------------------------------------
(* What depends on the module, and on the sizes the trees start from, stays. *)
LEMMA Static ==
  ASSUME prog' = prog, start' = start
  PROVE  /\ Formals' = Formals
         /\ \A f : /\ Params(f)' = Params(f) /\ Insts(f)' = Insts(f) /\ Calls(f)' = Calls(f)
                   /\ IntraEdges(f)' = IntraEdges(f) /\ Written(f)' = Written(f)
                   /\ Connected(f)' = Connected(f) /\ FormalEdges(f)' = FormalEdges(f)
         /\ \A f, c : /\ TreeIsNull(f, c)' = TreeIsNull(f, c)
                      /\ Callee(f, c)' = Callee(f, c) /\ Args(f, c)' = Args(f, c)
         /\ \A f, g : ComesBefore(g, f)' = ComesBefore(g, f)
         /\ \A f, c, v : connectActualTrees(f, c, v)' = connectActualTrees(f, c, v)
         /\ \A f, c, v, g, k : connectInTrees(f, c, v, g, k)' = connectInTrees(f, c, v, g, k)
         /\ \A f, e : Reason(f, e)' = Reason(f, e)
         /\ \A x, i : FieldUses(x, i)' = FieldUses(x, i)
<1>1. Formals' = Formals
  BY DEF Formals, Params
<1>2. /\ \A f : Params(f)' = Params(f) /\ Insts(f)' = Insts(f)
      /\ \A f, g : ComesBefore(g, f)' = ComesBefore(g, f)
      /\ \A f, c : Callee(f, c)' = Callee(f, c) /\ Args(f, c)' = Args(f, c)
  BY DEF Params, Insts, ComesBefore, Callee, Args
<1>3. \A f : Calls(f)' = Calls(f)
  BY <1>2 DEF Calls
<1>4. \A f, v, op : Users(f, v, op)' = Users(f, v, op)
  BY <1>2 DEF Users
<1>5. \A f, v : hasWriteAccess(f, v)' = hasWriteAccess(f, v)
  BY <1>4 DEF hasWriteAccess
<1>6. ASSUME NEW CONSTANT f, NEW CONSTANT roots PROVE Addresses(f, roots)' = Addresses(f, roots)
  BY <1>2 DEF Addresses, AddrVars, computeDerivedAddrVarsFromParent, Users, Insts
<1>7. ASSUME NEW CONSTANT f, NEW CONSTANT k PROVE FormalAddresses(f, k)' = FormalAddresses(f, k)
  BY <1>2 DEF FormalAddresses, Addresses, AddrVars, computeDerivedAddrVarsFromParent, Users, Insts
<1>8. ASSUME NEW CONSTANT f, NEW CONSTANT k PROVE Writes(f, k)' = Writes(f, k)
  BY <1>5, <1>7 DEF Writes
<1>9. ASSUME NEW CONSTANT f, NEW CONSTANT k PROVE TreeEdges(f, k)' = TreeEdges(f, k)
  BY <1>7, <1>8 DEF TreeEdges
<1>10. ASSUME NEW CONSTANT f
       PROVE  UsableParams(f)' = UsableParams(f) /\ TreeParams(f)' = TreeParams(f)
  BY <1>2 DEF UsableParams, TreeParams, Usable
<1>11. ASSUME NEW CONSTANT f
       PROVE  IntraEdges(f)' = IntraEdges(f) /\ Written(f)' = Written(f)
  BY <1>8, <1>9, <1>10 DEF IntraEdges, Written
<1>12. ASSUME NEW CONSTANT f, NEW CONSTANT c, NEW CONSTANT v
       PROVE  HasActualTree(f, c, v)' = HasActualTree(f, c, v)
  BY <1>2 DEF HasActualTree, Usable
<1>13. ASSUME NEW CONSTANT f
       PROVE  Connected(f)' = Connected(f)
  BY <1>2, <1>3, <1>12 DEF Connected, Complete
<1>14. ASSUME NEW CONSTANT f, NEW CONSTANT c
       PROVE  TreeIsNull(f, c)' = TreeIsNull(f, c)
  BY <1>2 DEF TreeIsNull
<1>15. ASSUME NEW CONSTANT f, NEW CONSTANT k, NEW CONSTANT c PROVE PassEdges(f, k, c)' = PassEdges(f, k, c)
  BY <1>2, <1>7, <1>12 DEF PassEdges
<1>16. ASSUME NEW CONSTANT f PROVE FormalEdges(f)' = FormalEdges(f)
  BY <1>3, <1>10, <1>15 DEF FormalEdges
<1>17. ASSUME NEW CONSTANT f, NEW CONSTANT c, NEW CONSTANT v
       PROVE  connectActualTrees(f, c, v)' = connectActualTrees(f, c, v)
  BY <1>6 DEF connectActualTrees
<1>18. ASSUME NEW CONSTANT f, NEW CONSTANT c, NEW CONSTANT v, NEW CONSTANT g, NEW CONSTANT k
       PROVE  connectInTrees(f, c, v, g, k)' = connectInTrees(f, c, v, g, k)
  BY DEF connectInTrees
<1>19. ASSUME NEW CONSTANT f, NEW CONSTANT e PROVE Reason(f, e)' = Reason(f, e)
  <2>1. EntryEdge(f, e)' = EntryEdge(f, e)
    BY <1>2 DEF EntryEdge
  <2>2. AddressEdge(f, e)' = AddressEdge(f, e)
    BY <1>2, <1>7 DEF AddressEdge
  <2>3. ArgumentEdge(f, e)' = ArgumentEdge(f, e)
    BY <1>2, <1>3, <1>6 DEF ArgumentEdge
  <2>4. CallEdge(f, e)' = CallEdge(f, e)
    BY <1>2, <1>13, <1>14 DEF CallEdge
  <2>5. PassEdge(f, e)' = PassEdge(f, e)
    <3> DEFINE Passes(k, c, x) ==
                 \E s \in Matched(x[1]) :
                   /\ x[2] \in Range(Args(f, c))
                   /\ e = Edge(FormalIn(f, k, x[1] \o s), ActualIn(f, c, x[2], s), "PARAMETER_IN")
    <3>1. ASSUME NEW CONSTANT k, NEW CONSTANT c, NEW CONSTANT x PROVE Passes(k, c, x)' = Passes(k, c, x)
      BY <1>2
    <3>2. PassEdge(f, e) = \E k \in UsableParams(f) : \E c \in Calls(f) : \E x \in FormalAddresses(f, k) : Passes(k, c, x)
      BY DEF PassEdge
    <3>3. PassEdge(f, e)' = \E k \in UsableParams(f)' : \E c \in Calls(f)' : \E x \in FormalAddresses(f, k)' : Passes(k, c, x)'
      BY DEF PassEdge
    <3> HIDE DEF Passes
    <3> QED
      BY <1>3, <1>7, <1>10, <3>1, <3>2, <3>3
  <2> QED
    BY <2>1, <2>2, <2>3, <2>4, <2>5 DEF Reason
<1>20. ASSUME NEW CONSTANT x, NEW CONSTANT i PROVE FieldUses(x, i)' = FieldUses(x, i)
  <2>1. ASSUME NEW CONSTANT z PROVE PassedTo(z, i)' = PassedTo(z, i)
    BY <1>1, <1>2, <1>4, <1>13 DEF PassedTo, Usable
  <2>2. Holders(x, i)' = Holders(x, i)
    BY <1>1, <2>1 DEF Holders
  <2>3. ASSUME NEW CONSTANT f, NEW CONSTANT v
        PROVE  computeDataAccessTagsForVal(f, v)' = computeDataAccessTagsForVal(f, v)
    BY <1>4, <1>5 DEF computeDataAccessTagsForVal, hasReadAccess
  <2>4. ASSUME NEW CONSTANT f, NEW CONSTANT k PROVE Uses(f, k, i)' = Uses(f, k, i)
    BY <1>2, <1>4, <2>3 DEF Uses, FieldAddresses
  <2> QED
    BY <2>2, <2>4 DEF FieldUses, SameDomain
<1> QED
  BY <1>1, <1>2, <1>3, <1>11, <1>13, <1>14, <1>16, <1>17, <1>18, <1>19, <1>20

(* The first function in the order has its turn, after those before it. *)
LEMMA Turn ==
  ASSUME prog \in Programs, InOrder, waiting # << >>
  PROVE  /\ Head(waiting) \in FunctionName /\ Tail(waiting) \in Seq(FunctionName)
         /\ Range(waiting) = {Head(waiting)} \cup Range(Tail(waiting))
         /\ Head(waiting) \notin Range(Tail(waiting))
         /\ \A g : ComesBefore(g, Head(waiting)) => g \notin Range(Tail(waiting))
         /\ \E n \in 0..Len(prog.order) :
              /\ Len(Tail(waiting)) = Len(prog.order) - n
              /\ \A j \in 1..Len(Tail(waiting)) : Tail(waiting)[j] = prog.order[n + j]
<1>1. waiting \in Seq(FunctionName) /\ prog.order \in Seq(FunctionName) /\ IsInjective(prog.order)
  BY ProgramAssumption DEF InOrder, WellFormed
<1>2. PICK n \in 0..Len(prog.order) :
        /\ Len(waiting) = Len(prog.order) - n
        /\ \A j \in 1..Len(waiting) : waiting[j] = prog.order[n + j]
  BY DEF InOrder
<1>3. Len(waiting) \in Nat /\ Len(waiting) # 0 /\ Len(prog.order) \in Nat /\ n \in Nat
  BY <1>1, <1>2
<1>4. Head(waiting) = waiting[1] /\ Head(waiting) = prog.order[n + 1] /\ Head(waiting) \in FunctionName
  BY <1>1, <1>2, <1>3
<1>5. /\ Tail(waiting) \in Seq(FunctionName) /\ Len(Tail(waiting)) = Len(waiting) - 1
      /\ \A j \in 1..Len(Tail(waiting)) : Tail(waiting)[j] = waiting[j + 1]
  BY <1>1, <1>3
<1>6. \A j \in 1..Len(Tail(waiting)) : Tail(waiting)[j] = prog.order[(n + 1) + j]
  BY <1>2, <1>3, <1>5
<1>7. Len(Tail(waiting)) = Len(prog.order) - (n + 1) /\ n + 1 \in 0..Len(prog.order)
  BY <1>2, <1>3, <1>5
<1>8. ASSUME NEW j \in 1..Len(Tail(waiting)), NEW m \in DOMAIN prog.order, m =< n + 1
      PROVE  Tail(waiting)[j] # prog.order[m]
  <2>1. (n + 1) + j \in DOMAIN prog.order /\ (n + 1) + j # m
    BY <1>1, <1>3, <1>7, <1>8
  <2> QED
    BY <1>1, <1>6, <2>1 DEF IsInjective
<1>9. n + 1 \in DOMAIN prog.order
  BY <1>1, <1>2, <1>3
<1>10. Range(waiting) = {Head(waiting)} \cup Range(Tail(waiting))
  <2>1. ASSUME NEW j \in 1..Len(waiting) PROVE waiting[j] = Head(waiting) \/ waiting[j] \in Range(Tail(waiting))
    <3>1. CASE j = 1
      BY <1>4, <3>1
    <3>2. CASE j # 1
      <4>1. j - 1 \in 1..Len(Tail(waiting)) /\ (j - 1) + 1 = j
        BY <1>3, <1>5, <3>2
      <4>2. Tail(waiting)[j - 1] = waiting[j] /\ j - 1 \in DOMAIN Tail(waiting)
        BY <1>5, <4>1
      <4> QED
        BY <4>2 DEF Range
    <3> QED
      BY <3>1, <3>2
  <2>2. 1 \in DOMAIN waiting /\ DOMAIN waiting = 1..Len(waiting)
    BY <1>1, <1>3
  <2>3. ASSUME NEW j \in DOMAIN Tail(waiting) PROVE Tail(waiting)[j] \in Range(waiting)
    <3>1. j \in 1..Len(Tail(waiting)) /\ j + 1 \in DOMAIN waiting
      BY <1>1, <1>3, <1>5
    <3> QED
      BY <1>5, <3>1 DEF Range
  <2> QED
    BY <1>4, <2>1, <2>2, <2>3 DEF Range
<1>11. Head(waiting) \notin Range(Tail(waiting))
  BY <1>4, <1>5, <1>8, <1>9, <1>3 DEF Range
<1>12. ASSUME NEW g, ComesBefore(g, Head(waiting)) PROVE g \notin Range(Tail(waiting))
  <2>1. PICK m, l \in DOMAIN prog.order : m =< l /\ prog.order[m] = g /\ prog.order[l] = Head(waiting)
    BY <1>12 DEF ComesBefore
  <2>2. l = n + 1
    BY <1>1, <1>4, <1>9, <2>1 DEF IsInjective
  <2> QED
    BY <1>5, <1>8, <2>1, <2>2 DEF Range
<1> QED
  BY <1>4, <1>5, <1>6, <1>7, <1>10, <1>11, <1>12

(* Edges and written fields only grow, and what is laid stays so. *)
LEMMA StaysLaid ==
  ASSUME Laid, prog' = prog, start' = start, edges \subseteq edges', written \subseteq written'
  PROVE  \A f \in FunctionName :
           /\ Begun(f) => IntraEdges(f)' \subseteq edges' /\ Written(f)' \subseteq written'
           /\ Called(f) => \A c \in Connected(f)' : ~TreeIsNull(f, c)' /\ CallIsLaid(f, c)'
           /\ Finished(f) => FormalEdges(f)' \subseteq edges'
<1> SUFFICES ASSUME NEW CONSTANT f \in FunctionName
             PROVE  /\ Begun(f) => IntraEdges(f)' \subseteq edges' /\ Written(f)' \subseteq written'
                    /\ Called(f) => \A c \in Connected(f)' : ~TreeIsNull(f, c)' /\ CallIsLaid(f, c)'
                    /\ Finished(f) => FormalEdges(f)' \subseteq edges'
  OBVIOUS
<1>1. ASSUME NEW CONSTANT c, CallIsLaid(f, c) PROVE CallIsLaid(f, c)'
  <2>1. Callee(f, c)' = Callee(f, c) /\ Args(f, c)' = Args(f, c)
    BY Static
  <2>2. \A k : /\ connectActualTrees(f, c, Args(f, c)[k])' = connectActualTrees(f, c, Args(f, c)[k])
               /\ connectInTrees(f, c, Args(f, c)[k], Callee(f, c), k)' = connectInTrees(f, c, Args(f, c)[k], Callee(f, c), k)
               /\ ComesBefore(Callee(f, c), f)' = ComesBefore(Callee(f, c), f)
               /\ Written(Callee(f, c))' = Written(Callee(f, c))
    BY <2>1, Static
  <2> QED
    BY <1>1, <2>1, <2>2 DEF CallIsLaid
<1> QED
  BY <1>1, Static DEF Laid

LEMMA StaysJustified ==
  ASSUME Justified, prog' = prog, start' = start, NEW N, edges' = edges \cup N,
         \A e \in N : e.type = "PARAMETER_IN" => \E f \in FunctionName : Reason(f, e)
  PROVE  Justified'
<1> SUFFICES ASSUME NEW CONSTANT e \in edges', e.type = "PARAMETER_IN"
             PROVE  \E f \in FunctionName : Reason(f, e)'
  BY DEF Justified
<1>1. PICK f \in FunctionName : Reason(f, e)
  BY DEF Justified
<1> QED
  BY <1>1, Static

LEMMA StaysSeen ==
  ASSUME Seen, prog' = prog, start' = start, unseen' = unseen, accTags' = accTags
  PROVE  Seen'
<1>1. \A x, i : FieldTags(x, i)' = FieldTags(x, i)
  BY DEF FieldTags
<1> QED
  BY <1>1, Static DEF Seen

LEMMA StaysFinite ==
  ASSUME prog \in Programs, IsFiniteSet(edges), NEW N, N \subseteq EdgeSet, edges' = edges \cup N
  PROVE  IsFiniteSet(edges')
<1>1. IsFiniteSet(N)
  BY EdgeSetIsFinite, FS_Subset
<1> QED
  BY <1>1, FS_Union

(* Each edge has one of the three types, and a field written is below a formal
   out tree. *)
LEMMA EdgesHaveTypes ==
  ASSUME NEW e \in EdgeSet
  PROVE  e.type \in {"PARAMETER_IN", "PARAMETER_OUT", "CALL"}
BY DEF EdgeSet, Edge, EdgeType

LEMMA WrittenIsFormalOut ==
  ASSUME NEW f, NEW n \in Written(f)
  PROVE  n.kind = "formal_out" /\ n.path \in Shape
BY FormalAddressesAre DEF Written, Writes, FormalOut, Node

LEMMA Initially == Init => IInv
<1> SUFFICES ASSUME Init PROVE IInv
  OBVIOUS
<1>1. prog \in Programs /\ prog.order \in Seq(FunctionName) /\ Range(prog.order) = FunctionName
  BY ProgramAssumption DEF Init, WellFormed
<1>2. TypeOK
  BY <1>1 DEF Init, TypeOK
<1>3. IsFiniteSet(edges)
  BY FS_EmptySet DEF Init
<1>4. InOrder
  <2>1. 0 \in 0..Len(prog.order) /\ Len(prog.order) - 0 = Len(prog.order)
    BY <1>1
  <2>2. \A j \in 1..Len(prog.order) : prog.order[j] = prog.order[0 + j]
    BY <1>1
  <2>3. waiting = prog.order
    BY DEF Init
  <2> QED
    BY <1>1, <2>1, <2>2, <2>3 DEF InOrder
<1>5. Laid
  BY <1>1 DEF Init, Laid, Begun, Called, Finished
<1>6. Justified
  BY DEF Init, Justified
<1>7. Seen
  <2>1. \A x \in Formals : x[1] \in FunctionName
    BY DEF Formals
  <2> QED
    BY <2>1 DEF Init, Seen
<1> QED
  BY <1>2, <1>3, <1>4, <1>5, <1>6, <1>7 DEF IInv

LEMMA Unchanged == IInv /\ UNCHANGED vars => IInv'
<1> SUFFICES ASSUME IInv, UNCHANGED vars PROVE IInv'
  OBVIOUS
<1>1. /\ prog' = prog /\ start' = start /\ waiting' = waiting /\ stage' = stage /\ edges' = edges
      /\ written' = written /\ unseen' = unseen /\ accTags' = accTags
  BY DEF vars
<1>2. TypeOK'
  BY <1>1, Static DEF IInv, TypeOK
<1>3. Laid'
  <2>1. edges \subseteq edges' /\ written \subseteq written' /\ Laid
    BY <1>1 DEF IInv
  <2>2. \A g \in FunctionName :
           /\ Begun(g)' => Begun(g)
           /\ Called(g)' => Called(g)
           /\ Finished(g)' => Finished(g)
    BY <1>1 DEF Begun, Called, Finished
  <2>3. \A g \in FunctionName :
           /\ Begun(g) => IntraEdges(g)' \subseteq edges' /\ Written(g)' \subseteq written'
           /\ Called(g) => \A c \in Connected(g)' : ~TreeIsNull(g, c)' /\ CallIsLaid(g, c)'
           /\ Finished(g) => FormalEdges(g)' \subseteq edges'
    BY <1>1, <2>1, StaysLaid
  <2> QED
    BY <2>2, <2>3 DEF Laid
<1>4. Justified'
  <2> DEFINE N == {}
  <2>1. edges' = edges \cup N /\ \A e \in N : e.type = "PARAMETER_IN" => \E f \in FunctionName : Reason(f, e)
    BY <1>1
  <2> HIDE DEF N
  <2> QED
    BY <1>1, <2>1, StaysJustified DEF IInv
<1>5. InOrder' /\ IsFiniteSet(edges)' /\ Seen'
  BY <1>1, StaysSeen DEF IInv, InOrder
<1> QED
  BY <1>2, <1>3, <1>4, <1>5 DEF IInv

(* connectIntraprocDependencies. *)
LEMMA IntraKeeps == IInv /\ connectIntraprocDependencies => IInv'
<1> SUFFICES ASSUME IInv, connectIntraprocDependencies PROVE IInv'
  OBVIOUS
<1>1. /\ prog' = prog /\ start' = start /\ waiting' = waiting /\ stage' = "inter" /\ stage = "intra"
      /\ edges' = edges \cup IntraEdges(Head(waiting)) /\ written' = written \cup Written(Head(waiting))
      /\ unseen' = unseen /\ accTags' = accTags /\ waiting # << >>
  BY DEF connectIntraprocDependencies, F
<1>0. prog \in Programs
  BY DEF IInv, TypeOK
<1>2. PICK f \in FunctionName : f = Head(waiting)
  BY <1>0, <1>1, Turn DEF IInv
<1>9. edges' = edges \cup IntraEdges(f) /\ written' = written \cup Written(f)
  BY <1>1, <1>2
<1>10. IntraEdges(f) \subseteq EdgeSet
  BY <1>0, EdgesAreLocal
<1>3. TypeOK'
  BY <1>1, <1>9, <1>10, EdgesHaveTypes, WrittenIsFormalOut, Static DEF IInv, TypeOK
<1>4. IsFiniteSet(edges)'
  BY <1>0, <1>9, <1>10, StaysFinite DEF IInv
<1>5. InOrder'
  BY <1>1 DEF IInv, InOrder
<1>6. Laid'
  <2>1. edges \subseteq edges' /\ written \subseteq written' /\ Laid
    BY <1>9 DEF IInv
  <2>2. \A g \in FunctionName :
           /\ Begun(g)' => Begun(g) \/ g = f
           /\ Called(g)' => Called(g)
           /\ Finished(g)' => Finished(g)
    BY <1>1, <1>2 DEF Begun, Called, Finished
  <2>3. IntraEdges(f)' \subseteq edges' /\ Written(f)' \subseteq written'
    BY <1>1, <1>9, Static
  <2> QED
    BY <1>1, <2>1, <2>2, <2>3, StaysLaid DEF Laid
<1>7. Justified'
  <2>1. ASSUME NEW e \in IntraEdges(f), e.type = "PARAMETER_IN" PROVE Reason(f, e)
    <3>1. PICK k \in UsableParams(f) : e \in TreeEdges(f, k)
      BY DEF IntraEdges
    <3>2. k \in DOMAIN Params(f)
      BY DEF UsableParams
    <3>3. \/ e = Edge(Entry(f), FormalIn(f, k, << >>), "PARAMETER_IN")
          \/ \E x \in FormalAddresses(f, k) : e = Edge(FormalIn(f, k, x[1]), Inst(f, x[2]), "PARAMETER_IN")
      BY <2>1, <3>1, TreeEdgesAre DEF Edge
    <3> QED
      BY <3>2, <3>3 DEF Reason, EntryEdge, AddressEdge
  <2> QED
    BY <1>1, <1>9, <2>1, StaysJustified DEF IInv
<1>8. Seen'
  BY <1>1, StaysSeen DEF IInv
<1> QED
  BY <1>3, <1>4, <1>5, <1>6, <1>7, <1>8 DEF IInv

(* connectInterprocDependencies: it crashes at a null tree, or lays the calls
   that are connected.  A callee that comes before its caller has written. *)
LEMMA InterCrashes ==
  IInv /\ connectInterprocDependencies /\ stage' = "crashed" => IInv'
<1> SUFFICES ASSUME IInv, connectInterprocDependencies, stage' = "crashed" PROVE IInv'
  OBVIOUS
<1>1. /\ prog' = prog /\ start' = start /\ waiting' = waiting /\ stage = "inter" /\ edges' = edges
      /\ written' = written /\ unseen' = unseen /\ accTags' = accTags /\ waiting # << >>
  BY DEF connectInterprocDependencies
<1>2. TypeOK'
  BY <1>1, Static DEF IInv, TypeOK
<1>3. Laid'
  <2>1. edges \subseteq edges' /\ written \subseteq written' /\ Laid
    BY <1>1 DEF IInv
  <2>2. \A g \in FunctionName :
           /\ Begun(g)' => Begun(g)
           /\ Called(g)' => Called(g)
           /\ Finished(g)' => Finished(g)
    BY <1>1 DEF Begun, Called, Finished
  <2> QED
    BY <1>1, <2>1, <2>2, StaysLaid DEF Laid
<1>4. Justified'
  <2> DEFINE N == {}
  <2>1. edges' = edges \cup N /\ \A e \in N : e.type = "PARAMETER_IN" => \E f \in FunctionName : Reason(f, e)
    BY <1>1
  <2> HIDE DEF N
  <2> QED
    BY <1>1, <2>1, StaysJustified DEF IInv
<1>5. InOrder' /\ IsFiniteSet(edges)' /\ Seen'
  BY <1>1, StaysSeen DEF IInv, InOrder
<1> QED
  BY <1>2, <1>3, <1>4, <1>5 DEF IInv

LEMMA InterKeeps ==
  IInv /\ connectInterprocDependencies /\ stage' # "crashed" => IInv'
<1> SUFFICES ASSUME IInv, connectInterprocDependencies, stage' # "crashed" PROVE IInv'
  OBVIOUS
<1>1. /\ prog' = prog /\ start' = start /\ waiting' = waiting /\ stage' = "formal" /\ stage = "inter"
      /\ edges' = edges \cup InterEdges(Head(waiting))
      /\ \A c \in Connected(Head(waiting)) : ~TreeIsNull(Head(waiting), c)
      /\ written' = written /\ unseen' = unseen /\ accTags' = accTags /\ waiting # << >>
  BY DEF connectInterprocDependencies, F
<1>2. prog \in Programs /\ start \in [Formals -> StartSize]
  BY DEF IInv, TypeOK
<1>3. PICK f \in FunctionName : f = Head(waiting)
  BY <1>1, <1>2, Turn DEF IInv
<1>4. edges' = edges \cup InterEdges(f) /\ \A c \in Connected(f) : ~TreeIsNull(f, c)
  BY <1>1, <1>3
<1>5. InterEdges(f) \subseteq EdgeSet
  BY <1>2, EdgesAreLocal
<1>6. TypeOK'
  BY <1>1, <1>4, <1>5, EdgesHaveTypes, Static DEF IInv, TypeOK
<1>7. IsFiniteSet(edges)'
  BY <1>2, <1>4, <1>5, StaysFinite DEF IInv
<1>8. InOrder'
  BY <1>1 DEF IInv, InOrder
<1>9. Laid'
  <2>1. edges \subseteq edges' /\ written \subseteq written' /\ Laid
    BY <1>1, <1>4 DEF IInv
  <2>2. \A g \in FunctionName :
           /\ Begun(g)' => Begun(g)
           /\ Called(g)' => Called(g) \/ g = f
           /\ Finished(g)' => Finished(g)
    BY <1>1, <1>3 DEF Begun, Called, Finished
  <2>3. ASSUME NEW CONSTANT c \in Connected(f) PROVE ~TreeIsNull(f, c)' /\ CallIsLaid(f, c)'
    <3>1. ~TreeIsNull(f, c)'
      BY <1>1, <1>4, Static
    <3>2. c \in Calls(f) /\ Args(f, c) \in Seq(Nat)
      BY <1>2, ArgumentsAre DEF Connected
    <3>3. \A d \in Calls(f) : d \in Nat
      BY <1>2, ArgumentsAre
    <3>4. \A d \in Calls(f) : d < c => Complete(f, d)
      BY <3>2, <3>3 DEF Connected
    <3>5. \A k \in DOMAIN Args(f, c) : HasActualTree(f, c, Args(f, c)[k])
      <4>1. Complete(f, c)
        BY <3>2, <3>3 DEF Connected
      <4>2. \A k \in DOMAIN Args(f, c) : Args(f, c)[k] \in Range(Args(f, c))
        BY <1>2, <3>2, ArgumentsAre
      <4> QED
        BY <4>1, <4>2 DEF Complete, Args
    <3>6. ASSUME NEW k \in DOMAIN Args(f, c)
          PROVE  connectActualTrees(f, c, Args(f, c)[k]) \subseteq edges'
      <4>1. \A j \in 1..k : j \in DOMAIN Args(f, c)
        BY <3>2
      <4>2. connectActualTrees(f, c, Args(f, c)[k]) \subseteq ActualEdges(f)
        BY <3>2, <3>4, <3>5, <4>1 DEF ActualEdges, Args
      <4> QED
        BY <1>4, <4>2 DEF InterEdges
    <3>7. connectCallerAndCallee(f, c) \subseteq edges'
      BY <1>4 DEF InterEdges
    <3>8. ASSUME NEW k \in DOMAIN Args(f, c)
          PROVE  connectInTrees(f, c, Args(f, c)[k], Callee(f, c), k) \subseteq edges'
      BY <3>7 DEF connectCallerAndCallee, Args, Callee
    <3>9. ASSUME ComesBefore(Callee(f, c), f) PROVE Written(Callee(f, c)) \subseteq written
      <4>1. Callee(f, c) \in FunctionName
        BY <1>2, <3>2, ArgumentsAre
      <4>2. Begun(Callee(f, c))
        <5>1. Callee(f, c) \notin Range(Tail(waiting)) /\ Range(waiting) = {f} \cup Range(Tail(waiting))
          BY <1>1, <1>2, <1>3, <3>9, Turn DEF IInv
        <5> QED
          BY <1>1, <1>3, <5>1 DEF Begun
      <4> QED
        BY <2>1, <4>1, <4>2 DEF Laid
    <3>10. ASSUME ComesBefore(Callee(f, c), f), NEW k \in DOMAIN Args(f, c), NEW p \in Shape,
                  FormalOut(Callee(f, c), k, p) \in Written(Callee(f, c))
           PROVE  Edge(FormalOut(Callee(f, c), k, p), ActualOut(f, c, Args(f, c)[k], p), "PARAMETER_OUT") \in edges'
      <4>1. FormalOut(Callee(f, c), k, p) \in written
        BY <3>9, <3>10
      <4> QED
        BY <3>7, <4>1, CallEdgesAre
    <3>11. CallIsLaid(f, c)'
      <4>1. Callee(f, c)' = Callee(f, c) /\ Args(f, c)' = Args(f, c)
        BY <1>1, Static
      <4>2. \A k : /\ connectActualTrees(f, c, Args(f, c)[k])' = connectActualTrees(f, c, Args(f, c)[k])
                   /\ connectInTrees(f, c, Args(f, c)[k], Callee(f, c), k)' = connectInTrees(f, c, Args(f, c)[k], Callee(f, c), k)
                   /\ ComesBefore(Callee(f, c), f)' = ComesBefore(Callee(f, c), f)
                   /\ Written(Callee(f, c))' = Written(Callee(f, c))
        BY <1>1, <4>1, Static
      <4> QED
        BY <3>6, <3>8, <3>10, <4>1, <4>2 DEF CallIsLaid
    <3> QED
      BY <3>1, <3>11
  <2>4. Connected(f)' = Connected(f)
    BY <1>1, Static
  <2>5. \A g \in FunctionName :
           /\ Begun(g) => IntraEdges(g)' \subseteq edges' /\ Written(g)' \subseteq written'
           /\ Called(g) => \A c \in Connected(g)' : ~TreeIsNull(g, c)' /\ CallIsLaid(g, c)'
           /\ Finished(g) => FormalEdges(g)' \subseteq edges'
    BY <1>1, <2>1, StaysLaid
  <2> QED
    BY <2>2, <2>3, <2>4, <2>5 DEF Laid
<1>10. Justified'
  <2>1. ASSUME NEW e \in InterEdges(f), e.type = "PARAMETER_IN" PROVE Reason(f, e)
    <3>1. CASE e \in ActualEdges(f)
      <4>1. PICK c \in Calls(f) : \E k \in DOMAIN Args(f, c) : e \in connectActualTrees(f, c, Args(f, c)[k])
        BY <3>1, ActualEdgesAre
      <4>2. PICK v \in Range(Args(f, c)) : e \in connectActualTrees(f, c, v)
        BY <1>2, <4>1, ArgumentsAre
      <4>3. \/ e = Edge(Inst(f, c), ActualIn(f, c, v, << >>), "PARAMETER_IN")
            \/ \E x \in Addresses(f, {v}) :
                 x[2] < c /\ e = Edge(Inst(f, x[2]), ActualIn(f, c, v, x[1]), "PARAMETER_IN")
        <5>1. \A a, b : e # Edge(a, b, "PARAMETER_OUT")
          BY <2>1 DEF Edge
        <5> QED
          BY <4>2, <5>1, ArgumentEdgesAre
      <4> QED
        BY <4>3 DEF Reason, ArgumentEdge
    <3>2. CASE e \notin ActualEdges(f)
      <4>1. PICK c \in Connected(f) : e \in connectCallerAndCallee(f, c)
        BY <3>2 DEF InterEdges
      <4>2. PICK k \in DOMAIN Args(f, c) : \E p \in Shape :
              /\ start[<<Callee(f, c), k>>] + BuiltSize = BuiltSize
              /\ e = Edge(ActualIn(f, c, Args(f, c)[k], p), FormalIn(Callee(f, c), k, p), "PARAMETER_IN")
        <5>1. \A a, b : e # Edge(a, b, "PARAMETER_OUT") /\ e # Edge(a, b, "CALL")
          BY <2>1 DEF Edge
        <5> QED
          BY <4>1, <5>1, CalleeEdgesAre
      <4>3. start[<<Callee(f, c), k>>] = 0
        <5>1. Callee(f, c) \in FunctionName /\ k \in DOMAIN Params(Callee(f, c))
          BY <1>2, ArgumentsAre DEF Connected
        <5>2. <<Callee(f, c), k>> \in Formals
          BY <5>1 DEF Formals
        <5>3. start[<<Callee(f, c), k>>] \in Int
          BY <1>2, <5>2, TypesAssumption
        <5>4. BuiltSize \in Nat
          BY ShapeIsFinite, FS_Subset, FS_CardinalityType DEF BuiltSize
        <5> QED
          BY <4>2, <5>3, <5>4
      <4> QED
        BY <1>4, <4>2, <4>3 DEF Reason, CallEdge
    <3> QED
      BY <3>1, <3>2
  <2> QED
    BY <1>1, <1>4, <2>1, StaysJustified DEF IInv
<1>11. Seen'
  BY <1>1, StaysSeen DEF IInv
<1> QED
  BY <1>6, <1>7, <1>8, <1>9, <1>10, <1>11 DEF IInv

(* connectFormalInTreeWithActualTree: the turn ends. *)
LEMMA FormalKeeps == IInv /\ connectFormalInTreeWithActualTree => IInv'
<1> SUFFICES ASSUME IInv, connectFormalInTreeWithActualTree PROVE IInv'
  OBVIOUS
<1>1. /\ prog' = prog /\ start' = start /\ waiting' = Tail(waiting) /\ stage' = "intra" /\ stage = "formal"
      /\ edges' = edges \cup FormalEdges(Head(waiting))
      /\ written' = written /\ unseen' = unseen /\ accTags' = accTags /\ waiting # << >>
  BY DEF connectFormalInTreeWithActualTree, F
<1>2. prog \in Programs
  BY DEF IInv, TypeOK
<1>3. PICK f \in FunctionName : f = Head(waiting)
  BY <1>1, <1>2, Turn DEF IInv
<1>4. edges' = edges \cup FormalEdges(f)
  BY <1>1, <1>3
<1>5. FormalEdges(f) \subseteq EdgeSet
  BY <1>2, EdgesAreLocal
<1>6. /\ Tail(waiting) \in Seq(FunctionName) /\ Range(waiting) = {f} \cup Range(Tail(waiting))
      /\ \E n \in 0..Len(prog.order) :
           /\ Len(Tail(waiting)) = Len(prog.order) - n
           /\ \A j \in 1..Len(Tail(waiting)) : Tail(waiting)[j] = prog.order[n + j]
  BY <1>1, <1>2, <1>3, Turn DEF IInv
<1>7. TypeOK'
  BY <1>1, <1>4, <1>5, <1>6, EdgesHaveTypes, Static DEF IInv, TypeOK
<1>8. IsFiniteSet(edges)'
  BY <1>2, <1>4, <1>5, StaysFinite DEF IInv
<1>9. InOrder'
  BY <1>1, <1>6 DEF InOrder
<1>10. Laid'
  <2>1. edges \subseteq edges' /\ written \subseteq written' /\ Laid
    BY <1>1, <1>4 DEF IInv
  <2>2. \A g \in FunctionName :
           /\ Begun(g)' => Begun(g)
           /\ Called(g)' => Called(g)
           /\ Finished(g)' => Finished(g) \/ g = f
    BY <1>1, <1>3, <1>6 DEF Begun, Called, Finished
  <2>3. FormalEdges(f)' \subseteq edges'
    BY <1>1, <1>4, Static
  <2>4. \A g \in FunctionName :
           /\ Begun(g) => IntraEdges(g)' \subseteq edges' /\ Written(g)' \subseteq written'
           /\ Called(g) => \A c \in Connected(g)' : ~TreeIsNull(g, c)' /\ CallIsLaid(g, c)'
           /\ Finished(g) => FormalEdges(g)' \subseteq edges'
    BY <1>1, <2>1, StaysLaid
  <2> QED
    BY <2>2, <2>3, <2>4 DEF Laid
<1>11. Justified'
  <2>1. ASSUME NEW e \in FormalEdges(f) PROVE Reason(f, e)
    <3>1. PICK k \in UsableParams(f) : \E c \in Calls(f) : e \in PassEdges(f, k, c)
      BY DEF FormalEdges
    <3>2. PICK c \in Calls(f) : e \in PassEdges(f, k, c)
      BY <3>1
    <3>3. \E x \in FormalAddresses(f, k) : \E s \in Matched(x[1]) :
            /\ x[2] \in Range(Args(f, c))
            /\ e = Edge(FormalIn(f, k, x[1] \o s), ActualIn(f, c, x[2], s), "PARAMETER_IN")
      BY <3>2, PassEdgesAre
    <3> QED
      BY <3>3, Zenon DEF Reason, PassEdge
  <2> QED
    BY <1>1, <1>4, <2>1, StaysJustified DEF IInv
<1>12. Seen'
  BY <1>1, StaysSeen DEF IInv
<1> QED
  BY <1>7, <1>8, <1>9, <1>10, <1>11, <1>12 DEF IInv

-----------------------------------------------------------------------------
(* The accesses of computeDataAccessForFuncArgs, with the edges E it has then. *)
LaidIn(E) ==
  \A f \in FunctionName :
    /\ IntraEdges(f) \subseteq E /\ FormalEdges(f) \subseteq E
    /\ \A c \in Connected(f) :
         /\ ~TreeIsNull(f, c)
         /\ \A k \in DOMAIN Args(f, c) :
              /\ connectActualTrees(f, c, Args(f, c)[k]) \subseteq E
              /\ connectInTrees(f, c, Args(f, c)[k], Callee(f, c), k) \subseteq E
JustifiedIn(E) == \A e \in E : e.type = "PARAMETER_IN" => \E f \in FunctionName : Reason(f, e)

(* Nodes are told apart by what they stand for. *)
LEMMA SameNode ==
  ASSUME NEW j, NEW f, NEW c, NEW v, NEW p, NEW l, NEW g, NEW d, NEW w, NEW q,
         Node(j, f, c, v, p) = Node(l, g, d, w, q)
  PROVE  j = l /\ f = g /\ c = d /\ v = w /\ p = q
BY DEF Node

(* Holders are those reached by passing on. *)
LEMMA HoldersAre ==
  ASSUME NEW x \in Formals, NEW i
  PROVE  /\ x \in Holders(x, i) /\ Holders(x, i) \subseteq Formals
         /\ \A y \in Holders(x, i) : PassedTo(y, i) \subseteq Holders(x, i)
         /\ \A S \in SUBSET Formals :
              x \in S /\ (\A z \in S : PassedTo(z, i) \subseteq S) => Holders(x, i) \subseteq S
<1>1. \A z : PassedTo(z, i) \subseteq Formals
  BY DEF PassedTo
<1> QED
  BY <1>1 DEF Holders

LEMMA FieldAddressesAre ==
  ASSUME NEW g, NEW k, NEW i \in Field
  PROVE  /\ FieldAddresses(g, k, i) = AddrVars(g, Users(g, k, "param"))[<<1, i>>]
         /\ \A u \in FieldAddresses(g, k, i) : <<<<1, i>>, u>> \in FormalAddresses(g, k)
<1>1. FieldAddresses(g, k, i) = AddrVars(g, Users(g, k, "param"))[<<1, i>>]
  BY FirstFields DEF FieldAddresses
<1> QED
  BY <1>1, FormalAddressesAre, FirstLevels

(* What an address variable is passed as: from an edge to its end. *)
LEMMA ReachedOn ==
  ASSUME NEW E, IsFiniteSet(E), NEW n, NEW type, NEW a \in ReachedBy(E, n, type), NEW b,
         Edge(a, b, type) \in E
  PROVE  b \in ReachedBy(E, n, type)
<1>1. Edge(a, b, type).src = a /\ Edge(a, b, type).dst = b /\ Edge(a, b, type).type = type
  BY DEF Edge
<1> QED
  BY <1>1, ReachedIsLeast

(* A parameter passed on by a connected call is reached, and has a tree. *)
LEMMA PassedIsReached ==
  ASSUME prog \in Programs, NEW E, IsFiniteSet(E), LaidIn(E),
         NEW x \in Formals, Params(x[1])[x[2]], ReconnectedEdges(x[1]) \subseteq E, NEW i \in Field,
         NEW z \in Formals, z = x \/ Usable(z[1], z[2]),
         FormalIn(z[1], z[2], <<1, i>>) \in ReachedBy(E, FormalIn(x[1], x[2], <<1, i>>), "PARAMETER_IN"),
         NEW y \in PassedTo(z, i)
  PROVE  /\ Usable(y[1], y[2])
         /\ FormalIn(y[1], y[2], <<1, i>>) \in ReachedBy(E, FormalIn(x[1], x[2], <<1, i>>), "PARAMETER_IN")
<1> DEFINE R == ReachedBy(E, FormalIn(x[1], x[2], <<1, i>>), "PARAMETER_IN")
<1>1. z[1] \in FunctionName /\ z[2] \in DOMAIN Params(z[1])
  BY DEF Formals
<1>2. y \in Formals /\ y[1] \in FunctionName
  BY DEF PassedTo, Formals
<1>3. PICK c \in Connected(z[1]) :
        /\ Callee(z[1], c) = y[1] /\ y[2] \in DOMAIN Args(z[1], c) /\ start[y] = 0
        /\ Args(z[1], c)[y[2]] \in Users(z[1], z[2], "param")
        /\ \/ Usable(z[1], z[2])
           \/ \E u \in Users(z[1], Args(z[1], c)[y[2]], "gep") : Insts(z[1])[u].field = i /\ u < c
  BY DEF PassedTo, Callee, Args
<1> DEFINE f == z[1]
           w == Args(f, c)[y[2]]
           k == y[2]
<1>4. c \in Calls(f) /\ c \in Nat
  BY <1>1, ArgumentsAre DEF Connected
<1>5. /\ DOMAIN Args(f, c) = DOMAIN Params(y[1]) /\ w \in Range(Args(f, c)) /\ w \in DOMAIN Insts(f)
  BY <1>1, <1>3, <1>4, ArgumentsAre
<1>6. Usable(y[1], y[2])
  <2>1. \A j \in DOMAIN Args(f, c) : Params(y[1])[j]
    BY <1>1, <1>3 DEF LaidIn, TreeIsNull, Callee, Args
  <2>2. \A j \in 1..y[2] : j \in DOMAIN Args(f, c)
    BY <1>1, <1>2, <1>3, <1>5, FunctionIs
  <2> QED
    BY <2>1, <2>2 DEF Usable
<1>7. <<1, i>> \in Shape /\ << >> \in Shape
  BY FirstLevels
<1>8. ActualIn(f, c, w, <<1, i>>) \in R
  <2>1. CASE Usable(f, z[2])
    <3>1. z[2] \in UsableParams(f)
      BY <1>1, <2>1 DEF UsableParams
    <3>2. << << >>, w >> \in FormalAddresses(f, z[2])
      BY <1>3, <1>7, RootAddresses, FormalAddressesAre
    <3>3. HasActualTree(f, c, w)
      <4>1. Complete(f, c)
        BY <1>1, <1>4 DEF Connected
      <4> QED
        BY <1>5, <4>1 DEF Complete, Args
    <3>4. << >> \o <<1, i>> = <<1, i>> /\ <<1, i>> \in Matched(<< >>)
      <4>1. \A q \in Shape : << >> \o q = q
        BY Paths
      <4>2. \A n \in 0..(Len(<<1, i>>) - 1) : SubSeq(<<1, i>>, 1, n) \in Seq(Field \cup {1})
        OBVIOUS
      <4>3. \A q \in Seq(Field \cup {1}) : << >> \o q = q
        OBVIOUS
      <4> QED
        BY <1>7, <4>1, <4>2, <4>3 DEF Matched
    <3>5. Edge(FormalIn(f, z[2], << >> \o <<1, i>>), ActualIn(f, c, w, <<1, i>>), "PARAMETER_IN") \in PassEdges(f, z[2], c)
      BY <1>5, <3>2, <3>3, <3>4, PassEdgesAre
    <3>6. PassEdges(f, z[2], c) \subseteq E
      BY <1>1, <1>4, <3>1 DEF LaidIn, FormalEdges
    <3> QED
      BY <3>4, <3>5, <3>6, ReachedOn
  <2>2. CASE ~Usable(f, z[2])
    <3>1. PICK u \in Users(f, w, "gep") : Insts(f)[u].field = i /\ u < c
      BY <1>3, <2>2
    <3>2. u \in FieldAddresses(f, z[2], i)
      BY <1>3, <3>1 DEF FieldAddresses
    <3>3. <<<<1, i>>, u>> \in FormalAddresses(f, z[2])
      BY <3>2, FieldAddressesAre
    <3>4. z[2] \in TreeParams(f) /\ z = x
      BY <1>1, <2>2 DEF TreeParams
    <3>5. Edge(FormalIn(f, z[2], <<1, i>>), Inst(f, u), "PARAMETER_IN") \in ReconnectedEdges(f)
      <4>1. <<<<1, i>>, u>>[1] # << >> /\ <<<<1, i>>, u>>[1] = <<1, i>> /\ <<<<1, i>>, u>>[2] = u
        OBVIOUS
      <4> QED
        BY <3>3, <3>4, <4>1 DEF ReconnectedEdges
    <3>6. Inst(f, u) \in R
      BY <3>4, <3>5, ReachedOn
    <3>7. <<<<1, i>>, u>> \in Addresses(f, {w})
      <4>1. u \in AddrVars(f, {w})[<<1, i>>]
        BY <3>1, FirstFields
      <4> QED
        BY <1>5, <1>7, <4>1, AddressesAre
    <3>8. Edge(Inst(f, u), ActualIn(f, c, w, <<1, i>>), "PARAMETER_IN") \in connectActualTrees(f, c, w)
      BY <3>1, <3>7, ActualTreesAre
    <3>9. connectActualTrees(f, c, w) \subseteq E
      BY <1>1, <1>3 DEF LaidIn
    <3> QED
      BY <3>6, <3>8, <3>9, ReachedOn
  <2> QED
    BY <2>1, <2>2
<1>9. FormalIn(y[1], y[2], <<1, i>>) \in R
  <2>1. connectInTrees(f, c, w, y[1], k) \subseteq E
    BY <1>1, <1>3 DEF LaidIn
  <2>2. BuiltSize \in Nat
    BY ShapeIsFinite, FS_Subset, FS_CardinalityType DEF BuiltSize
  <2>3. start[<<y[1], k>>] = 0
    BY <1>2, <1>3 DEF Formals
  <2>4. start[<<y[1], k>>] + BuiltSize = BuiltSize
    BY <2>2, <2>3
  <2>5. Edge(ActualIn(f, c, w, <<1, i>>), FormalIn(y[1], k, <<1, i>>), "PARAMETER_IN") \in connectInTrees(f, c, w, y[1], k)
    BY <1>7, <2>4 DEF connectInTrees
  <2> QED
    BY <1>8, <2>1, <2>5, ReachedOn
<1> QED
  BY <1>6, <1>9

(* No access is missed: ... *)
LEMMA HoldersAreReached ==
  ASSUME prog \in Programs, NEW E, IsFiniteSet(E), LaidIn(E),
         NEW x \in Formals, Params(x[1])[x[2]], ReconnectedEdges(x[1]) \subseteq E, NEW i \in Field,
         NEW y \in Holders(x, i), y # x, NEW u \in FieldAddresses(y[1], y[2], i)
  PROVE  Inst(y[1], u) \in ReachedBy(E, FormalIn(x[1], x[2], <<1, i>>), "PARAMETER_IN")
<1> DEFINE R == ReachedBy(E, FormalIn(x[1], x[2], <<1, i>>), "PARAMETER_IN")
           S == {z \in Formals : FormalIn(z[1], z[2], <<1, i>>) \in R /\ (z = x \/ Usable(z[1], z[2]))}
<1>1. x \in S
  BY ReachedIsLeast
<1>2. \A z \in S : PassedTo(z, i) \subseteq S
  <2>1. \A z : PassedTo(z, i) \subseteq Formals
    BY DEF PassedTo
  <2> QED
    BY <2>1, PassedIsReached
<1>3. y \in S
  BY <1>1, <1>2, HoldersAre
<1>4. y[1] \in FunctionName /\ y[2] \in UsableParams(y[1])
  BY <1>3 DEF UsableParams, Formals
<1>5. <<<<1, i>>, u>> \in FormalAddresses(y[1], y[2])
  BY FieldAddressesAre
<1>6. Edge(FormalIn(y[1], y[2], <<1, i>>), Inst(y[1], u), "PARAMETER_IN") \in TreeEdges(y[1], y[2])
  BY <1>5, TreeEdgesAre
<1>7. TreeEdges(y[1], y[2]) \subseteq E
  BY <1>4 DEF LaidIn, IntraEdges
<1> QED
  BY <1>3, <1>6, <1>7, ReachedOn

(* ... and none is found that is not one: from a field of a parameter, and from
   the structure when the field is its first, the edges lead to that field of
   the holders only. *)
FieldPaths(i) == {p \in {<<1>>, <<1, i>>} : p = <<1, i>> \/ i = 1}
IsPassed(y, i, c, w) ==
  /\ c \in Calls(y[1]) /\ w \in Users(y[1], y[2], "param")
  /\ Usable(y[1], y[2]) \/ \E u \in Users(y[1], w, "gep") : Insts(y[1])[u].field = i /\ u < c
OfHolder(y, i, n) ==
  \/ \E p \in FieldPaths(i) : n = FormalIn(y[1], y[2], p)
  \/ \E u \in FieldAddresses(y[1], y[2], i) : n = Inst(y[1], u)
  \/ \E c \in Calls(y[1]) : \E w \in Range(Args(y[1], c)) : \E p \in FieldPaths(i) :
       IsPassed(y, i, c, w) /\ n = ActualIn(y[1], c, w, p)

(* The address variables of the structure: those of its first field. *)
LEMMA StructureAddresses ==
  ASSUME prog \in Programs, NEW f \in FunctionName, NEW k, NEW i \in Field, NEW p \in FieldPaths(i),
         NEW u \in AddrVars(f, Users(f, k, "param"))[p]
  PROVE  u \in FieldAddresses(f, k, i)
<1>1. CASE p = <<1, i>>
  BY <1>1, FieldAddressesAre
<1>2. CASE p = <<1>> /\ i = 1
  <2>1. Origin(<<1>>) = << >> /\ <<1>> # << >> /\ <<1>> \in Shape
    BY FirstLevels DEF Origin, IsStruct, Front
  <2>2. PICK v \in Users(f, k, "param") :
          \/ u \in Users(f, v, "gep") /\ isGEPOffsetMatchDIOffset(p, Insts(f)[u].field)
          \/ u \in Users(f, v, "load")
    BY <1>2, <2>1, Derived, RootAddresses
  <2>3. u \notin Users(f, v, "load")
    BY <2>2, InstructionIs DEF Users
  <2>4. Insts(f)[u].field = 1
    BY <1>2, <2>2, <2>3 DEF isGEPOffsetMatchDIOffset, IsStruct
  <2> QED
    BY <1>2, <2>2, <2>3, <2>4 DEF FieldAddresses
<1> QED
  BY <1>1, <1>2 DEF FieldPaths

(* A pointer the address variables of a parameter hold at one of these paths,
   or above, is the parameter. *)
LEMMA OnlyParameterIsPassed ==
  ASSUME prog \in Programs, NEW f \in FunctionName, NEW k, NEW i \in Field,
         NEW p \in Shape, NEW s \in Shape, p \o s \in FieldPaths(i),
         NEW w \in AddrVars(f, Users(f, k, "param"))[p], Insts(f)[w].op \in {"param", "load"}
  PROVE  p = << >> /\ s = p \o s /\ w \in Users(f, k, "param")
<1>1. p = << >>
  <2> SUFFICES ASSUME p # << >> PROVE FALSE
    OBVIOUS
  <2>1. p \in FieldPaths(i) \/ p = <<1>>
    <3>1. p \in Seq(Field \cup {1}) /\ s \in Seq(Field \cup {1}) /\ Len(p) \in Nat /\ Len(s) \in Nat
      BY Paths
    <3>2. Len(p) # 0
      BY <3>1, EmptySequence
    <3>3. Len(p \o s) = Len(p) + Len(s)
      BY <3>1
    <3>4. Len(p \o s) \in {1, 2}
      BY DEF FieldPaths
    <3>5. CASE Len(p) = 1
      BY <3>5, FirstLevels
    <3>6. CASE Len(p) = 2
      <4>1. PICK j \in Field : p = <<1, j>>
        BY <3>6, FirstLevels
      <4>2. Len(p \o s) = 2 /\ (p \o s)[2] = p[2]
        BY <3>1, <3>3, <3>4, <3>6
      <4>3. p \o s = <<1, i>>
        BY <4>2 DEF FieldPaths
      <4>4. j = i
        <5>1. <<1, j>>[2] = j /\ <<1, i>>[2] = i
          OBVIOUS
        <5> QED
          BY <4>1, <4>2, <4>3, <5>1, Zenon
      <4> QED
        BY <4>1, <4>4 DEF FieldPaths
    <3>7. Len(p) = 1 \/ Len(p) = 2
      <4>1. \A m, n \in Nat : m # 0 /\ m + n \in {1, 2} => m = 1 \/ m = 2
        OBVIOUS
      <4> QED
        BY <3>1, <3>2, <3>3, <3>4, <4>1, Zenon
    <3> QED
      BY <3>5, <3>6, <3>7
  <2>2. PICK j \in Field : p \in FieldPaths(j) \/ (p = <<1>> /\ 1 \notin Field)
    BY <2>1 DEF FieldPaths
  <2>3. w \in DOMAIN Insts(f)
    BY LocalAddresses DEF Users
  <2>4. Origin(<<1>>) = << >> /\ <<1>> # << >> /\ <<1>> \in Shape
    BY FirstLevels DEF Origin, IsStruct, Front
  <2>5. CASE p \in FieldPaths(j)
    <3>1. w \in FieldAddresses(f, k, j)
      BY <2>5, StructureAddresses
    <3>2. Insts(f)[w].op = "gep"
      BY <3>1 DEF FieldAddresses, Users
    <3> QED
      BY <3>2
  <2>6. CASE p = <<1>> /\ 1 \notin Field
    <3>1. PICK v \in Users(f, k, "param") :
            \/ w \in Users(f, v, "gep")
            \/ w \in Users(f, v, "load")
      <4>1. PICK v \in AddrVars(f, Users(f, k, "param"))[Origin(p)] :
              \/ w \in Users(f, v, "gep") /\ isGEPOffsetMatchDIOffset(p, Insts(f)[w].field)
              \/ w \in Users(f, v, "load")
        BY <2>4, <2>6, Derived
      <4> QED
        BY <2>4, <2>6, <4>1, RootAddresses
    <3>2. w \in Users(f, v, "load")
      BY <3>1 DEF Users
    <3>3. Insts(f)[w].base = v /\ Insts(f)[w].op = "load" /\ Insts(f)[v].op = "param"
      BY <3>2 DEF Users
    <3> QED
      BY <2>3, <3>3, InstructionIs
  <2> QED
    BY <2>2, <2>5, <2>6
<1>2. << >> \o s = s
  BY Paths
<1>3. w \in Users(f, k, "param")
  BY <1>1, RootAddresses
<1> QED
  BY <1>1, <1>2, <1>3

(* Every edge leads from the field of a holder to that of one. *)
LEMMA EdgesStayWithHolders ==
  ASSUME prog \in Programs, NEW x \in Formals, NEW i \in Field, NEW a, NEW b,
         NEW g \in FunctionName, Reason(g, Edge(a, b, "PARAMETER_IN")),
         NEW y \in Holders(x, i), OfHolder(y, i, a)
  PROVE  \E z \in Holders(x, i) : OfHolder(z, i, b)
<1> DEFINE e == Edge(a, b, "PARAMETER_IN")
<1>1. \A c, d, t : e = Edge(c, d, t) => a = c /\ b = d
  BY DEF Edge
<1>2. y \in Formals /\ y[1] \in FunctionName
  BY HoldersAre DEF Formals
<1> HIDE DEF e
<1>3. ASSUME EntryEdge(g, e) PROVE FALSE
  <2>1. a = Entry(g)
    BY <1>1, <1>3 DEF EntryEdge
  <2> QED
    BY <2>1 DEF OfHolder, Entry, FormalIn, Inst, ActualIn, Node
<1>4. ASSUME AddressEdge(g, e) PROVE OfHolder(y, i, b)
  <2>1. PICK k \in DOMAIN Params(g) : \E x1 \in FormalAddresses(g, k) : a = FormalIn(g, k, x1[1]) /\ b = Inst(g, x1[2])
    BY <1>1, <1>4 DEF AddressEdge
  <2>2. PICK x1 \in FormalAddresses(g, k) : a = FormalIn(g, k, x1[1]) /\ b = Inst(g, x1[2])
    BY <2>1
  <2>3. PICK p \in FieldPaths(i) : a = FormalIn(y[1], y[2], p)
    BY <2>2 DEF OfHolder, FormalIn, Inst, ActualIn, Node
  <2>4. g = y[1] /\ k = y[2] /\ x1[1] = p
    BY <2>2, <2>3, SameNode DEF FormalIn
  <2>5. x1[2] \in FieldAddresses(g, k, i)
    BY <2>4, FormalAddressesAre, StructureAddresses
  <2> QED
    BY <2>2, <2>4, <2>5 DEF OfHolder
<1>5. ASSUME ArgumentEdge(g, e) PROVE OfHolder(y, i, b)
  <2>1. PICK c \in Calls(g) : \E v \in Range(Args(g, c)) :
          \/ a = Inst(g, c) /\ b = ActualIn(g, c, v, << >>)
          \/ \E x1 \in Addresses(g, {v}) :
               x1[2] < c /\ a = Inst(g, x1[2]) /\ b = ActualIn(g, c, v, x1[1])
    <3>1. PICK c \in Calls(g) : \E v \in Range(Args(g, c)) :
            \/ e = Edge(Inst(g, c), ActualIn(g, c, v, << >>), "PARAMETER_IN")
            \/ \E x1 \in Addresses(g, {v}) :
                 x1[2] < c /\ e = Edge(Inst(g, x1[2]), ActualIn(g, c, v, x1[1]), "PARAMETER_IN")
      BY <1>5 DEF ArgumentEdge
    <3>2. PICK v \in Range(Args(g, c)) :
            \/ e = Edge(Inst(g, c), ActualIn(g, c, v, << >>), "PARAMETER_IN")
            \/ \E x1 \in Addresses(g, {v}) :
                 x1[2] < c /\ e = Edge(Inst(g, x1[2]), ActualIn(g, c, v, x1[1]), "PARAMETER_IN")
      BY <3>1
    <3>3. \/ a = Inst(g, c) /\ b = ActualIn(g, c, v, << >>)
          \/ \E x1 \in Addresses(g, {v}) :
               x1[2] < c /\ a = Inst(g, x1[2]) /\ b = ActualIn(g, c, v, x1[1])
      BY <1>1, <3>2
    <3> QED
      BY <3>3
  <2>2. PICK v \in Range(Args(g, c)) :
          \/ a = Inst(g, c) /\ b = ActualIn(g, c, v, << >>)
          \/ \E x1 \in Addresses(g, {v}) :
               x1[2] < c /\ a = Inst(g, x1[2]) /\ b = ActualIn(g, c, v, x1[1])
    BY <2>1
  <2>3. PICK u \in FieldAddresses(y[1], y[2], i) : a = Inst(y[1], u)
    BY <2>2 DEF OfHolder, FormalIn, Inst, ActualIn, Node
  <2>4. u \in DOMAIN Insts(y[1]) /\ Insts(y[1])[u].op = "gep" /\ Insts(y[1])[u].field = i
        /\ Insts(y[1])[u].base \in Users(y[1], y[2], "param")
    BY DEF FieldAddresses, Users
  <2>5. a # Inst(g, c)
    <3>1. SUFFICES ASSUME a = Inst(g, c) PROVE FALSE
      OBVIOUS
    <3>2. g = y[1] /\ c = u
      BY <2>3, <3>1, SameNode DEF Inst
    <3> QED
      BY <2>4, <3>2 DEF Calls
  <2>6. PICK x1 \in Addresses(g, {v}) : x1[2] < c /\ a = Inst(g, x1[2]) /\ b = ActualIn(g, c, v, x1[1])
    BY <2>2, <2>5
  <2>7. g = y[1] /\ x1[2] = u
    BY <2>3, <2>6, SameNode DEF Inst
  <2>8. x1[1] \in Shape /\ u \in AddrVars(g, {v})[x1[1]]
    BY <2>7, AddressesAre
  <2>9. Insts(g)[v].op \in {"param", "load"}
    BY ArgumentsAre
  <2>10. Insts(g)[Insts(g)[u].base].op = "param"
    BY <2>4, <2>7 DEF Users
  <2>11. /\ Insts(g)[u].base \in {v}
         /\ \/ x1[1] = <<1>> /\ Insts(g)[u].field = 1
            \/ x1[1] = <<1, Insts(g)[u].field>>
    BY <2>4, <2>7, <2>8, <2>9, <2>10, OnlyFirstLevels
  <2>12. x1[1] \in FieldPaths(i)
    BY <2>4, <2>7, <2>11 DEF FieldPaths
  <2>13. v \in Users(y[1], y[2], "param") /\ u \in Users(y[1], v, "gep")
    BY <2>4, <2>7, <2>11 DEF Users
  <2>14. IsPassed(y, i, c, v)
    BY <2>4, <2>6, <2>7, <2>13 DEF IsPassed
  <2> QED
    BY <2>6, <2>7, <2>12, <2>14 DEF OfHolder
<1>6. ASSUME CallEdge(g, e) PROVE \E z \in Holders(x, i) : OfHolder(z, i, b)
  <2>1. PICK c \in Connected(g) : \E k \in DOMAIN Args(g, c) : \E p \in Shape :
          /\ start[<<Callee(g, c), k>>] = 0
          /\ a = ActualIn(g, c, Args(g, c)[k], p) /\ b = FormalIn(Callee(g, c), k, p)
    BY <1>1, <1>6 DEF CallEdge
  <2>2. PICK k \in DOMAIN Args(g, c) : \E p \in Shape :
          /\ start[<<Callee(g, c), k>>] = 0
          /\ a = ActualIn(g, c, Args(g, c)[k], p) /\ b = FormalIn(Callee(g, c), k, p)
    BY <2>1
  <2>3. PICK p \in Shape :
          /\ start[<<Callee(g, c), k>>] = 0
          /\ a = ActualIn(g, c, Args(g, c)[k], p) /\ b = FormalIn(Callee(g, c), k, p)
    BY <2>2
  <2>4. PICK d, w, q : q \in FieldPaths(i) /\ IsPassed(y, i, d, w) /\ a = ActualIn(y[1], d, w, q)
    BY <2>3 DEF OfHolder, FormalIn, Inst, ActualIn, Node
  <2>5. g = y[1] /\ c = d /\ Args(g, c)[k] = w /\ p = q
    BY <2>3, <2>4, SameNode DEF ActualIn
  <2> DEFINE z == <<Callee(g, c), k>>
  <2>6. z \in Formals
    BY ArgumentsAre DEF Connected, Formals
  <2>7. z \in PassedTo(y, i)
    BY <2>3, <2>4, <2>5, <2>6 DEF PassedTo, IsPassed, Callee, Args
  <2>8. z \in Holders(x, i)
    BY <2>7, HoldersAre
  <2>9. OfHolder(z, i, b)
    BY <2>3, <2>4, <2>5 DEF OfHolder
  <2> QED
    BY <2>8, <2>9
<1>7. ASSUME PassEdge(g, e) PROVE OfHolder(y, i, b)
  <2>1. PICK k \in UsableParams(g) : \E c \in Calls(g) : \E x1 \in FormalAddresses(g, k) : \E s \in Matched(x1[1]) :
          /\ x1[2] \in Range(Args(g, c))
          /\ a = FormalIn(g, k, x1[1] \o s) /\ b = ActualIn(g, c, x1[2], s)
    BY <1>1, <1>7 DEF PassEdge
  <2>2. PICK c \in Calls(g) : \E x1 \in FormalAddresses(g, k) : \E s \in Matched(x1[1]) :
          /\ x1[2] \in Range(Args(g, c))
          /\ a = FormalIn(g, k, x1[1] \o s) /\ b = ActualIn(g, c, x1[2], s)
    BY <2>1
  <2>3. PICK x1 \in FormalAddresses(g, k) : \E s \in Matched(x1[1]) :
          /\ x1[2] \in Range(Args(g, c))
          /\ a = FormalIn(g, k, x1[1] \o s) /\ b = ActualIn(g, c, x1[2], s)
    BY <2>2
  <2>4. PICK s \in Matched(x1[1]) :
          /\ x1[2] \in Range(Args(g, c))
          /\ a = FormalIn(g, k, x1[1] \o s) /\ b = ActualIn(g, c, x1[2], s)
    BY <2>3
  <2>5. PICK p \in FieldPaths(i) : a = FormalIn(y[1], y[2], p)
    BY <2>4 DEF OfHolder, FormalIn, Inst, ActualIn, Node
  <2>6. g = y[1] /\ k = y[2] /\ x1[1] \o s = p
    <3> DEFINE r == x1[1] \o s
    <3>1. a = FormalIn(g, k, r)
      BY <2>4
    <3> HIDE DEF r
    <3>2. g = y[1] /\ k = y[2] /\ r = p
      BY <2>5, <3>1, SameNode DEF FormalIn
    <3> QED
      BY <3>2 DEF r
  <2>7. Insts(g)[x1[2]].op \in {"param", "load"}
    BY <2>4, ArgumentsAre
  <2>8. x1[1] \in Shape /\ s \in Shape /\ x1[2] \in AddrVars(g, Users(g, k, "param"))[x1[1]]
    BY FormalAddressesAre DEF Matched
  <2>9. s = p /\ x1[2] \in Users(g, k, "param")
    <3>1. x1[1] \o s \in FieldPaths(i)
      BY <2>6
    <3>2. s = x1[1] \o s /\ x1[2] \in Users(g, k, "param")
      BY <2>7, <2>8, <3>1, OnlyParameterIsPassed
    <3> QED
      BY <2>6, <3>2
  <2>10. IsPassed(y, i, c, x1[2])
    BY <2>1, <2>6, <2>9 DEF IsPassed, UsableParams
  <2> QED
    BY <2>4, <2>6, <2>9, <2>10 DEF OfHolder
<1> QED
  BY <1>3, <1>4, <1>5, <1>6, <1>7 DEF Reason, e

LEMMA OnlyHoldersAreReached ==
  ASSUME prog \in Programs, NEW E, IsFiniteSet(E), JustifiedIn(E), NEW x \in Formals, NEW i \in Field,
         NEW n \in ReachedBy(E, FormalIn(x[1], x[2], <<1, i>>), "PARAMETER_IN"), n.kind = "inst"
  PROVE  \E y \in Holders(x, i) : \E u \in FieldAddresses(y[1], y[2], i) : n = Inst(y[1], u)
<1> DEFINE root == FormalIn(x[1], x[2], <<1, i>>)
           R == ReachedBy(E, root, "PARAMETER_IN")
           C == {m \in R : \E y \in Holders(x, i) : OfHolder(y, i, m)}
<1>1. root \in C
  <2>1. root \in R
    BY ReachedIsLeast
  <2>2. <<1, i>> \in FieldPaths(i)
    BY DEF FieldPaths
  <2>3. OfHolder(x, i, root)
    BY <2>2 DEF OfHolder
  <2> QED
    BY <2>1, <2>3, HoldersAre
<1>2. ASSUME NEW e \in E, e.type = "PARAMETER_IN", e.src \in C PROVE e.dst \in C
  <2>1. e.dst \in R
    BY <1>2, ReachedIsLeast
  <2>2. PICK g \in FunctionName : Reason(g, e)
    BY <1>2 DEF JustifiedIn
  <2>3. \E a, b, t : e = Edge(a, b, t)
    BY <2>2, Zenon DEF Reason, EntryEdge, AddressEdge, ArgumentEdge, CallEdge, PassEdge
  <2>4. PICK a, b, t : e = Edge(a, b, t)
    BY <2>3
  <2>5. e.src = a /\ e.dst = b /\ t = "PARAMETER_IN"
    BY <1>2, <2>4 DEF Edge
  <2>6. PICK y \in Holders(x, i) : OfHolder(y, i, a)
    BY <1>2, <2>5
  <2>7. Reason(g, Edge(a, b, "PARAMETER_IN"))
    BY <2>2, <2>4, <2>5
  <2>8. \E z \in Holders(x, i) : OfHolder(z, i, b)
    BY <2>6, <2>7, EdgesStayWithHolders
  <2> QED
    BY <2>1, <2>5, <2>8
<1>3. n \in C
  <2> HIDE DEF C, R
  <2>1. R \subseteq C
    BY <1>1, <1>2, ReachedIsLeast DEF R
  <2> QED
    BY <2>1 DEF R
<1>4. PICK y \in Holders(x, i) : OfHolder(y, i, n)
  BY <1>3
<1>5. \E u \in FieldAddresses(y[1], y[2], i) : n = Inst(y[1], u)
  BY <1>4 DEF OfHolder, FormalIn, ActualIn, Node
<1> QED
  BY <1>5

(* The tags of a field are those of its uses by the holders. *)
LEMMA AccessesAre ==
  ASSUME prog \in Programs, NEW E, IsFiniteSet(E), LaidIn(E), JustifiedIn(E),
         NEW x \in Formals, Params(x[1])[x[2]], ReconnectedEdges(x[1]) \subseteq E, NEW i \in Field
  PROVE  TagsOf(E, x[1], x[2], <<1, i>>) = FieldUses(x, i)
<1> DEFINE f == x[1]
           k == x[2]
           R == ReachedBy(E, FormalIn(f, k, <<1, i>>), "PARAMETER_IN")
           Own == UNION {computeDataAccessTagsForVal(f, v) : v \in FieldAddresses(f, k, i)}
           Found == {n \in R : n.kind = "inst" /\ SameDomain(f, n.at[1])}
           Others == UNION {computeDataAccessTagsForVal(n.at[1], n.at[2]) : n \in Found}
<1>1. TagsOf(E, f, k, <<1, i>>) = Own \cup Others
  BY FieldAddressesAre DEF TagsOf
<1>2. x \in Holders(x, i) /\ SameDomain(f, f)
  BY HoldersAre DEF SameDomain
<1>3. \A g, u : Inst(g, u).kind = "inst" /\ Inst(g, u).at[1] = g /\ Inst(g, u).at[2] = u
  BY DEF Inst, Node
<1>4. ASSUME NEW t \in Own \cup Others PROVE t \in FieldUses(x, i)
  <2>1. CASE t \in Own
    BY <1>2, <2>1 DEF FieldUses, Uses
  <2>2. CASE t \in Others
    <3>1. PICK n \in Found : t \in computeDataAccessTagsForVal(n.at[1], n.at[2])
      BY <2>2
    <3>2. n \in R /\ n.kind = "inst" /\ SameDomain(f, n.at[1])
      BY <3>1
    <3>3. PICK y \in Holders(x, i) : \E u \in FieldAddresses(y[1], y[2], i) : n = Inst(y[1], u)
      BY <3>2, OnlyHoldersAreReached
    <3>4. PICK u \in FieldAddresses(y[1], y[2], i) : n = Inst(y[1], u)
      BY <3>3
    <3>5. n.at[1] = y[1] /\ n.at[2] = u
      BY <1>3, <3>4
    <3>6. t \in Uses(y[1], y[2], i) /\ SameDomain(f, y[1])
      BY <3>1, <3>2, <3>5 DEF Uses
    <3> QED
      BY <3>6 DEF FieldUses
  <2> QED
    BY <1>4, <2>1, <2>2
<1>5. ASSUME NEW t \in FieldUses(x, i) PROVE t \in Own \cup Others
  <2>1. PICK y \in Holders(x, i) : SameDomain(f, y[1]) /\ t \in Uses(y[1], y[2], i)
    BY DEF FieldUses
  <2>2. PICK u \in FieldAddresses(y[1], y[2], i) : t \in computeDataAccessTagsForVal(y[1], u)
    BY <2>1 DEF Uses
  <2>3. CASE y = x
    BY <2>2, <2>3
  <2>4. CASE y # x
    <3>1. Inst(y[1], u) \in R
      BY <2>4, HoldersAreReached
    <3>2. Inst(y[1], u) \in Found
      BY <1>3, <2>1, <3>1
    <3> QED
      BY <1>3, <2>2, <3>2
  <2> QED
    BY <2>3, <2>4
<1> QED
  BY <1>1, <1>4, <1>5

(* computeDataAccessForFuncArgs. *)
LEMMA AccessesKeep ==
  ASSUME NEW CONSTANT f \in FunctionName, IInv, computeDataAccessForFuncArgs(f)
  PROVE  IInv'
<1>1. /\ prog' = prog /\ start' = start /\ waiting' = waiting /\ stage' = stage /\ written' = written
      /\ waiting = << >> /\ f \in unseen /\ unseen' = unseen \ {f}
      /\ edges' = edges \cup ReconnectedEdges(f)
      /\ accTags' = accTags \cup
           UNION {UNION {{[node |-> FormalIn(f, k, p), tag |-> t] : t \in TagsOf(edges', f, k, p)} : p \in Shape} :
                  k \in TreeParams(f)}
  BY DEF computeDataAccessForFuncArgs
<1>2. prog \in Programs
  BY DEF IInv, TypeOK
<1> DEFINE new == UNION {UNION {{[node |-> FormalIn(f, k, p), tag |-> t] : t \in TagsOf(edges', f, k, p)} : p \in Shape} :
                         k \in TreeParams(f)}
<1>3. /\ \A a \in new : \E k \in TreeParams(f) : \E p \in Shape : \E t \in TagsOf(edges', f, k, p) :
                          a = [node |-> FormalIn(f, k, p), tag |-> t]
      /\ \A k \in TreeParams(f) : \A p \in Shape : \A t \in TagsOf(edges', f, k, p) :
           [node |-> FormalIn(f, k, p), tag |-> t] \in new
  OBVIOUS
<1>4. accTags' = accTags \cup new
  BY <1>1
<1> HIDE DEF new
<1>5. \A k, p : TagsOf(edges', f, k, p) \subseteq {"DATA_READ", "DATA_WRITE"}
  BY DEF TagsOf, computeDataAccessTagsForVal
<1>6. \A k, p : FormalIn(f, k, p).kind = "formal_in" /\ FormalIn(f, k, p).at[1] = f
  BY DEF FormalIn, Node
<1>7. ReconnectedEdges(f) \subseteq EdgeSet
  BY <1>2, EdgesAreLocal
<1>8. \A a \in new : a.node.kind = "formal_in" /\ a.node.at[1] = f /\ a.tag \in {"DATA_READ", "DATA_WRITE"}
  <2> SUFFICES ASSUME NEW a \in new
               PROVE  a.node.kind = "formal_in" /\ a.node.at[1] = f /\ a.tag \in {"DATA_READ", "DATA_WRITE"}
    OBVIOUS
  <2>1. PICK k, p, t : t \in TagsOf(edges', f, k, p) /\ a = [node |-> FormalIn(f, k, p), tag |-> t]
    BY <1>3
  <2>2. a.node = FormalIn(f, k, p) /\ a.tag = t
    BY <2>1
  <2> QED
    BY <1>5, <1>6, <2>1, <2>2
<1>9. TypeOK'
  BY <1>1, <1>4, <1>7, <1>8, EdgesHaveTypes, Static DEF IInv, TypeOK
<1>10. IsFiniteSet(edges')
  BY <1>1, <1>2, <1>7, StaysFinite DEF IInv
<1>11. InOrder'
  BY <1>1 DEF IInv, InOrder
<1>12. Laid'
  <2>1. edges \subseteq edges' /\ written \subseteq written' /\ Laid
    BY <1>1 DEF IInv
  <2>2. \A g \in FunctionName :
           /\ Begun(g)' => Begun(g)
           /\ Called(g)' => Called(g)
           /\ Finished(g)' => Finished(g)
    BY <1>1 DEF Begun, Called, Finished
  <2>3. \A g \in FunctionName :
           /\ Begun(g) => IntraEdges(g)' \subseteq edges' /\ Written(g)' \subseteq written'
           /\ Called(g) => \A c \in Connected(g)' : ~TreeIsNull(g, c)' /\ CallIsLaid(g, c)'
           /\ Finished(g) => FormalEdges(g)' \subseteq edges'
    BY <1>1, <2>1, StaysLaid
  <2> QED
    BY <2>2, <2>3 DEF Laid
<1>13. \A e \in ReconnectedEdges(f) : Reason(f, e)
  <2>1. ASSUME NEW e \in ReconnectedEdges(f)
        PROVE  \E k \in DOMAIN Params(f) : \E x \in FormalAddresses(f, k) :
                 e = Edge(FormalIn(f, k, x[1]), Inst(f, x[2]), "PARAMETER_IN")
    BY DEF ReconnectedEdges, TreeParams
  <2> QED
    BY <2>1 DEF Reason, AddressEdge
<1>14. Justified'
  BY <1>1, <1>13, StaysJustified DEF IInv
<1>15. LaidIn(edges')
  <2>1. \A g : Begun(g) /\ Called(g) /\ Finished(g)
    BY <1>1 DEF Begun, Called, Finished, Range
  <2> QED
    BY <1>1, <2>1 DEF IInv, Laid, CallIsLaid, LaidIn
<1>16. JustifiedIn(edges')
  BY <1>1, <1>13 DEF IInv, Justified, JustifiedIn
<1>17. Seen'
  <2>1. \A a \in accTags' : a.node.at[1] \notin unseen'
    BY <1>1, <1>4, <1>8 DEF IInv, Seen
  <2>2. ASSUME NEW CONSTANT x \in Formals, NEW CONSTANT i \in Field, x[1] \notin unseen', Params(x[1])[x[2]]
        PROVE  FieldTags(x, i)' = FieldUses(x, i)
    <3> DEFINE node == FormalIn(x[1], x[2], <<1, i>>)
    <3>1. node.at[1] = x[1]
      BY DEF FormalIn, Node
    <3>2. CASE x[1] # f
      <4>1. \A t : [node |-> node, tag |-> t] \notin new
        <5>1. \A t : [node |-> node, tag |-> t].node = node
          OBVIOUS
        <5> HIDE DEF node
        <5> QED
          BY <1>8, <3>1, <3>2, <5>1
      <4>2. FieldTags(x, i)' = FieldTags(x, i)
        BY <1>4, <4>1 DEF FieldTags
      <4> QED
        BY <1>1, <2>2, <3>2, <4>2 DEF IInv, Seen
    <3>3. CASE x[1] = f
      <4>1. \A t : [node |-> node, tag |-> t] \notin accTags
        <5>1. \A t : [node |-> node, tag |-> t].node = node
          OBVIOUS
        <5> HIDE DEF node
        <5> QED
          BY <1>1, <3>1, <3>3, <5>1 DEF IInv, Seen
      <4>2. x[2] \in TreeParams(f) /\ <<1, i>> \in Shape
        BY <2>2, <3>3, FirstLevels DEF TreeParams, Formals
      <4>3. \A t : [node |-> node, tag |-> t] \in new <=> t \in TagsOf(edges', f, x[2], <<1, i>>)
        <5>1. ASSUME NEW t, [node |-> node, tag |-> t] \in new PROVE t \in TagsOf(edges', f, x[2], <<1, i>>)
          <6>1. PICK k, p, s : /\ s \in TagsOf(edges', f, k, p)
                               /\ [node |-> node, tag |-> t] = [node |-> FormalIn(f, k, p), tag |-> s]
            BY <1>3, <5>1
          <6>2. node = FormalIn(f, k, p) /\ t = s
            BY <6>1
          <6>3. k = x[2] /\ p = <<1, i>>
            BY <6>2, SameNode DEF FormalIn
          <6> QED
            BY <6>1, <6>2, <6>3
        <5>2. ASSUME NEW t \in TagsOf(edges', f, x[2], <<1, i>>) PROVE [node |-> node, tag |-> t] \in new
          BY <1>3, <3>3, <4>2
        <5> QED
          BY <5>1, <5>2
      <4>4. FieldTags(x, i)' = TagsOf(edges', f, x[2], <<1, i>>)
        BY <1>4, <1>5, <4>1, <4>3 DEF FieldTags
      <4>5. ReconnectedEdges(x[1]) \subseteq edges'
        BY <1>1, <3>3
      <4>6. TagsOf(edges', x[1], x[2], <<1, i>>) = FieldUses(x, i)
        BY <1>2, <1>10, <1>15, <1>16, <2>2, <4>5, AccessesAre
      <4> QED
        BY <3>3, <4>4, <4>6
    <3> QED
      BY <3>2, <3>3
  <2> QED
    BY <1>1, <2>1, <2>2, Static DEF Seen
<1> QED
  BY <1>9, <1>10, <1>11, <1>12, <1>14, <1>17 DEF IInv

LEMMA StepsKeep == IInv /\ [Next \/ Resting]_vars => IInv'
<1> SUFFICES ASSUME IInv, [Next \/ Resting]_vars PROVE IInv'
  OBVIOUS
<1>1. CASE connectIntraprocDependencies
  BY <1>1, IntraKeeps
<1>2. CASE connectInterprocDependencies
  BY <1>2, InterCrashes, InterKeeps
<1>3. CASE connectFormalInTreeWithActualTree
  BY <1>3, FormalKeeps
<1>4. ASSUME NEW CONSTANT f \in FunctionName, computeDataAccessForFuncArgs(f) PROVE IInv'
  BY <1>4, AccessesKeep
<1>5. CASE UNCHANGED vars
  BY <1>5, Unchanged
<1>6. CASE Resting
  BY <1>6, Unchanged DEF Resting
<1> QED
  BY <1>1, <1>2, <1>3, <1>4, <1>5, <1>6 DEF Next

(* The edges by which a write of a callee comes back: from the write to the
   field of its formal tree, to that of the tree of the call, to the addresses
   of the caller. *)
LEMMA WritesComeBack ==
  ASSUME IInv, Done, NEW f \in FunctionName, NEW c \in Connected(f), Position(Callee(f, c)) =< Position(f)
  PROVE  ComesBack(f, c)
<1> DEFINE g == Callee(f, c)
<1>1. prog \in Programs /\ IsFiniteSet(edges)
  BY DEF IInv, TypeOK
<1>2. \A h \in FunctionName : Begun(h) /\ Called(h)
  BY DEF Done, Begun, Called, Range
<1>3. c \in Calls(f) /\ g \in FunctionName
  BY <1>1, ArgumentsAre DEF Connected
<1>4. ComesBefore(g, f)
  <2>1. Range(prog.order) = FunctionName /\ prog.order \in Seq(FunctionName)
    BY <1>1, ProgramAssumption DEF WellFormed
  <2>2. \A h \in FunctionName : Position(h) \in DOMAIN prog.order /\ prog.order[Position(h)] = h
    BY <2>1 DEF Position, Range
  <2> QED
    BY <1>3, <2>2 DEF ComesBefore
<1>5. ~TreeIsNull(f, c) /\ CallIsLaid(f, c)
  BY <1>2 DEF IInv, Laid
<1>6. IntraEdges(g) \subseteq edges
  BY <1>2, <1>3 DEF IInv, Laid
<1> SUFFICES ASSUME NEW k \in DOMAIN Args(f, c), NEW i \in Field,
                    NEW w \in FieldAddresses(g, k, i), hasWriteAccess(g, w),
                    NEW u \in Users(f, Args(f, c)[k], "gep"), Insts(f)[u].field = i, u > c
             PROVE  Inst(f, u) \in ReachedBy(edges, Inst(g, w), "PARAMETER_OUT")
  BY DEF ComesBack, Reached, Callee, Args
<1> DEFINE v == Args(f, c)[k]
           R == ReachedBy(edges, Inst(g, w), "PARAMETER_OUT")
<1>7. Inst(g, w) \in R
  BY <1>1, ReachedIsLeast
<1>8. k \in UsableParams(g)
  <2>1. DOMAIN Args(f, c) = DOMAIN Params(g)
    BY <1>1, <1>3, ArgumentsAre
  <2>2. \A j \in DOMAIN Args(f, c) : Params(g)[j]
    BY <1>5 DEF TreeIsNull, Args, Callee
  <2>3. \A j \in 1..k : j \in DOMAIN Params(g)
    BY <1>1, <1>3, <2>1, FunctionIs
  <2> QED
    BY <2>1, <2>2, <2>3 DEF UsableParams, Usable
<1>9. <<<<1, i>>, w>> \in FormalAddresses(g, k) /\ <<1, i>> \in Shape
  BY FieldAddressesAre, FirstLevels
<1>10. FormalOut(g, k, <<1, i>>) \in R
  <2>1. Edge(Inst(g, w), FormalOut(g, k, <<1, i>>), "PARAMETER_OUT") \in TreeEdges(g, k)
    BY <1>9, TreeEdgesAre
  <2>2. TreeEdges(g, k) \subseteq edges
    BY <1>6, <1>8 DEF IntraEdges
  <2> QED
    BY <1>1, <1>7, <2>1, <2>2, ReachedOn
<1>11. ActualOut(f, c, v, <<1, i>>) \in R
  <2>1. <<<<1, i>>, w>> \in Writes(g, k)
    BY <1>9 DEF Writes
  <2>2. FormalOut(g, k, <<1, i>>) \in Written(g)
    BY <1>8, <2>1 DEF Written
  <2>3. Edge(FormalOut(g, k, <<1, i>>), ActualOut(f, c, v, <<1, i>>), "PARAMETER_OUT") \in edges
    BY <1>4, <1>5, <1>9, <2>2 DEF CallIsLaid
  <2> QED
    BY <1>1, <1>10, <2>3, ReachedOn
<1>12. Edge(ActualOut(f, c, v, <<1, i>>), Inst(f, u), "PARAMETER_OUT") \in edges
  <2>1. u \in AddrVars(f, {v})[<<1, i>>]
    BY FirstFields
  <2>2. {v} \subseteq DOMAIN Insts(f)
    BY <1>1, <1>3, ArgumentsAre
  <2>3. <<<<1, i>>, u>> \in Addresses(f, {v})
    BY <1>9, <2>1, <2>2, AddressesAre
  <2>4. Edge(ActualOut(f, c, v, <<1, i>>), Inst(f, u), "PARAMETER_OUT") \in connectActualTrees(f, c, v)
    BY <2>3, ActualTreesAre
  <2> QED
    BY <1>5, <2>4 DEF CallIsLaid
<1> QED
  BY <1>1, <1>11, <1>12, ReachedOn

LEMMA Consequences == IInv => TypeOK /\ TagsExact /\ CalleesBeforeComeBack
<1> SUFFICES ASSUME IInv PROVE TypeOK /\ TagsExact /\ CalleesBeforeComeBack
  OBVIOUS
<1>1. TagsExact
  <2> SUFFICES ASSUME Done, NEW x \in Formals, Params(x[1])[x[2]], NEW i \in Field
               PROVE  FieldTags(x, i) = FieldUses(x, i)
    BY DEF TagsExact, FieldTags, FieldUses
  <2> QED
    BY DEF IInv, Seen, Done
<1>2. CalleesBeforeComeBack
  BY WritesComeBack DEF CalleesBeforeComeBack, Callee
<1> QED
  BY <1>1, <1>2 DEF IInv

(* The inductive invariant holds. *)
LEMMA Invariance == Spec => []IInv
BY Initially, StepsKeep, PTL DEF Spec

(* The variables have their types: the trees, the edges, the tags. *)
THEOREM Typing == Spec => []TypeOK
BY Invariance, Consequences, PTL

(* When all accesses are computed, every field of every parameter is tagged with
   the accesses by the function and by those the parameter is passed on to on
   its side, and with no others. *)
THEOREM FieldsAreTaggedExactly == Spec => []TagsExact
BY Invariance, Consequences, PTL

(* What a callee that comes first in the module writes to a field leads to the
   addresses of the field that its caller computes after the call. *)
THEOREM WritesOfCalleesComeBack == Spec => []CalleesBeforeComeBack
BY Invariance, Consequences, PTL
=============================================================================
