------------------------ MODULE CriticalSectionsProofs ------------------------
(***************************************************************************)
(* What holds of the critical sections for every program, every layout of  *)
(* its functions and every order they are looked at in:                    *)
(*  - the warnings about atomic operations are counted once per function   *)
(*    that has one on a shared field;                                      *)
(*  - what executes with a lock held is in the section reported for it,    *)
(*    and without branches nothing else is: two invariants of every        *)
(*    activation relate the locks it holds to the places of the lock, of   *)
(*    its unlock and of the instruction ahead;                             *)
(*  - the fields accessed in such a section are marked, and the stubs of   *)
(*    its lock are written for a tree of one of them;                      *)
(*  - all of it stays so while the stubs are written.                      *)
(***************************************************************************)
EXTENDS SyncStub, FiniteSetTheorems, WellFoundedInduction, TLAPS

(* The functions there is something to warn of. *)
SharedIn ==
  {f \in BoundaryClosure : \E a \in InstsOf(f) : a.op = "atomic" /\ sharedOperation(a)}

(* Every one of them has been warned of, or an operation on a shared field in
   it, or the function itself, is still to be looked at. *)
Pending(f) ==
  f \in _funcs \/ \E a \in _atomic_operations : a \in InstsOf(f) /\ sharedOperation(a)
IInv ==
  /\ prog \in Programs
  /\ _funcs \subseteq BoundaryClosure
  /\ \A a \in _atomic_operations :
       a.op = "atomic" /\ \E f \in BoundaryClosure : a \in InstsOf(f)
  /\ _processed_func_names \subseteq SharedIn
  /\ \A f \in SharedIn : f \in _processed_func_names \/ Pending(f)
  /\ IsFiniteSet(_processed_func_names)
  /\ _warning_atomic_op_count = Cardinality(_processed_func_names)
  /\ phase \in {"sections", "warnings", "running"}
  /\ phase \in {"warnings", "running"} => _funcs = {}
  /\ phase = "running" => _atomic_operations = {}

(* What the layout consists of. *)
LEMMA Places ==
  ASSUME prog \in Programs, NEW f \in FunctionName
  PROVE  /\ Fn(f).blocks \in Seq(Block) /\ Len(Fn(f).blocks) \in Nat \ {0}
         /\ DOMAIN Fn(f).blocks = 1..Len(Fn(f).blocks)
         /\ \A k \in DOMAIN Fn(f).blocks :
              /\ Fn(f).blocks[k] \in Block /\ Fn(f).blocks[k] \in BlocksOf(f)
              /\ Len(Code(f, Fn(f).blocks[k])) \in Nat \ {0}
              /\ DOMAIN Code(f, Fn(f).blocks[k]) = 1..Len(Code(f, Fn(f).blocks[k]))
         /\ \A p \in Layout(f) :
              /\ p[1] \in DOMAIN Fn(f).blocks /\ p[1] \in Nat
              /\ p[2] \in DOMAIN Code(f, Fn(f).blocks[p[1]]) /\ p[2] \in Nat
              /\ p = <<p[1], p[2]>>
              /\ InstAt(f, p) \in Instruction /\ InstAt(f, p) \in InstsOf(f)
         /\ \A k \in DOMAIN Fn(f).blocks : \A m \in DOMAIN Code(f, Fn(f).blocks[k]) :
              <<k, m>> \in Layout(f) /\ InstAt(f, <<k, m>>) = Code(f, Fn(f).blocks[k])[m]
PROOF
<1>1. WellFormed(Fn(f))
  BY ProgramAssumption DEF Fn
<1>2. /\ Fn(f).blocks \in Seq(Block) /\ Len(Fn(f).blocks) \in Nat \ {0}
      /\ DOMAIN Fn(f).blocks = 1..Len(Fn(f).blocks)
  BY <1>1 DEF WellFormed
<1>3. ASSUME NEW k \in DOMAIN Fn(f).blocks
      PROVE  /\ Fn(f).blocks[k] \in Block /\ Fn(f).blocks[k] \in BlocksOf(f)
             /\ Code(f, Fn(f).blocks[k]) \in Seq(Instruction)
             /\ Len(Code(f, Fn(f).blocks[k])) \in Nat \ {0}
             /\ DOMAIN Code(f, Fn(f).blocks[k]) = 1..Len(Code(f, Fn(f).blocks[k]))
  <2>1. Fn(f).blocks[k] \in Range(Fn(f).blocks)
    BY DEF Range
  <2>2. Code(f, Fn(f).blocks[k]) \in Seq(Instruction) \ {<< >>}
    BY <1>1, <2>1 DEF WellFormed, Code
  <2> QED  BY <1>2, <2>1, <2>2 DEF BlocksOf
<1>4. ASSUME NEW p \in Layout(f)
      PROVE  /\ p[1] \in DOMAIN Fn(f).blocks /\ p[1] \in Nat
             /\ p[2] \in DOMAIN Code(f, Fn(f).blocks[p[1]]) /\ p[2] \in Nat
             /\ p = <<p[1], p[2]>>
             /\ InstAt(f, p) \in Instruction /\ InstAt(f, p) \in InstsOf(f)
  <2>1. PICK k \in DOMAIN Fn(f).blocks : p \in {k} \X DOMAIN Code(f, Fn(f).blocks[k])
    BY DEF Layout
  <2>2. p = <<k, p[2]>> /\ p[1] = k /\ p[2] \in DOMAIN Code(f, Fn(f).blocks[k])
    BY <2>1
  <2>3. k \in Nat /\ p[2] \in Nat
    BY <1>2, <1>3, <2>2
  <2>4. InstAt(f, p) \in Instruction
    BY <1>3, <2>2 DEF InstAt
  <2>5. InstAt(f, p) \in Range(Code(f, Fn(f).blocks[k]))
    BY <2>2 DEF InstAt, Range
  <2>6. InstAt(f, p) \in InstsOf(f)
    BY <1>3, <2>5 DEF InstsOf, BlocksOf
  <2> QED  BY <2>2, <2>3, <2>4, <2>6
<1>5. ASSUME NEW k \in DOMAIN Fn(f).blocks, NEW m \in DOMAIN Code(f, Fn(f).blocks[k])
      PROVE  <<k, m>> \in Layout(f) /\ InstAt(f, <<k, m>>) = Code(f, Fn(f).blocks[k])[m]
  BY DEF Layout, InstAt
<1> QED  BY <1>2, <1>3, <1>4, <1>5

(* An instruction has one place. *)
LEMMA OnePlace ==
  ASSUME prog \in Programs, NEW f \in FunctionName, NEW g \in FunctionName,
         NEW p \in Layout(f), NEW q \in Layout(g), InstAt(f, p) = InstAt(g, q)
  PROVE  f = g /\ p = q
PROOF
<1>1. p[1] \in DOMAIN Fn(f).blocks /\ p[2] \in DOMAIN Code(f, Fn(f).blocks[p[1]])
  BY Places
<1>2. q[1] \in DOMAIN Fn(g).blocks /\ q[2] \in DOMAIN Code(g, Fn(g).blocks[q[1]])
  BY Places
<1>3. Code(f, Fn(f).blocks[p[1]])[p[2]] = Code(g, Fn(g).blocks[q[1]])[q[2]]
  BY DEF InstAt
<1>4. \A j \in DOMAIN Fn(f).blocks, k \in DOMAIN Fn(g).blocks :
        \A m \in DOMAIN Code(f, Fn(f).blocks[j]), n \in DOMAIN Code(g, Fn(g).blocks[k]) :
          Code(f, Fn(f).blocks[j])[m] = Code(g, Fn(g).blocks[k])[n] => f = g /\ j = k /\ m = n
  BY PlaceAssumption, Zenon DEF Code, Fn
<1>5. f = g /\ p[1] = q[1] /\ p[2] = q[2]
  <2> DEFINE j == p[1]
             k == q[1]
             m == p[2]
             n == q[2]
  <2>1. Code(f, Fn(f).blocks[j])[m] = Code(g, Fn(g).blocks[k])[n]
    BY <1>3
  <2>2. j \in DOMAIN Fn(f).blocks /\ k \in DOMAIN Fn(g).blocks
    BY <1>1, <1>2
  <2>3. m \in DOMAIN Code(f, Fn(f).blocks[j]) /\ n \in DOMAIN Code(g, Fn(g).blocks[k])
    BY <1>1, <1>2
  <2> HIDE DEF j, k, m, n
  <2>4. f = g /\ j = k /\ m = n
    BY <1>4, <2>1, <2>2, <2>3
  <2> QED  BY <2>4 DEF j, k, m, n
<1>6. p = <<p[1], p[2]>> /\ q = <<q[1], q[2]>>
  BY Places
<1> QED  BY <1>5, <1>6

LEMMA PlaceOfInst ==
  ASSUME prog \in Programs, NEW f \in FunctionName
  PROVE  /\ \A i \in InstsOf(f) : \E p \in Layout(f) : i = InstAt(f, p)
         /\ \A p \in Layout(f) : Place(f, InstAt(f, p)) = p
PROOF
<1>1. ASSUME NEW i \in InstsOf(f) PROVE \E p \in Layout(f) : i = InstAt(f, p)
  <2>1. PICK b \in Range(Fn(f).blocks) : i \in Range(Code(f, b))
    BY DEF InstsOf
  <2>2. PICK k \in DOMAIN Fn(f).blocks : b = Fn(f).blocks[k]
    BY DEF Range
  <2>3. PICK m \in DOMAIN Code(f, b) : i = Code(f, b)[m]
    BY <2>1 DEF Range
  <2>4. <<k, m>> \in Layout(f) /\ InstAt(f, <<k, m>>) = i
    BY <2>2, <2>3, Places
  <2> QED  BY <2>4
<1>2. ASSUME NEW p \in Layout(f) PROVE Place(f, InstAt(f, p)) = p
  <2>1. \A q \in Layout(f) : InstAt(f, q) = InstAt(f, p) <=> q = p
    BY OnePlace
  <2> QED  BY <2>1 DEF Place
<1> QED  BY <1>1, <1>2

(* The function of an instruction is determined. *)
LEMMA HomeIsUnique ==
  ASSUME prog \in Programs, NEW f \in FunctionName, NEW a \in InstsOf(f)
  PROVE  Home(a) = f
PROOF
<1>1. ASSUME NEW g \in FunctionName, a \in InstsOf(g) PROVE g = f
  <2>1. PICK p \in Layout(f) : a = InstAt(f, p)
    BY PlaceOfInst
  <2>2. PICK q \in Layout(g) : a = InstAt(g, q)
    BY <1>1, PlaceOfInst
  <2> QED  BY <2>1, <2>2, OnePlace
<1> QED  BY <1>1 DEF Home

LEMMA ClosureInFunctions == BoundaryClosure \subseteq FunctionName
  BY DEF BoundaryClosure

LEMMA InitKept == Init => IInv
PROOF
<1> SUFFICES ASSUME Init PROVE IInv
  OBVIOUS
<1>1. SharedIn \subseteq BoundaryClosure
  BY DEF SharedIn
<1>2. IsFiniteSet({}) /\ Cardinality({}) = 0
  BY FS_EmptySet
<1> QED  BY <1>1, <1>2 DEF Init, IInv, Pending

(* What the invariant reads of the program does not change. *)
LEMMA ProgramFixed ==
  ASSUME prog' = prog
  PROVE  /\ BoundaryClosure' = BoundaryClosure
         /\ \A f : InstsOf(f)' = InstsOf(f)
         /\ SharedIn' = SharedIn
PROOF
<1>1. \A f : InstsOf(f)' = InstsOf(f)
  BY DEF InstsOf, Code, Fn
<1>2. \A f : Callees(f)' = Callees(f)
  BY <1>1 DEF Callees
<1>3. BoundaryClosure' = BoundaryClosure
  BY <1>2 DEF BoundaryClosure, ClosedUnderCalls
<1> QED  BY <1>1, <1>3 DEF SharedIn

LEMMA NextKept == IInv /\ [Next \/ Resting]_vars => IInv'
PROOF
<1> SUFFICES ASSUME IInv, [Next \/ Resting]_vars PROVE IInv'
  OBVIOUS
<1>1. ASSUME NEW f \in FunctionName, computeCriticalSections(f) PROVE IInv'
  <2>1. prog' = prog /\ f \in _funcs /\ phase = "sections"
        /\ _funcs' = _funcs \ {f}
        /\ _atomic_operations' = _atomic_operations \cup {i \in InstsOf(f) : i.op = "atomic"}
        /\ _processed_func_names' = _processed_func_names
        /\ _warning_atomic_op_count' = _warning_atomic_op_count
        /\ phase' = IF _funcs' = {} THEN "warnings" ELSE phase
    BY <1>1 DEF computeCriticalSections
  <2>2. f \in BoundaryClosure
    BY <2>1 DEF IInv
  <2>3. \A a \in _atomic_operations' :
          a.op = "atomic" /\ \E g \in BoundaryClosure : a \in InstsOf(g)
    BY <2>1, <2>2 DEF IInv
  <2>4. ASSUME NEW g \in SharedIn PROVE g \in _processed_func_names \/ Pending(g)'
    <3>1. CASE g = f
      <4>1. PICK a \in InstsOf(f) : a.op = "atomic" /\ sharedOperation(a)
        BY <3>1 DEF SharedIn
      <4>2. a \in _atomic_operations' /\ a \in InstsOf(f)'
        BY <4>1, <2>1, ProgramFixed
      <4> QED  BY <3>1, <4>1, <4>2 DEF Pending, sharedOperation
    <3>2. CASE g # f
      <4>1. InstsOf(g)' = InstsOf(g)
        BY <2>1, ProgramFixed
      <4> QED  BY <3>2, <4>1, <2>1 DEF IInv, Pending, sharedOperation
    <3> QED  BY <3>1, <3>2
  <2>5. phase' \in {"warnings", "running"} => _funcs' = {}
    BY <2>1
  <2>6. phase' # "running"
    BY <2>1
  <2> QED  BY <2>1, <2>3, <2>4, <2>5, <2>6, ProgramFixed DEF IInv
<1>2. ASSUME NEW l \in unwarned, computeWarningCS(l) PROVE IInv'
  BY <1>2, ProgramFixed DEF computeWarningCS, IInv, Pending, sharedOperation
<1>3. ASSUME NEW a \in _atomic_operations, computeWarningAtomicOps(a) PROVE IInv'
  <2>1. prog' = prog /\ _funcs' = _funcs /\ _atomic_operations' = _atomic_operations \ {a}
        /\ phase = "warnings" /\ phase' = phase
    BY <1>3 DEF computeWarningAtomicOps
  <2>2. PICK f \in BoundaryClosure : a \in InstsOf(f)
    BY DEF IInv
  <2>3. Home(a) = f
    BY <2>2, HomeIsUnique, ClosureInFunctions DEF IInv
  <2>4. a.op = "atomic"
    BY DEF IInv
  <2>5. CASE warns(f, a)
    <3>1. _processed_func_names' = _processed_func_names \cup {f}
          /\ _warning_atomic_op_count' = _warning_atomic_op_count + 1
      BY <1>3, <2>3, <2>5 DEF computeWarningAtomicOps
    <3>2. f \notin _processed_func_names /\ sharedOperation(a)
      BY <2>5 DEF warns
    <3>3. f \in SharedIn
      BY <2>2, <2>4, <3>2 DEF SharedIn
    <3>4. IsFiniteSet(_processed_func_names')
          /\ Cardinality(_processed_func_names') = Cardinality(_processed_func_names) + 1
      BY <3>1, <3>2, FS_AddElement DEF IInv
    <3>5. ASSUME NEW g \in SharedIn PROVE g \in _processed_func_names' \/ Pending(g)'
      <4>1. CASE g = f
        BY <4>1, <3>1
      <4>2. CASE g # f
        <5>1. a \notin InstsOf(g)
          <6>1. g \in FunctionName
            BY ClosureInFunctions DEF SharedIn
          <6> QED  BY <6>1, <4>2, <2>3, HomeIsUnique DEF IInv
        <5>2. InstsOf(g)' = InstsOf(g)
          BY <2>1, ProgramFixed
        <5> QED  BY <5>1, <5>2, <2>1, <3>1 DEF IInv, Pending, sharedOperation
      <4> QED  BY <4>1, <4>2
    <3> QED  BY <2>1, <3>1, <3>3, <3>4, <3>5, ProgramFixed DEF IInv
  <2>6. CASE ~warns(f, a)
    <3>1. _processed_func_names' = _processed_func_names
          /\ _warning_atomic_op_count' = _warning_atomic_op_count
      BY <1>3, <2>3, <2>6 DEF computeWarningAtomicOps
    <3>2. ASSUME NEW g \in SharedIn PROVE g \in _processed_func_names \/ Pending(g)'
      <4>1. CASE g = f /\ sharedOperation(a)
        BY <4>1, <2>6 DEF warns
      <4>2. CASE g # f \/ ~sharedOperation(a)
        <5>1. a \in InstsOf(g) => g = f
          <6>1. g \in FunctionName
            BY ClosureInFunctions DEF SharedIn
          <6> QED  BY <6>1, <2>3, HomeIsUnique DEF IInv
        <5>2. InstsOf(g)' = InstsOf(g)
          BY <2>1, ProgramFixed
        <5> QED  BY <5>1, <5>2, <4>2, <2>1 DEF IInv, Pending, sharedOperation
      <4> QED  BY <4>1, <4>2
    <3> QED  BY <2>1, <3>1, <3>2, ProgramFixed DEF IInv
  <2> QED  BY <2>5, <2>6
<1>4. ASSUME NEW f \in FunctionName, Start(f) PROVE IInv'
  <2>1. prog' = prog /\ _atomic_operations = {} /\ _funcs' = _funcs
        /\ _atomic_operations' = _atomic_operations /\ phase = "warnings"
        /\ phase' = "running"
        /\ _processed_func_names' = _processed_func_names
        /\ _warning_atomic_op_count' = _warning_atomic_op_count
    BY <1>4 DEF Start
  <2> QED  BY <2>1, ProgramFixed DEF IInv, Pending
<1>5. CASE UNCHANGED Analysed
  <2>1. prog' = prog /\ _funcs' = _funcs /\ _atomic_operations' = _atomic_operations
        /\ phase' = phase /\ _processed_func_names' = _processed_func_names
        /\ _warning_atomic_op_count' = _warning_atomic_op_count
    BY <1>5 DEF Analysed
  <2> QED  BY <2>1, ProgramFixed DEF IInv, Pending, sharedOperation
<1>6. CASE Execution
  BY <1>6, <1>5 DEF Execution, Execute, Branch, Invoke, Return
<1>7. CASE UNCHANGED vars
  BY <1>7, <1>5 DEF vars, Analysed
<1> QED
  BY <1>1, <1>2, <1>3, <1>4, <1>6, <1>7 DEF Next, Resting, Analyse, Warn

LEMMA CountIsExact == IInv => OneWarningEach
PROOF
<1> SUFFICES ASSUME IInv, phase = "running"
             PROVE  _warning_atomic_op_count = Cardinality(SharedIn)
  BY DEF OneWarningEach, SharedIn
<1>1. \A f \in SharedIn : ~Pending(f)
  BY DEF IInv, Pending
<1>2. _processed_func_names = SharedIn
  BY <1>1 DEF IInv
<1> QED  BY <1>2 DEF IInv

(* When the analysis has ended, the count of warnings is the number of
   functions called from the boundary that have an atomic operation on a
   shared field: computeWarningAtomicOps, in whatever order of addresses. *)
THEOREM OneWarningForEach == Spec => []OneWarningEach
PROOF
<1>1. Init => IInv
  BY InitKept
<1>2. IInv /\ [Next \/ Resting]_vars => IInv'
  BY NextKept
<1>3. IInv => OneWarningEach
  BY CountIsExact
<1> QED  BY <1>1, <1>2, <1>3, PTL DEF Spec

-----------------------------------------------------------------------------
(* The layout is a line. *)
LEMMA Line ==
  ASSUME prog \in Programs, NEW f \in FunctionName, NEW p \in Layout(f), NEW q \in Layout(f)
  PROVE  /\ Before(p, q) \/ Before(q, p) \/ p = q
         /\ Before(p, q) => ~Before(q, p) /\ p # q
         /\ \A r \in Layout(f) : Before(p, q) /\ Before(q, r) => Before(p, r)
PROOF
<1>1. p[1] \in Nat /\ p[2] \in Nat /\ p = <<p[1], p[2]>>
  BY Places
<1>2. q[1] \in Nat /\ q[2] \in Nat /\ q = <<q[1], q[2]>>
  BY Places
<1>3. \A r \in Layout(f) : r[1] \in Nat /\ r[2] \in Nat
  BY Places
<1>4. p[1] = q[1] /\ p[2] = q[2] => p = q
  BY <1>1, <1>2
<1>5. ASSUME NEW r \in Layout(f), Before(p, q), Before(q, r) PROVE Before(p, r)
  BY <1>1, <1>2, <1>3, <1>5 DEF Before
<1>6. Before(p, q) \/ Before(q, p) \/ p = q
  BY <1>1, <1>2, <1>4 DEF Before
<1>7. Before(p, q) => ~Before(q, p) /\ p # q
  BY <1>1, <1>2 DEF Before
<1> QED  BY <1>5, <1>6, <1>7

(* computeCSInFunc finds the unlock that releases a lock, when it is the next
   call of the kind. *)
LEMMA PairFound ==
  ASSUME prog \in Programs, NEW f \in FunctionName, NEW p \in Layout(f), NEW q \in Layout(f),
         Pairs(f, p, q), InstAt(f, q).lock = InstAt(f, p).lock, ~InstAt(f, p).versioned
  PROVE  /\ InstAt(f, p) \in DOMAIN computeCSInFunc(f)
         /\ computeCSInFunc(f)[InstAt(f, p)] = InstAt(f, q)
PROOF
<1> DEFINE l == InstAt(f, p)
<1>1. l.op = "lock" /\ InstAt(f, q).op = "unlock" /\ Before(p, q)
      /\ LockCalls(f, l.lock) \cap Between(p, q, f) = {}
  BY DEF Pairs
<1>2. Place(f, l) = p
  BY PlaceOfInst
<1>3. q \in Unlocks(f, l)
  <2>1. ~Before(q, p)
    BY <1>1, Line
  <2> QED  BY <1>1, <1>2, <2>1 DEF Unlocks, isUnlockInst
<1>4. ASSUME NEW r \in Unlocks(f, l) PROVE r = q \/ Before(q, r)
  <2>1. r \in Layout(f) /\ InstAt(f, r).op = "unlock" /\ InstAt(f, r).lock = l.lock /\ ~Before(r, p)
    BY <1>2, <1>4 DEF Unlocks, isUnlockInst
  <2>2. Before(p, r)
    BY <1>1, <2>1, Line
  <2>3. r \in LockCalls(f, l.lock)
    BY <2>1 DEF LockCalls
  <2>4. ~Before(r, q)
    BY <1>1, <2>1, <2>2, <2>3 DEF Between
  <2> QED  BY <2>1, <2>4, Line
<1>5. \A r \in Unlocks(f, l) : ~Before(r, q)
  BY <1>4, Line DEF Unlocks
<1>6. {r \in Unlocks(f, l) : ~ \E x \in Unlocks(f, l) : Before(x, r)} = {q}
  BY <1>3, <1>4, <1>5
<1>7. UnlockOf(f, l) = {InstAt(f, q)}
  <2>1. \A S : {InstAt(f, r) : r \in {q}} = {InstAt(f, q)}
    OBVIOUS
  <2> QED  BY <1>6, <2>1 DEF UnlockOf, FirstOf
<1>8. l \in InstsOf(f)
  BY Places
<1> HIDE DEF l
<1>9. l \in {i \in InstsOf(f) : isLockInst(i) /\ UnlockOf(f, i) # {}}
  BY <1>1, <1>7, <1>8 DEF isLockInst
<1>10. (CHOOSE u \in UnlockOf(f, l) : TRUE) = InstAt(f, q)
  BY <1>7
<1> QED  BY <1>9, <1>10 DEF computeCSInFunc, l

LEMMA SectionsOf ==
  ASSUME prog \in Programs, NEW f \in FunctionName, NEW l \in DOMAIN computeCSInFunc(f)
  PROVE  /\ l \in InstsOf(f) /\ l.op = "lock" /\ Home(l) = f
         /\ \E p \in Layout(f) : l = InstAt(f, p)
PROOF
<1>1. l \in InstsOf(f) /\ l.op = "lock"
  BY DEF computeCSInFunc, isLockInst
<1> QED  BY <1>1, HomeIsUnique, PlaceOfInst

(* computeInstsInCS gives what stands between the two. *)
LEMMA SectionIsBetween ==
  ASSUME prog \in Programs, NEW f \in FunctionName,
         NEW p \in Layout(f), NEW q \in Layout(f), NEW r \in Layout(f)
  PROVE  InstAt(f, r) \in computeInstsInCS(InstAt(f, p), InstAt(f, q)) <=> r \in Between(p, q, f)
PROOF
<1>1. Home(InstAt(f, p)) = f
  BY Places, HomeIsUnique
<1>2. Place(f, InstAt(f, p)) = p /\ Place(f, InstAt(f, q)) = q
  BY PlaceOfInst
<1>3. computeInstsInCS(InstAt(f, p), InstAt(f, q)) = {InstAt(f, x) : x \in Between(p, q, f)}
  BY <1>1, <1>2 DEF computeInstsInCS
<1>4. \A x \in Between(p, q, f) : InstAt(f, x) = InstAt(f, r) => x = r
  BY OnePlace DEF Between
<1> QED  BY <1>3, <1>4

-----------------------------------------------------------------------------
(* The place an activation is about to execute. *)
Spot(a) == <<CHOOSE k \in DOMAIN Fn(a.fn).blocks : Fn(a.fn).blocks[k] = a.bb, a.pc>>
(* Each lock held by a function the reports speak of was taken before and is to
   be released later, on every way from here. *)
HeldInside(a) ==
  \A l \in a.held : \E p, q \in Layout(a.fn) :
    /\ InstAt(a.fn, p) = l /\ Pairs(a.fn, p, q) /\ ~l.versioned
    /\ InstAt(a.fn, q).lock = l.lock /\ InstAt(a.fn, q).object = l.object
    /\ Before(p, Spot(a)) /\ ~Before(q, Spot(a))
    /\ Straight(a.fn) \/ \E S \in SUBSET BlocksOf(a.fn) : Releases(a.fn, p, q, S) /\ a.bb \in S
(* Without branches, what was taken and is to be released is held. *)
InsideHeld(a) ==
  Straight(a.fn) =>
    \A p, q \in Layout(a.fn) :
      /\ Pairs(a.fn, p, q) /\ InstAt(a.fn, q).lock = InstAt(a.fn, p).lock
      /\ Before(p, Spot(a)) /\ ~Before(q, Spot(a))
      => InstAt(a.fn, p) \in a.held
ActInv(a) ==
  /\ a \in [fn: FunctionName, bb: Block, pc: Nat, held: SUBSET Instruction]
  /\ Spot(a) \in Layout(a.fn) /\ Fn(a.fn).blocks[Spot(a)[1]] = a.bb
  /\ Plain(a.fn) => HeldInside(a) /\ InsideHeld(a)

LEMMA SpotIs ==
  ASSUME prog \in Programs, NEW a, a.fn \in FunctionName, NEW k \in DOMAIN Fn(a.fn).blocks,
         Fn(a.fn).blocks[k] = a.bb, a.pc \in DOMAIN Code(a.fn, a.bb)
  PROVE  /\ Spot(a) = <<k, a.pc>> /\ Spot(a) \in Layout(a.fn)
         /\ Fn(a.fn).blocks[Spot(a)[1]] = a.bb /\ InstAt(a.fn, Spot(a)) = Code(a.fn, a.bb)[a.pc]
PROOF
<1> DEFINE f == a.fn
<1>1. ASSUME NEW j \in DOMAIN Fn(f).blocks, Fn(f).blocks[j] = a.bb PROVE j = k
  <2>1. 1 \in DOMAIN Code(f, a.bb)
    BY Places
  <2>2. /\ <<j, 1>> \in Layout(f) /\ InstAt(f, <<j, 1>>) = Code(f, a.bb)[1]
        /\ <<k, 1>> \in Layout(f) /\ InstAt(f, <<k, 1>>) = Code(f, a.bb)[1]
    BY <1>1, <2>1, Places
  <2>3. <<j, 1>> = <<k, 1>>
    BY <2>2, OnePlace
  <2> QED  BY <2>3
<1>2. Spot(a) = <<k, a.pc>>
  BY <1>1 DEF Spot
<1> QED  BY <1>2, Places

LEMMA AheadIs ==
  ASSUME prog \in Programs, NEW a, ActInv(a)
  PROVE  /\ a.fn \in FunctionName /\ Spot(a) \in Layout(a.fn)
         /\ Spot(a)[1] \in DOMAIN Fn(a.fn).blocks /\ Fn(a.fn).blocks[Spot(a)[1]] = a.bb
         /\ Spot(a) = <<Spot(a)[1], a.pc>>
         /\ a.pc \in DOMAIN Code(a.fn, a.bb) /\ a.bb \in BlocksOf(a.fn)
         /\ InstAt(a.fn, Spot(a)) = Code(a.fn, a.bb)[a.pc]
         /\ Code(a.fn, a.bb)[a.pc] \in Instruction
PROOF
<1>1. a.fn \in FunctionName /\ Spot(a) \in Layout(a.fn) /\ Fn(a.fn).blocks[Spot(a)[1]] = a.bb
  BY DEF ActInv
<1>2. Spot(a)[2] = a.pc
  BY DEF Spot
<1>3. /\ Spot(a)[1] \in DOMAIN Fn(a.fn).blocks /\ a.pc \in DOMAIN Code(a.fn, a.bb)
      /\ Spot(a) = <<Spot(a)[1], a.pc>>
      /\ InstAt(a.fn, Spot(a)) \in Instruction
  BY <1>1, <1>2, Places
<1>4. a.bb \in BlocksOf(a.fn)
  BY <1>1, <1>3, Places
<1>5. InstAt(a.fn, Spot(a)) = Code(a.fn, a.bb)[a.pc]
  BY <1>1, <1>2 DEF InstAt
<1> QED  BY <1>1, <1>3, <1>4, <1>5

(* An activation begins with no lock, at the start of the layout. *)
LEMMA Started ==
  ASSUME prog \in Programs, NEW f \in FunctionName
  PROVE  ActInv(Activation(f))
PROOF
<1> DEFINE a == Activation(f)
<1>1. a.fn = f /\ a.bb = Fn(f).blocks[1] /\ a.pc = 1 /\ a.held = {}
  BY DEF Activation
<1>2. 1 \in DOMAIN Fn(f).blocks /\ 1 \in DOMAIN Code(f, a.bb) /\ a.bb \in Block
  BY <1>1, Places
<1>3. a \in [fn: FunctionName, bb: Block, pc: Nat, held: SUBSET Instruction]
  BY <1>1, <1>2 DEF Activation
<1> HIDE DEF a
<1>4. Spot(a) = <<1, 1>> /\ Spot(a) \in Layout(a.fn) /\ Fn(a.fn).blocks[Spot(a)[1]] = a.bb
  BY <1>1, <1>2, SpotIs
<1>5. ASSUME NEW p \in Layout(f) PROVE ~Before(p, Spot(a))
  <2>1. p[1] >= 1 /\ p[2] >= 1 /\ p[1] \in Nat /\ p[2] \in Nat
    BY Places
  <2> QED  BY <1>4, <2>1 DEF Before
<1>6. HeldInside(a) /\ InsideHeld(a)
  BY <1>1, <1>5 DEF HeldInside, InsideHeld
<1> QED  BY <1>3, <1>4, <1>6 DEF ActInv, a

(* What a call of a kind is to the others of a plain function. *)
LEMMA Partner ==
  ASSUME prog \in Programs, NEW f \in FunctionName, Plain(f), NEW p \in Layout(f),
         InstAt(f, p).op = "lock"
  PROVE  /\ ~InstAt(f, p).versioned
         /\ \E q \in Layout(f) :
              /\ Pairs(f, p, q) /\ InstAt(f, q).lock = InstAt(f, p).lock
              /\ InstAt(f, q).object = InstAt(f, p).object
              /\ Straight(f) \/ \E S \in SUBSET BlocksOf(f) : Releases(f, p, q, S)
PROOF
<1> DEFINE kind == InstAt(f, p).lock
           calls == LockCalls(f, kind)
<1>1. InstAt(f, p) \in Instruction
  BY Places
<1>2. kind \in LockKind
  BY <1>1 DEF Instruction
<1>3. Apart(f, kind)
  BY <1>2 DEF Plain
<1>4. p \in calls
  BY DEF LockCalls
<1>5. /\ ~InstAt(f, p).versioned
      /\ \A q \in calls : InstAt(f, p).object = InstAt(f, q).object
      /\ \E q \in calls : Pairs(f, p, q) \/ Pairs(f, q, p)
  BY <1>3, <1>4 DEF Apart
<1>6. \A q \in calls : q \in Layout(f) /\ InstAt(f, q).lock = kind
  BY DEF LockCalls
<1>7. \A q : ~Pairs(f, q, p)
  BY DEF Pairs
<1>8. CASE Straight(f)
  BY <1>5, <1>6, <1>7, <1>8
<1>9. CASE ~Straight(f)
  <2>1. PICK x \in calls, y \in calls :
          calls = {x, y} /\ Pairs(f, x, y) /\ \E S \in SUBSET BlocksOf(f) : Releases(f, x, y, S)
    BY <1>3, <1>4, <1>9 DEF Apart
  <2>2. p = x
    BY <1>4, <1>7, <2>1
  <2> QED  BY <1>5, <1>6, <2>1, <2>2
<1> QED  BY <1>8, <1>9

LEMMA OneBlock ==
  ASSUME prog \in Programs, NEW f \in FunctionName,
         NEW j \in DOMAIN Fn(f).blocks, NEW k \in DOMAIN Fn(f).blocks,
         Fn(f).blocks[j] = Fn(f).blocks[k]
  PROVE  j = k
PROOF
<1> DEFINE b == Fn(f).blocks[j]
<1>1. 1 \in DOMAIN Code(f, b)
  BY Places
<1>2. /\ <<j, 1>> \in Layout(f) /\ InstAt(f, <<j, 1>>) = Code(f, b)[1]
      /\ <<k, 1>> \in Layout(f) /\ InstAt(f, <<k, 1>>) = Code(f, b)[1]
  BY <1>1, Places
<1>3. <<j, 1>> = <<k, 1>>
  BY <1>2, OnePlace
<1> QED  BY <1>3

(* Execute, and Invoke for the caller: one instruction further in the block. *)
LEMMA Stepped ==
  ASSUME prog \in Programs, NEW a, ActInv(a),
         NEW c \in [fn: FunctionName, bb: Block, pc: Nat, held: SUBSET Instruction],
         c.fn = a.fn, c.bb = a.bb, c.pc = a.pc + 1,
         NEW i, i = Code(a.fn, a.bb)[a.pc], i.op \notin {"br", "ret"},
         i.op = "lock" => c.held = a.held \cup {i},
         i.op = "unlock" => c.held = a.held \ Released(a.held, i),
         i.op \notin {"lock", "unlock"} => c.held = a.held
  PROVE  ActInv(c)
PROOF
<1> DEFINE f == a.fn
           k == Spot(a)[1]
<1>1. /\ f \in FunctionName /\ Spot(a) \in Layout(f) /\ k \in DOMAIN Fn(f).blocks
      /\ Fn(f).blocks[k] = a.bb /\ Spot(a) = <<k, a.pc>> /\ a.pc \in DOMAIN Code(f, a.bb)
      /\ a.bb \in BlocksOf(f) /\ InstAt(f, Spot(a)) = i
  BY AheadIs
<1>2. a.pc + 1 \in DOMAIN Code(f, a.bb)
  <2>1. WellFormed(Fn(f))
    BY <1>1, ProgramAssumption DEF Fn
  <2>2. i.op \in {"br", "ret"} <=> a.pc = Len(Code(f, a.bb))
    BY <1>1, <2>1 DEF WellFormed, Code, BlocksOf
  <2>3. DOMAIN Code(f, a.bb) = 1..Len(Code(f, a.bb)) /\ Len(Code(f, a.bb)) \in Nat
    BY <1>1, Places
  <2> QED  BY <1>1, <2>2, <2>3
<1>3. Spot(c) = <<k, a.pc + 1>> /\ Spot(c) \in Layout(f) /\ Fn(f).blocks[Spot(c)[1]] = c.bb
  BY <1>1, <1>2, SpotIs
<1>4. ASSUME NEW r \in Layout(f)
      PROVE  Before(r, Spot(c)) <=> Before(r, Spot(a)) \/ r = Spot(a)
  <2>1. r = <<r[1], r[2]>> /\ r[1] \in Nat /\ r[2] \in Nat /\ k \in Nat /\ a.pc \in Nat
    BY <1>1, Places
  <2> QED  BY <1>1, <1>3, <2>1 DEF Before
<1>5. ASSUME Plain(f), NEW l \in c.held
      PROVE  \E p, q \in Layout(f) :
               /\ InstAt(f, p) = l /\ Pairs(f, p, q) /\ ~l.versioned
               /\ InstAt(f, q).lock = l.lock /\ InstAt(f, q).object = l.object
               /\ Before(p, Spot(c)) /\ ~Before(q, Spot(c))
               /\ Straight(f) \/ \E S \in SUBSET BlocksOf(f) : Releases(f, p, q, S) /\ c.bb \in S
  <2>1. CASE l \in a.held
    <3>1. HeldInside(a)
      BY <1>5 DEF ActInv
    <3>2. PICK p \in Layout(f), q \in Layout(f) :
            /\ InstAt(f, p) = l /\ Pairs(f, p, q) /\ ~l.versioned
            /\ InstAt(f, q).lock = l.lock /\ InstAt(f, q).object = l.object
            /\ Before(p, Spot(a)) /\ ~Before(q, Spot(a))
            /\ Straight(f) \/ \E S \in SUBSET BlocksOf(f) : Releases(f, p, q, S) /\ a.bb \in S
      BY <2>1, <3>1 DEF HeldInside
    <3>3. q # Spot(a)
      <4>1. SUFFICES ASSUME q = Spot(a) PROVE FALSE
        OBVIOUS
      <4>2. i.op = "unlock" /\ i.lock = l.lock /\ i.object = l.object
        BY <1>1, <3>2, <4>1 DEF Pairs
      <4>3. l \in Released(a.held, i)
        BY <2>1, <4>2 DEF Released
      <4> QED  BY <1>5, <4>2, <4>3
    <3>4. Before(p, Spot(c)) /\ ~Before(q, Spot(c))
      BY <1>4, <3>2, <3>3
    <3> QED  BY <3>2, <3>4
  <2>2. CASE l \notin a.held
    <3>1. i.op = "lock" /\ l = i
      BY <1>5, <2>2 DEF Released
    <3>2. /\ ~l.versioned
          /\ \E q \in Layout(f) :
               /\ Pairs(f, Spot(a), q) /\ InstAt(f, q).lock = l.lock
               /\ InstAt(f, q).object = l.object
               /\ Straight(f) \/ \E S \in SUBSET BlocksOf(f) : Releases(f, Spot(a), q, S)
      BY <1>1, <1>5, <3>1, Partner
    <3>3. PICK q \in Layout(f) :
            /\ Pairs(f, Spot(a), q) /\ InstAt(f, q).lock = l.lock /\ InstAt(f, q).object = l.object
            /\ Straight(f) \/ \E S \in SUBSET BlocksOf(f) : Releases(f, Spot(a), q, S)
      BY <3>2
    <3>4. Before(Spot(a), Spot(c)) /\ ~Before(q, Spot(c))
      <4>1. Before(Spot(a), q)
        BY <3>3 DEF Pairs
      <4>2. ~Before(q, Spot(a)) /\ q # Spot(a)
        BY <1>1, <4>1, Line
      <4> QED  BY <1>1, <1>4, <4>2
    <3>5. \A S : Releases(f, Spot(a), q, S) => c.bb \in S
      BY <1>1 DEF Releases
    <3> QED  BY <1>1, <3>1, <3>2, <3>3, <3>4, <3>5
  <2> QED  BY <2>1, <2>2
<1>6. ASSUME Plain(f), Straight(f), NEW p \in Layout(f), NEW q \in Layout(f),
             Pairs(f, p, q), InstAt(f, q).lock = InstAt(f, p).lock,
             Before(p, Spot(c)), ~Before(q, Spot(c))
      PROVE  InstAt(f, p) \in c.held
  <2>1. ~Before(q, Spot(a)) /\ q # Spot(a)
    BY <1>4, <1>6
  <2>2. CASE p = Spot(a)
    BY <1>1, <1>6, <2>2 DEF Pairs
  <2>3. CASE Before(p, Spot(a))
    <3>1. InstAt(f, p) \in a.held
      BY <1>6, <2>1, <2>3 DEF ActInv, InsideHeld
    <3>2. i.op = "unlock" => i.lock # InstAt(f, p).lock
      <4>1. SUFFICES ASSUME i.op = "unlock", i.lock = InstAt(f, p).lock PROVE FALSE
        OBVIOUS
      <4>2. Spot(a) \in LockCalls(f, InstAt(f, p).lock)
        BY <1>1, <4>1 DEF LockCalls
      <4>3. Before(Spot(a), q)
        BY <1>1, <2>1, Line
      <4>4. Spot(a) \in Between(p, q, f)
        BY <1>1, <2>3, <4>3 DEF Between
      <4> QED  BY <1>6, <4>2, <4>4 DEF Pairs
    <3> QED  BY <3>1, <3>2 DEF Released
  <2> QED  BY <1>4, <1>6, <2>2, <2>3
<1>7. Plain(f) => HeldInside(c) /\ InsideHeld(c)
  BY <1>5, <1>6 DEF HeldInside, InsideHeld
<1> QED  BY <1>3, <1>7 DEF ActInv

(* The last of a set of positions. *)
LEMMA LastPosition ==
  ASSUME NEW m \in Nat, NEW S, S \subseteq 1..m, S # {}
  PROVE  \E i \in S : \A j \in S : j =< i
PROOF
<1> DEFINE T == {i..m : i \in S}
<1>1. IsFiniteSet(1..m)
  BY FS_Interval
<1>2. IsWellFoundedOn(StrictSubsetOrdering(1..m), SUBSET (1..m))
  BY <1>1, FS_StrictSubsetOrderingWellFounded, FS_FiniteSubsetsOfFinite
<1>3. T \subseteq SUBSET (1..m) /\ T # {}
  <2>1. ASSUME NEW i \in S PROVE i..m \subseteq 1..m
    OBVIOUS
  <2>2. T \subseteq SUBSET (1..m)
    BY <2>1
  <2>3. PICK i \in S : TRUE
    OBVIOUS
  <2>4. i..m \in T
    OBVIOUS
  <2> HIDE DEF T
  <2> QED  BY <2>2, <2>4
<1> HIDE DEF T
<1>4. PICK x \in T : \A y \in T : <<y, x>> \notin StrictSubsetOrdering(1..m)
  BY <1>2, <1>3, WFMin
<1> USE DEF T
<1>5. PICK i \in S : x = i..m
  OBVIOUS
<1>6. ASSUME NEW j \in S, i < j PROVE FALSE
  <2>1. j..m \in T
    OBVIOUS
  <2>2. j..m \subseteq i..m
    BY <1>6
  <2>3. i \in i..m /\ i \notin j..m
    BY <1>6
  <2>4. <<j..m, x>> \in StrictSubsetOrdering(1..m)
    BY <1>3, <1>5, <2>1, <2>2, <2>3 DEF StrictSubsetOrdering
  <2> QED  BY <1>4, <2>1, <2>4
<1> QED  BY <1>6

(* Where control goes forward, no block every way from which releases the lock
   is laid out behind the one that does. *)
LEMMA ReleasedBehind ==
  ASSUME prog \in Programs, NEW f \in FunctionName, Forward(f), NEW p \in Layout(f),
         NEW q \in Layout(f), NEW S \in SUBSET BlocksOf(f), Releases(f, p, q, S),
         NEW k \in DOMAIN Fn(f).blocks, Fn(f).blocks[k] \in S
  PROVE  k =< q[1]
PROOF
<1> DEFINE n == Len(Fn(f).blocks)
           K == {j \in 1..n : Fn(f).blocks[j] \in S}
<1>1. n \in Nat /\ DOMAIN Fn(f).blocks = 1..n /\ q[1] \in 1..n
  BY Places
<1>2. K \subseteq 1..n /\ k \in K
  BY <1>1
<1> HIDE DEF n, K
<1>3. PICK m \in K : \A j \in K : j =< m
  BY <1>1, <1>2, LastPosition
<1>4. m \in DOMAIN Fn(f).blocks /\ Fn(f).blocks[m] \in S
  BY <1>1 DEF K
<1>5. Fn(f).blocks[m] = Fn(f).blocks[q[1]]
  <2>1. SUFFICES ASSUME Fn(f).blocks[m] # Fn(f).blocks[q[1]] PROVE FALSE
    OBVIOUS
  <2> DEFINE b == Fn(f).blocks[m]
  <2>2. Fn(f).succ[b] # << >> /\ Range(Fn(f).succ[b]) \subseteq S
    BY <1>4, <2>1 DEF Releases
  <2>3. PICK c \in Range(Fn(f).succ[b]) : TRUE
    <3>1. Fn(f).succ[b] \in Seq(Block)
      <4>1. WellFormed(Fn(f))
        BY ProgramAssumption DEF Fn
      <4> QED  BY <1>4, <4>1 DEF WellFormed, BlocksOf
    <3>2. 1 \in DOMAIN Fn(f).succ[b]
      BY <2>2, <3>1
    <3> QED  BY <3>2 DEF Range
  <2>4. PICK j \in DOMAIN Fn(f).blocks : j > m /\ Fn(f).blocks[j] = c
    BY <1>4, <2>3 DEF Forward
  <2>5. j \in K
    BY <1>1, <2>2, <2>3, <2>4 DEF K
  <2> QED  BY <1>1, <1>2, <1>3, <2>4, <2>5
<1>6. m = q[1]
  BY <1>1, <1>4, <1>5, OneBlock
<1> QED  BY <1>2, <1>3, <1>6

(* Branch: to a later block, which the lock is held through. *)
LEMMA Branched ==
  ASSUME prog \in Programs, NEW a, ActInv(a),
         NEW c \in [fn: FunctionName, bb: Block, pc: Nat, held: SUBSET Instruction],
         c.fn = a.fn, c.bb \in Range(Fn(a.fn).succ[a.bb]), c.pc = 1, c.held = a.held,
         Code(a.fn, a.bb)[a.pc].op = "br"
  PROVE  ActInv(c)
PROOF
<1> DEFINE f == a.fn
           k == Spot(a)[1]
<1>1. /\ f \in FunctionName /\ Spot(a) \in Layout(f) /\ k \in DOMAIN Fn(f).blocks
      /\ Fn(f).blocks[k] = a.bb /\ Spot(a) = <<k, a.pc>> /\ a.pc \in DOMAIN Code(f, a.bb)
      /\ a.bb \in BlocksOf(f) /\ InstAt(f, Spot(a)).op = "br"
  BY AheadIs
<1>2. WellFormed(Fn(f))
  BY <1>1, ProgramAssumption DEF Fn
<1>3. a.pc = Len(Code(f, a.bb))
  BY <1>1, <1>2 DEF WellFormed, Code, BlocksOf
<1>4. c.bb \in BlocksOf(f)
  BY <1>1, <1>2 DEF WellFormed, BlocksOf
<1>5. PICK m \in DOMAIN Fn(f).blocks : Fn(f).blocks[m] = c.bb
  BY <1>4 DEF BlocksOf, Range
<1>6. 1 \in DOMAIN Code(f, c.bb)
  BY <1>1, <1>5, Places
<1>7. Spot(c) = <<m, 1>> /\ Spot(c) \in Layout(f) /\ Fn(f).blocks[Spot(c)[1]] = c.bb
  BY <1>1, <1>5, <1>6, SpotIs
<1>8. ASSUME Plain(f) PROVE HeldInside(c) /\ InsideHeld(c)
  <2>1. Forward(f)
    BY <1>8 DEF Plain
  <2>2. m > k
    <3>1. PICK j \in DOMAIN Fn(f).blocks : j > k /\ Fn(f).blocks[j] = c.bb
      BY <1>1, <2>1 DEF Forward
    <3> QED  BY <1>1, <1>5, <3>1, OneBlock
  <2>3. k \in 1..Len(Fn(f).blocks) /\ m \in 1..Len(Fn(f).blocks) /\ Len(Fn(f).blocks) \in Nat
    BY <1>1, Places
  <2>4. ~Straight(f)
    BY <2>2, <2>3 DEF Straight
  <2>5. ASSUME NEW l \in c.held
        PROVE  \E p, q \in Layout(f) :
                 /\ InstAt(f, p) = l /\ Pairs(f, p, q) /\ ~l.versioned
                 /\ InstAt(f, q).lock = l.lock /\ InstAt(f, q).object = l.object
                 /\ Before(p, Spot(c)) /\ ~Before(q, Spot(c))
                 /\ \E S \in SUBSET BlocksOf(f) : Releases(f, p, q, S) /\ c.bb \in S
    <3>1. HeldInside(a)
      BY <1>8 DEF ActInv
    <3>2. PICK p \in Layout(f), q \in Layout(f) :
            /\ InstAt(f, p) = l /\ Pairs(f, p, q) /\ ~l.versioned
            /\ InstAt(f, q).lock = l.lock /\ InstAt(f, q).object = l.object
            /\ Before(p, Spot(a)) /\ ~Before(q, Spot(a))
            /\ \E S \in SUBSET BlocksOf(f) : Releases(f, p, q, S) /\ a.bb \in S
      BY <2>4, <3>1 DEF HeldInside
    <3>3. PICK S \in SUBSET BlocksOf(f) : Releases(f, p, q, S) /\ a.bb \in S
      BY <3>2
    <3>4. /\ p[1] \in Nat /\ p[2] \in Nat /\ q[1] \in Nat /\ q[2] \in Nat
          /\ q[1] \in DOMAIN Fn(f).blocks /\ q[2] \in DOMAIN Code(f, Fn(f).blocks[q[1]])
          /\ q[2] \in 1..Len(Code(f, Fn(f).blocks[q[1]])) /\ q = <<q[1], q[2]>>
      BY <1>1, Places
    <3>5. q # Spot(a)
      BY <1>1, <3>2 DEF Pairs
    <3>6. q[1] # k
      <4>1. SUFFICES ASSUME q[1] = k PROVE FALSE
        OBVIOUS
      <4>2. q[2] =< a.pc /\ q[2] # a.pc
        BY <1>1, <1>3, <3>4, <3>5, <4>1
      <4>3. Before(q, Spot(a))
        BY <1>1, <1>3, <3>4, <4>1, <4>2 DEF Before
      <4> QED  BY <3>2, <4>3
    <3>7. a.bb # Fn(f).blocks[q[1]]
      BY <1>1, <3>4, <3>6, OneBlock
    <3>8. c.bb \in S
      BY <3>3, <3>7 DEF Releases
    <3>9. m =< q[1]
      BY <1>1, <1>5, <2>1, <3>3, <3>8, ReleasedBehind
    <3>10. Before(p, Spot(c)) /\ ~Before(q, Spot(c))
      BY <1>1, <1>7, <2>2, <2>3, <3>2, <3>4, <3>9 DEF Before
    <3> QED  BY <3>2, <3>3, <3>8, <3>10
  <2>6. HeldInside(c)
    BY <2>5 DEF HeldInside
  <2> QED  BY <2>4, <2>6 DEF InsideHeld
<1> QED  BY <1>7, <1>8 DEF ActInv

-----------------------------------------------------------------------------
(* The nodes a section accesses are marked once its lock was looked into, and
   the tree of the lock is that of one of them. *)
NodesIn(l, u) ==
  UNION {i.nodes : i \in {j \in computeInstsInCS(l, u) : j.op \in {"load", "store"} /\ j.alias}}
TreeFound(l, u) ==
  /\ NodesIn(l, u) \subseteq _accessed
  /\ \/ NodesIn(l, u) = {}
     \/ /\ l \in DOMAIN _sync_data_inst_tree_map
        /\ \E n \in NodesIn(l, u) : _sync_data_inst_tree_map[l] = n.tree
(* The sections found are those of the functions looked at. *)
SectionsInv ==
  /\ \A f \in BoundaryClosure \ _funcs : DOMAIN computeCSInFunc(f) \subseteq DOMAIN _critical_sections
  /\ \A l \in DOMAIN _critical_sections : \E f \in BoundaryClosure :
       l \in DOMAIN computeCSInFunc(f) /\ _critical_sections[l] = computeCSInFunc(f)[l]
  /\ unwarned \subseteq DOMAIN _critical_sections
  /\ phase = "running" => unwarned = {}
  /\ \A l \in DOMAIN _critical_sections \ unwarned :
       \A u : u = _critical_sections[l] => TreeFound(l, u)
Activations ==
  {a \in [fn: FunctionName, bb: Block, pc: Nat, held: SUBSET Instruction] : ActInv(a)}
RunInv == run \in Seq(Activations)
SInv == IInv /\ SectionsInv /\ RunInv

LEMMA LayoutFixed ==
  ASSUME prog' = prog
  PROVE  /\ \A f : computeCSInFunc(f)' = computeCSInFunc(f)
         /\ \A l, u : NodesIn(l, u)' = NodesIn(l, u)
         /\ \A a : ActInv(a)' = ActInv(a)
PROOF
<1>1. \A f : Fn(f)' = Fn(f)
  BY DEF Fn
<1>2. \A f, b : Code(f, b)' = Code(f, b)
  BY <1>1 DEF Code
<1>3. \A f : Layout(f)' = Layout(f)
  BY <1>1, <1>2 DEF Layout
<1>4. \A f, p : InstAt(f, p)' = InstAt(f, p)
  BY <1>1, <1>2 DEF InstAt
<1>5. \A f, i : Place(f, i)' = Place(f, i)
  BY <1>3, <1>4 DEF Place
<1>6. \A f, l : Unlocks(f, l)' = Unlocks(f, l)
  BY <1>3, <1>4, <1>5 DEF Unlocks
<1>7. \A f, l : UnlockOf(f, l)' = UnlockOf(f, l)
  BY <1>4, <1>6 DEF UnlockOf, FirstOf
<1>8. \A f : InstsOf(f)' = InstsOf(f)
  BY ProgramFixed
<1>9. \A f : computeCSInFunc(f)' = computeCSInFunc(f)
  BY <1>7, <1>8 DEF computeCSInFunc
<1>10. \A p, q, f : Between(p, q, f)' = Between(p, q, f)
  BY <1>3 DEF Between
<1>11. \A i : Home(i)' = Home(i)
  BY <1>8 DEF Home
<1>12. \A l, u : computeInstsInCS(l, u)' = computeInstsInCS(l, u)
  BY <1>4, <1>5, <1>10, <1>11 DEF computeInstsInCS
<1>13. \A f, kind : LockCalls(f, kind)' = LockCalls(f, kind)
  BY <1>3, <1>4 DEF LockCalls
<1>14. \A f, p, q : Pairs(f, p, q)' = Pairs(f, p, q)
  BY <1>4, <1>10, <1>13 DEF Pairs
<1>15. \A f, p, q, S : Releases(f, p, q, S)' = Releases(f, p, q, S)
  BY <1>1 DEF Releases
<1>16. \A f : BlocksOf(f)' = BlocksOf(f) /\ Straight(f)' = Straight(f) /\ Forward(f)' = Forward(f)
  BY <1>1 DEF BlocksOf, Straight, Forward
<1>17. \A f, kind : Apart(f, kind)' = Apart(f, kind)
  BY <1>4, <1>13, <1>14, <1>15, <1>16 DEF Apart
<1>18. \A f : Plain(f)' = Plain(f)
  BY <1>16, <1>17 DEF Plain
<1>19. \A a : Spot(a)' = Spot(a)
  BY <1>1 DEF Spot
<1>20. \A a : HeldInside(a)' = HeldInside(a)
  BY <1>3, <1>4, <1>14, <1>15, <1>16, <1>19 DEF HeldInside
<1>21. \A a : InsideHeld(a)' = InsideHeld(a)
  BY <1>3, <1>4, <1>14, <1>16, <1>19 DEF InsideHeld
<1>22. \A a : ActInv(a)' = ActInv(a)
  BY <1>1, <1>3, <1>18, <1>19, <1>20, <1>21 DEF ActInv
<1>23. \A l, u : NodesIn(l, u)' = NodesIn(l, u)
  BY <1>12 DEF NodesIn
<1> QED  BY <1>9, <1>22, <1>23

LEMMA SectionsBegin == Init => SectionsInv
  BY DEF Init, SectionsInv

LEMMA SectionsKept == IInv /\ SectionsInv /\ [Next \/ Resting]_vars => SectionsInv'
PROOF
<1> SUFFICES ASSUME IInv, SectionsInv, [Next \/ Resting]_vars PROVE SectionsInv'
  OBVIOUS
<1>1. ASSUME NEW f \in FunctionName, computeCriticalSections(f) PROVE SectionsInv'
  <2> DEFINE cs == _critical_sections
             new == computeCSInFunc(f)
  <2>1. /\ prog' = prog /\ f \in _funcs /\ phase = "sections" /\ _funcs' = _funcs \ {f}
        /\ cs' = [l \in DOMAIN cs \cup DOMAIN new |-> IF l \in DOMAIN cs THEN cs[l] ELSE new[l]]
        /\ unwarned' = unwarned \cup DOMAIN new
        /\ phase' = IF _funcs' = {} THEN "warnings" ELSE phase
        /\ _sync_data_inst_tree_map' = _sync_data_inst_tree_map /\ _accessed' = _accessed
    BY <1>1 DEF computeCriticalSections
  <2>2. f \in BoundaryClosure /\ BoundaryClosure' = BoundaryClosure
    BY <2>1, ProgramFixed DEF IInv
  <2>3. /\ \A g : computeCSInFunc(g)' = computeCSInFunc(g)
        /\ \A l, u : NodesIn(l, u)' = NodesIn(l, u)
    BY <2>1, LayoutFixed
  <2>4. DOMAIN cs' = DOMAIN cs \cup DOMAIN new
    BY <2>1
  <2>5. \A g \in BoundaryClosure' \ _funcs' : DOMAIN computeCSInFunc(g)' \subseteq DOMAIN cs'
    <3>1. ASSUME NEW g \in BoundaryClosure \ (_funcs \ {f})
          PROVE  DOMAIN computeCSInFunc(g) \subseteq DOMAIN cs \cup DOMAIN new
      BY DEF SectionsInv
    <3> QED  BY <2>1, <2>2, <2>3, <2>4, <3>1
  <2>6. ASSUME NEW l \in DOMAIN cs'
        PROVE  \E g \in BoundaryClosure : l \in DOMAIN computeCSInFunc(g) /\ cs'[l] = computeCSInFunc(g)[l]
    <3>1. CASE l \in DOMAIN cs
      <4>1. cs'[l] = cs[l]
        BY <2>1, <3>1
      <4> QED  BY <3>1, <4>1 DEF SectionsInv
    <3>2. CASE l \notin DOMAIN cs
      <4>1. l \in DOMAIN new /\ cs'[l] = new[l]
        BY <2>1, <2>4, <3>2
      <4> QED  BY <2>2, <4>1
    <3> QED  BY <3>1, <3>2
  <2>7. unwarned' \subseteq DOMAIN cs'
    BY <2>1, <2>4 DEF SectionsInv
  <2>8. phase' # "running"
    BY <2>1
  <2>9. ASSUME NEW l \in DOMAIN cs' \ unwarned', NEW u, u = cs'[l] PROVE TreeFound(l, u)'
    <3>1. l \in DOMAIN cs \ unwarned /\ cs'[l] = cs[l]
      BY <2>1, <2>4
    <3>2. TreeFound(l, u)
      BY <2>9, <3>1 DEF SectionsInv
    <3> QED  BY <2>1, <2>3, <3>2 DEF TreeFound
  <2> HIDE DEF new
  <2>10. \A l \in DOMAIN cs' : \E g \in BoundaryClosure' :
           l \in DOMAIN computeCSInFunc(g)' /\ cs'[l] = computeCSInFunc(g)'[l]
    BY <2>2, <2>3, <2>6
  <2> QED  BY <2>5, <2>7, <2>8, <2>9, <2>10 DEF SectionsInv
<1>2. ASSUME NEW l \in unwarned, computeWarningCS(l) PROVE SectionsInv'
  <2>1. /\ prog' = prog /\ _funcs' = _funcs /\ phase = "warnings" /\ phase' = phase
        /\ _critical_sections' = _critical_sections /\ unwarned' = unwarned \ {l}
        /\ _accessed' = _accessed \cup NodesIn(l, _critical_sections[l])
        /\ \/ /\ NodesIn(l, _critical_sections[l]) = {}
              /\ _sync_data_inst_tree_map' = _sync_data_inst_tree_map
           \/ \E n \in NodesIn(l, _critical_sections[l]) :
                _sync_data_inst_tree_map' = Put(_sync_data_inst_tree_map, l, n.tree)
    BY <1>2 DEF computeWarningCS, SectionAccesses, NodesIn
  <2>2. /\ BoundaryClosure' = BoundaryClosure /\ \A g : computeCSInFunc(g)' = computeCSInFunc(g)
        /\ \A x, u : NodesIn(x, u)' = NodesIn(x, u)
    BY <2>1, LayoutFixed, ProgramFixed
  <2>3. ASSUME NEW x \in DOMAIN _critical_sections \ (unwarned \ {l}), NEW u,
               u = _critical_sections[x]
        PROVE  TreeFound(x, u)'
    <3>1. CASE x = l
      <4>1. NodesIn(l, u)' \subseteq _accessed'
        BY <2>1, <2>2, <2>3, <3>1
      <4>2. CASE NodesIn(l, u) = {}
        BY <2>2, <3>1, <4>1, <4>2 DEF TreeFound
      <4>3. CASE NodesIn(l, u) # {}
        <5>1. PICK n \in NodesIn(l, u) :
                _sync_data_inst_tree_map' = Put(_sync_data_inst_tree_map, l, n.tree)
          BY <2>1, <2>3, <3>1, <4>3
        <5>2. l \in DOMAIN _sync_data_inst_tree_map' /\ _sync_data_inst_tree_map'[l] = n.tree
          BY <5>1 DEF Put
        <5>3. n \in NodesIn(l, u)'
          BY <2>2, <5>1
        <5> QED  BY <3>1, <4>1, <5>2, <5>3 DEF TreeFound
      <4> QED  BY <4>2, <4>3
    <3>2. CASE x # l
      <4>1. TreeFound(x, u)
        BY <2>3, <3>2 DEF SectionsInv
      <4>3. NodesIn(x, u)' \subseteq _accessed'
        BY <2>1, <2>2, <4>1 DEF TreeFound
      <4>2. x \in DOMAIN _sync_data_inst_tree_map =>
              /\ x \in DOMAIN _sync_data_inst_tree_map'
              /\ _sync_data_inst_tree_map'[x] = _sync_data_inst_tree_map[x]
        BY <2>1, <3>2 DEF Put
      <4>4. CASE NodesIn(x, u) = {}
        BY <2>2, <4>3, <4>4 DEF TreeFound
      <4>5. CASE NodesIn(x, u) # {}
        <5>1. PICK n \in NodesIn(x, u) : /\ x \in DOMAIN _sync_data_inst_tree_map
                                         /\ _sync_data_inst_tree_map[x] = n.tree
          BY <4>1, <4>5 DEF TreeFound
        <5>2. n \in NodesIn(x, u)' /\ x \in DOMAIN _sync_data_inst_tree_map'
              /\ _sync_data_inst_tree_map'[x] = n.tree
          BY <2>2, <4>2, <5>1
        <5> QED  BY <4>3, <5>2 DEF TreeFound
      <4> QED  BY <4>4, <4>5
    <3> QED  BY <3>1, <3>2
  <2> QED  BY <2>1, <2>2, <2>3 DEF SectionsInv
<1>3. ASSUME /\ prog' = prog /\ _funcs' = _funcs /\ _critical_sections' = _critical_sections
             /\ unwarned' = unwarned /\ _sync_data_inst_tree_map' = _sync_data_inst_tree_map
             /\ _accessed' = _accessed
             /\ phase' = "running" => phase = "running" \/ unwarned = {}
      PROVE  SectionsInv'
  <2>1. /\ BoundaryClosure' = BoundaryClosure /\ \A g : computeCSInFunc(g)' = computeCSInFunc(g)
        /\ \A x, u : NodesIn(x, u)' = NodesIn(x, u)
    BY <1>3, LayoutFixed, ProgramFixed
  <2> QED  BY <1>3, <2>1 DEF SectionsInv, TreeFound
<1>4. ASSUME NEW a \in _atomic_operations, computeWarningAtomicOps(a) PROVE SectionsInv'
  BY <1>3, <1>4 DEF computeWarningAtomicOps
<1>5. ASSUME NEW f \in FunctionName, Start(f) PROVE SectionsInv'
  BY <1>3, <1>5 DEF Start
<1>6. CASE Execution
  BY <1>3, <1>6 DEF Execution, Execute, Branch, Invoke, Return, Analysed
<1>7. CASE UNCHANGED vars
  BY <1>3, <1>7 DEF vars
<1> QED
  BY <1>1, <1>2, <1>4, <1>5, <1>6, <1>7 DEF Next, Resting, Analyse, Warn

LEMMA RunBegins == Init => RunInv
  BY DEF Init, RunInv

(* The innermost activation. *)
LEMMA NowIs ==
  ASSUME RunInv, Running
  PROVE  /\ Len(run) \in DOMAIN run /\ Now \in Activations /\ ActInv(Now)
         /\ Now \in [fn: FunctionName, bb: Block, pc: Nat, held: SUBSET Instruction]
PROOF
<1>1. Len(run) \in DOMAIN run
  BY DEF RunInv, Running
<1> QED  BY <1>1 DEF RunInv, Now, Activations

LEMMA OneFurther ==
  ASSUME NEW a \in [fn: FunctionName, bb: Block, pc: Nat, held: SUBSET Instruction],
         NEW h \in SUBSET Instruction
  PROVE  /\ [a EXCEPT !.pc = @ + 1, !.held = h]
              \in [fn: FunctionName, bb: Block, pc: Nat, held: SUBSET Instruction]
         /\ [a EXCEPT !.pc = @ + 1, !.held = h].fn = a.fn
         /\ [a EXCEPT !.pc = @ + 1, !.held = h].bb = a.bb
         /\ [a EXCEPT !.pc = @ + 1, !.held = h].pc = a.pc + 1
         /\ [a EXCEPT !.pc = @ + 1, !.held = h].held = h
PROOF
<1>1. [a EXCEPT !.pc = @ + 1] \in [fn: FunctionName, bb: Block, pc: Nat, held: SUBSET Instruction]
  OBVIOUS
<1>2. \A b \in [fn: FunctionName, bb: Block, pc: Nat, held: SUBSET Instruction] :
        [b EXCEPT !.held = h] \in [fn: FunctionName, bb: Block, pc: Nat, held: SUBSET Instruction]
  OBVIOUS
<1>3. [a EXCEPT !.pc = @ + 1, !.held = h] = [[a EXCEPT !.pc = @ + 1] EXCEPT !.held = h]
  OBVIOUS
<1>4. [a EXCEPT !.pc = @ + 1, !.held = h] \in [fn: FunctionName, bb: Block, pc: Nat, held: SUBSET Instruction]
  BY <1>1, <1>2, <1>3
<1>5. [a EXCEPT !.pc = @ + 1, !.held = h].held = h
  OBVIOUS
<1>6. [a EXCEPT !.pc = @ + 1, !.held = h].pc = a.pc + 1
  OBVIOUS
<1>7. /\ [a EXCEPT !.pc = @ + 1, !.held = h].fn = a.fn
      /\ [a EXCEPT !.pc = @ + 1, !.held = h].bb = a.bb
  OBVIOUS
<1> QED  BY <1>4, <1>5, <1>6, <1>7

LEMMA RunKept == IInv /\ RunInv /\ [Next \/ Resting]_vars => RunInv'
PROOF
<1> SUFFICES ASSUME IInv, RunInv, [Next \/ Resting]_vars PROVE RunInv'
  OBVIOUS
<1>1. prog \in Programs
  BY DEF IInv
<1>2. ASSUME prog' = prog, run' \in Seq(Activations) PROVE RunInv'
  <2>1. Activations' = Activations
    BY <1>2, LayoutFixed DEF Activations
  <2> QED  BY <1>2, <2>1 DEF RunInv
<1>3. ASSUME prog' = prog, run' = run PROVE RunInv'
  BY <1>2, <1>3 DEF RunInv
<1>4. ASSUME NEW f \in FunctionName, computeCriticalSections(f) PROVE RunInv'
  BY <1>3, <1>4 DEF computeCriticalSections
<1>5. ASSUME NEW l \in unwarned, computeWarningCS(l) PROVE RunInv'
  BY <1>3, <1>5 DEF computeWarningCS
<1>6. ASSUME NEW a \in _atomic_operations, computeWarningAtomicOps(a) PROVE RunInv'
  BY <1>3, <1>6 DEF computeWarningAtomicOps
<1>7. ASSUME NEW f \in FunctionName, Start(f) PROVE RunInv'
  <2>1. ActInv(Activation(f))
    BY <1>1, Started
  <2>2. Activation(f) \in Activations
    BY <2>1 DEF Activations, ActInv
  <2> QED  BY <1>2, <1>7, <2>2 DEF Start
<1>8. CASE Execution
  <2>1. Running /\ prog' = prog
    BY <1>8 DEF Execution, Execute, Branch, Invoke, Return, Analysed
  <2>2. /\ Len(run) \in DOMAIN run /\ Now \in Activations /\ ActInv(Now)
        /\ Now \in [fn: FunctionName, bb: Block, pc: Nat, held: SUBSET Instruction]
        /\ run \in Seq(Activations)
    BY <2>1, NowIs DEF RunInv
  <2>3. Ahead \in Instruction /\ Ahead = Code(Now.fn, Now.bb)[Now.pc]
        /\ Spot(Now)[1] \in DOMAIN Fn(Now.fn).blocks /\ Fn(Now.fn).blocks[Spot(Now)[1]] = Now.bb
        /\ Now.bb \in BlocksOf(Now.fn) /\ Now.pc \in DOMAIN Code(Now.fn, Now.bb)
    BY <1>1, <2>2, AheadIs DEF Ahead
  <2>4. \A a \in Activations : WithNow(a) \in Seq(Activations)
    BY <2>2 DEF WithNow
  <2>5. CASE Execute
    <3> DEFINE h == CASE Ahead.op = "lock"   -> Now.held \cup {Ahead}
                      [] Ahead.op = "unlock" -> Now.held \ Released(Now.held, Ahead)
                      [] OTHER -> Now.held
               c == [Now EXCEPT !.pc = @ + 1, !.held = h]
    <3>1. run' = WithNow(c) /\ Ahead.op \in {"lock", "unlock", "load", "store", "atomic"}
      BY <2>5 DEF Execute
    <3>2. /\ Ahead.op = "lock" => h = Now.held \cup {Ahead}
          /\ Ahead.op = "unlock" => h = Now.held \ Released(Now.held, Ahead)
          /\ Ahead.op \notin {"lock", "unlock"} => h = Now.held
          /\ h \in SUBSET Instruction
      BY <2>2, <2>3, <3>1 DEF Released
    <3> HIDE DEF h
    <3>3. /\ c \in [fn: FunctionName, bb: Block, pc: Nat, held: SUBSET Instruction]
          /\ c.fn = Now.fn /\ c.bb = Now.bb /\ c.pc = Now.pc + 1 /\ c.held = h
      BY <2>2, <3>2, OneFurther
    <3> HIDE DEF c
    <3>4. ActInv(c)
      BY <1>1, <2>2, <2>3, <3>1, <3>2, <3>3, Stepped
    <3> QED  BY <1>2, <2>1, <2>4, <3>1, <3>3, <3>4 DEF Activations
  <2>6. ASSUME NEW b \in Block, Branch(b) PROVE RunInv'
    <3> DEFINE c == [Now EXCEPT !.bb = b, !.pc = 1]
    <3>1. run' = WithNow(c) /\ Ahead.op = "br" /\ b \in Range(Fn(Now.fn).succ[Now.bb])
      BY <2>6 DEF Branch
    <3>2. /\ c \in [fn: FunctionName, bb: Block, pc: Nat, held: SUBSET Instruction]
          /\ c.fn = Now.fn /\ c.bb = b /\ c.pc = 1 /\ c.held = Now.held
      BY <2>2
    <3> HIDE DEF c
    <3>3. ActInv(c)
      BY <1>1, <2>2, <2>3, <3>1, <3>2, Branched
    <3> QED  BY <1>2, <2>1, <2>4, <3>1, <3>2, <3>3 DEF Activations
  <2>7. CASE Invoke
    <3> DEFINE c == [Now EXCEPT !.pc = @ + 1]
    <3>1. run' = Append(WithNow(c), Activation(Ahead.callee)) /\ Ahead.op = "call"
      BY <2>7 DEF Invoke
    <3>2. /\ c \in [fn: FunctionName, bb: Block, pc: Nat, held: SUBSET Instruction]
          /\ c.fn = Now.fn /\ c.bb = Now.bb /\ c.pc = Now.pc + 1 /\ c.held = Now.held
      BY <2>2
    <3> HIDE DEF c
    <3>3. ActInv(c)
      BY <1>1, <2>2, <2>3, <3>1, <3>2, Stepped
    <3>4. WithNow(c) \in Seq(Activations)
      BY <2>4, <3>2, <3>3 DEF Activations
    <3>5. Ahead.callee \in FunctionName
      <4>1. WellFormed(Fn(Now.fn))
        BY <1>1, <2>2, ProgramAssumption DEF Fn
      <4> QED  BY <2>3, <3>1, <4>1 DEF WellFormed, Code, BlocksOf
    <3>6. ActInv(Activation(Ahead.callee))
      BY <1>1, <3>5, Started
    <3>7. Activation(Ahead.callee) \in Activations
      BY <3>6 DEF Activations, ActInv
    <3> QED  BY <1>2, <2>1, <3>1, <3>4, <3>7
  <2>8. CASE Return
    BY <1>2, <2>1, <2>2, <2>8 DEF Return
  <2> QED  BY <1>8, <2>5, <2>6, <2>7, <2>8 DEF Execution
<1>9. CASE UNCHANGED vars
  BY <1>3, <1>9 DEF vars
<1> QED
  BY <1>4, <1>5, <1>6, <1>7, <1>8, <1>9 DEF Next, Resting, Analyse, Warn

LEMMA SInvHolds == Spec => []SInv
PROOF
<1>1. Init => SInv
  BY InitKept, SectionsBegin, RunBegins DEF SInv
<1>2. SInv /\ [Next \/ Resting]_vars => SInv'
  BY NextKept, SectionsKept, RunKept DEF SInv
<1> QED  BY <1>1, <1>2, PTL DEF Spec

-----------------------------------------------------------------------------
(* What is executed with a lock held stands between the lock and its unlock. *)
LEMMA HeldSection ==
  ASSUME SInv, Running, Reported(Now.fn), NEW l \in Now.held,
         Ahead.op # "unlock" \/ Ahead.lock # l.lock
  PROVE  /\ l \in DOMAIN _critical_sections /\ Home(l) = Now.fn
         /\ Ahead \in computeInstsInCS(l, _critical_sections[l])
         /\ Ahead \in InstsOf(Now.fn)
PROOF
<1> DEFINE f == Now.fn
<1>1. prog \in Programs /\ ActInv(Now)
  BY NowIs DEF SInv, IInv
<1>2. f \in FunctionName /\ Spot(Now) \in Layout(f) /\ InstAt(f, Spot(Now)) = Ahead
  BY <1>1, AheadIs DEF Ahead
<1>3. HeldInside(Now)
  BY <1>1 DEF ActInv, Reported
<1>4. PICK p \in Layout(f), q \in Layout(f) :
        /\ InstAt(f, p) = l /\ Pairs(f, p, q) /\ ~l.versioned /\ InstAt(f, q).lock = l.lock
        /\ Before(p, Spot(Now)) /\ ~Before(q, Spot(Now))
  BY <1>3 DEF HeldInside
<1>5. l \in DOMAIN computeCSInFunc(f) /\ computeCSInFunc(f)[l] = InstAt(f, q)
  BY <1>1, <1>2, <1>4, PairFound
<1>6. f \in BoundaryClosure \ _funcs
  BY DEF Reported, SInv, IInv, Running
<1>7. l \in DOMAIN _critical_sections
  BY <1>5, <1>6 DEF SInv, SectionsInv
<1>8. PICK g \in BoundaryClosure :
        l \in DOMAIN computeCSInFunc(g) /\ _critical_sections[l] = computeCSInFunc(g)[l]
  BY <1>7 DEF SInv, SectionsInv
<1>9. Home(l) = f /\ g = f
  BY <1>1, <1>2, <1>5, <1>8, SectionsOf, ClosureInFunctions
<1>10. q # Spot(Now)
  BY <1>2, <1>4 DEF Pairs
<1>11. Spot(Now) \in Between(p, q, f)
  BY <1>1, <1>2, <1>4, <1>10, Line DEF Between
<1>12. Ahead \in computeInstsInCS(l, InstAt(f, q))
  BY <1>1, <1>2, <1>4, <1>11, SectionIsBetween
<1>13. Ahead \in InstsOf(f)
  BY <1>1, <1>2, Places
<1> QED  BY <1>5, <1>7, <1>8, <1>9, <1>12, <1>13

(* Whatever the program and however it runs: what executes with a lock held, in
   a function called from the boundary whose layout tells its sections, is in
   the section computeCSInFunc and computeInstsInCS report for the lock. *)
THEOREM HeldIsReported == Spec => []HeldIsInSection
PROOF
<1>1. SInv => HeldIsInSection
  BY HeldSection DEF HeldIsInSection
<1> QED  BY <1>1, SInvHolds, PTL

(* And where such a function has no branches, the section holds nothing that
   executes without the lock: no unlock is passed over, none is found too late. *)
THEOREM ReportedIsHeld == Spec => []SectionIsHeld
PROOF
<1>1. SInv => SectionIsHeld
  <2> DEFINE f == Now.fn
  <2> SUFFICES ASSUME SInv, Running, Reported(f), Straight(f),
                      NEW l \in DOMAIN _critical_sections, Home(l) = f,
                      Ahead \in computeInstsInCS(l, _critical_sections[l])
               PROVE  l \in Now.held
    BY DEF SectionIsHeld
  <2>1. prog \in Programs /\ ActInv(Now)
    BY NowIs DEF SInv, IInv
  <2>2. f \in FunctionName /\ Spot(Now) \in Layout(f) /\ InstAt(f, Spot(Now)) = Ahead
    BY <2>1, AheadIs DEF Ahead
  <2>3. PICK g \in BoundaryClosure :
          l \in DOMAIN computeCSInFunc(g) /\ _critical_sections[l] = computeCSInFunc(g)[l]
    BY DEF SInv, SectionsInv
  <2>4. g = f
    BY <2>1, <2>3, SectionsOf, ClosureInFunctions
  <2>5. PICK p \in Layout(f) : l = InstAt(f, p) /\ l.op = "lock"
    BY <2>1, <2>2, <2>3, <2>4, SectionsOf
  <2>6. Plain(f)
    BY DEF Reported
  <2>7. /\ ~l.versioned
        /\ \E q \in Layout(f) : Pairs(f, p, q) /\ InstAt(f, q).lock = l.lock
    BY <2>1, <2>2, <2>5, <2>6, Partner
  <2>8. PICK q \in Layout(f) : Pairs(f, p, q) /\ InstAt(f, q).lock = l.lock
    BY <2>7
  <2>9. _critical_sections[l] = InstAt(f, q)
    BY <2>1, <2>2, <2>3, <2>4, <2>5, <2>7, <2>8, PairFound
  <2>10. Spot(Now) \in Between(p, q, f)
    BY <2>1, <2>2, <2>5, <2>9, SectionIsBetween
  <2>11. Before(p, Spot(Now)) /\ ~Before(q, Spot(Now))
    BY <2>1, <2>2, <2>10, Line DEF Between
  <2>12. InsideHeld(Now)
    BY <2>1, <2>6 DEF ActInv
  <2> QED  BY <2>5, <2>8, <2>11, <2>12 DEF InsideHeld
<1> QED  BY <1>1, SInvHolds, PTL

LEMMA OneOfOne ==
  ASSUME NEW S, IsFiniteSet(S), Cardinality(S) =< 1, NEW x \in S, NEW y \in S
  PROVE  x = y
PROOF
<1>1. Cardinality(S) \in Nat
  BY FS_CardinalityType
<1>2. Cardinality(S) # 0
  BY FS_EmptySet
<1>3. Cardinality(S) = 1
  BY <1>1, <1>2
<1> QED  BY <1>3, FS_Singleton

LEMMA SectionNodes ==
  ASSUME prog \in Programs, NEW l, NEW u, Home(l) \in FunctionName
  PROVE  NodesIn(l, u) \subseteq TreeNode
PROOF
<1>1. \A i \in computeInstsInCS(l, u) : i \in Instruction
  BY Places DEF computeInstsInCS, Between
<1>2. \A i \in computeInstsInCS(l, u) : i.nodes \subseteq TreeNode
  BY <1>1 DEF Instruction
<1> QED  BY <1>2 DEF NodesIn

(* A field accessed with a lock held is marked as accessed in an atomic region,
   and the stubs are written for a tree that the section accesses, in whatever
   order of addresses its instructions and trees were met; for the tree of the
   field when the section touches no other: computeWarningCS. *)
THEOREM AccessIsKnown == Spec => []HeldAccessKnown
PROOF
<1>1. SInv => HeldAccessKnown
  <2> DEFINE f == Now.fn
  <2> SUFFICES ASSUME SInv, Running, Reported(f), Ahead.op \in {"load", "store"}, Ahead.alias,
                      NEW l \in Now.held, NEW n \in Ahead.nodes
               PROVE  /\ n \in _accessed /\ StubTree(l)
                      /\ OneTree(l) => _sync_data_inst_tree_map[l] = n.tree
    BY DEF HeldAccessKnown
  <2> DEFINE u == _critical_sections[l]
             trees == {m.tree : m \in NodesIn(l, u)}
  <2>1. /\ l \in DOMAIN _critical_sections /\ Home(l) = f
        /\ Ahead \in computeInstsInCS(l, u)
    BY HeldSection
  <2>2. n \in NodesIn(l, u)
    BY <2>1 DEF NodesIn
  <2>3. unwarned = {}
    BY DEF SInv, SectionsInv, Running
  <2>4. TreeFound(l, u)
    BY <2>1, <2>3 DEF SInv, SectionsInv
  <2>5. PICK m \in NodesIn(l, u) : l \in DOMAIN _sync_data_inst_tree_map
                                   /\ _sync_data_inst_tree_map[l] = m.tree
    BY <2>2, <2>4 DEF TreeFound
  <2>6. n \in _accessed
    BY <2>2, <2>4 DEF TreeFound
  <2>7. StubTree(l)
    BY <2>5 DEF StubTree, SectionAccesses, NodesIn
  <2>8. ASSUME OneTree(l) PROVE n.tree = m.tree
    <3>1. IsFiniteSet(trees)
      <4>1. NodesIn(l, u) \subseteq TreeNode
        BY <2>1, SectionNodes, ClosureInFunctions DEF SInv, IInv, Reported
      <4>2. IsFiniteSet(NodesIn(l, u))
        BY <4>1, FunctionAssumption, FS_Subset
      <4> HIDE DEF u
      <4> DEFINE treeOf == [x \in NodesIn(l, u) |-> x.tree]
      <4>3. treeOf \in Surjection(NodesIn(l, u), trees)
        BY DEF Surjection
      <4> QED  BY <4>2, <4>3, FS_Surjection
    <3>2. Cardinality(trees) =< 1
      BY <2>8 DEF OneTree, SectionAccesses, NodesIn
    <3>3. n.tree \in trees /\ m.tree \in trees
      BY <2>2
    <3> HIDE DEF trees
    <3> QED  BY <3>1, <3>2, <3>3, OneOfOne
  <2> QED  BY <2>5, <2>6, <2>7, <2>8
<1> QED  BY <1>1, SInvHolds, PTL

(* What the maps hold: the walk of a section, from a lock to the unlock paired
   with it, moves forward in the layout and ends; a lock's tree is a
   parameter's. *)
MapsInv ==
  /\ _accessed \subseteq TreeNode
  /\ DOMAIN _sync_data_inst_tree_map \subseteq DOMAIN _critical_sections
  /\ \A l \in DOMAIN _sync_data_inst_tree_map :
       \E n \in TreeNode : _sync_data_inst_tree_map[l] = n.tree

LEMMA MapsKept == SInv /\ MapsInv /\ [Next \/ Resting]_vars => MapsInv'
PROOF
<1> SUFFICES ASSUME SInv, MapsInv, [Next \/ Resting]_vars PROVE MapsInv'
  OBVIOUS
<1>1. ASSUME NEW f \in FunctionName, computeCriticalSections(f) PROVE MapsInv'
  <2>1. /\ DOMAIN _critical_sections \subseteq DOMAIN _critical_sections'
        /\ _sync_data_inst_tree_map' = _sync_data_inst_tree_map /\ _accessed' = _accessed
    BY <1>1 DEF computeCriticalSections
  <2> QED  BY <2>1 DEF MapsInv
<1>2. ASSUME NEW l \in unwarned, computeWarningCS(l) PROVE MapsInv'
  <2> DEFINE nodes == NodesIn(l, _critical_sections[l])
  <2>1. /\ _accessed' = _accessed \cup nodes /\ _critical_sections' = _critical_sections
        /\ \/ _sync_data_inst_tree_map' = _sync_data_inst_tree_map
           \/ \E n \in nodes :
                _sync_data_inst_tree_map' = Put(_sync_data_inst_tree_map, l, n.tree)
    BY <1>2 DEF computeWarningCS, SectionAccesses, NodesIn
  <2>2. l \in DOMAIN _critical_sections
    BY DEF SInv, SectionsInv
  <2>3. PICK f \in BoundaryClosure : l \in DOMAIN computeCSInFunc(f)
    BY <2>2 DEF SInv, SectionsInv
  <2>4. Home(l) \in FunctionName
    BY <2>3, SectionsOf, ClosureInFunctions DEF SInv, IInv
  <2>5. nodes \subseteq TreeNode
    BY <2>4, SectionNodes DEF SInv, IInv
  <2> HIDE DEF nodes
  <2>6. CASE _sync_data_inst_tree_map' = _sync_data_inst_tree_map
    BY <2>1, <2>5, <2>6 DEF MapsInv
  <2>7. ASSUME NEW n \in nodes,
               _sync_data_inst_tree_map' = Put(_sync_data_inst_tree_map, l, n.tree)
        PROVE  MapsInv'
    <3>1. /\ DOMAIN _sync_data_inst_tree_map' = DOMAIN _sync_data_inst_tree_map \cup {l}
          /\ \A x \in DOMAIN _sync_data_inst_tree_map' :
               _sync_data_inst_tree_map'[x] =
                 IF x = l THEN n.tree ELSE _sync_data_inst_tree_map[x]
      BY <2>7 DEF Put
    <3> QED  BY <2>1, <2>2, <2>5, <3>1 DEF MapsInv
  <2> QED  BY <2>1, <2>6, <2>7
<1>3. ASSUME UNCHANGED <<_accessed, _sync_data_inst_tree_map, _critical_sections>> PROVE MapsInv'
  BY <1>3 DEF MapsInv
<1>4. ASSUME NEW a \in _atomic_operations, computeWarningAtomicOps(a) PROVE MapsInv'
  BY <1>3, <1>4 DEF computeWarningAtomicOps
<1>5. ASSUME NEW f \in FunctionName, Start(f) PROVE MapsInv'
  BY <1>3, <1>5 DEF Start
<1>6. CASE Execution
  BY <1>3, <1>6 DEF Execution, Execute, Branch, Invoke, Return, Analysed
<1>7. CASE UNCHANGED vars
  BY <1>3, <1>7 DEF vars
<1> QED
  BY <1>1, <1>2, <1>4, <1>5, <1>6, <1>7 DEF Next, Resting, Analyse, Warn

(* The pairs and the trees found are of the kinds computeInstsInCS and the stubs
   take for granted. *)
THEOREM TypeCorrect == Spec => []TypeOK
PROOF
<1>1. Init => MapsInv
  BY DEF Init, MapsInv
<1>2. ASSUME SInv, MapsInv PROVE TypeOK
  <2>1. ASSUME NEW l \in DOMAIN _critical_sections PROVE l \in Insts /\ PairOK(l)
    <3>1. PICK f \in BoundaryClosure :
            l \in DOMAIN computeCSInFunc(f) /\ _critical_sections[l] = computeCSInFunc(f)[l]
      BY <1>2 DEF SInv, SectionsInv
    <3>2. prog \in Programs /\ f \in FunctionName
      BY <1>2, ClosureInFunctions DEF SInv, IInv
    <3>3. l \in InstsOf(f) /\ l.op = "lock" /\ Home(l) = f
      BY <3>1, <3>2, SectionsOf
    <3>4. PICK p \in Layout(f) : l = InstAt(f, p)
      BY <3>1, <3>2, SectionsOf
    <3>5. computeCSInFunc(f)[l] \in UnlockOf(f, l)
      BY <3>1 DEF computeCSInFunc
    <3>6. PICK q \in Unlocks(f, l) : _critical_sections[l] = InstAt(f, q)
      BY <3>1, <3>5 DEF UnlockOf, FirstOf
    <3>7. Place(f, l) = p
      BY <3>2, <3>4, PlaceOfInst
    <3>8. q \in Layout(f) /\ InstAt(f, q).op = "unlock" /\ ~Before(q, p)
      BY <3>6, <3>7 DEF Unlocks, isUnlockInst
    <3>9. q # p
      BY <3>3, <3>4, <3>8
    <3>10. Place(f, InstAt(f, q)) = q /\ InstAt(f, q) \in InstsOf(f)
      BY <3>2, <3>8, PlaceOfInst, Places
    <3>11. Before(p, q)
      BY <3>2, <3>8, <3>9, Line
    <3>12. l \in Insts
      BY <3>2, <3>3 DEF Insts
    <3> QED  BY <3>3, <3>6, <3>7, <3>10, <3>11, <3>12 DEF PairOK
  <2>2. Range(_sync_data_inst_tree_map) \subseteq {n.tree : n \in TreeNode}
    BY <1>2 DEF MapsInv, Range
  <2>3. _processed_func_names \subseteq FunctionName /\ _warning_atomic_op_count \in Nat
    BY <1>2, ClosureInFunctions, FS_CardinalityType DEF SInv, IInv, SharedIn
  <2> QED  BY <1>2, <2>1, <2>2, <2>3 DEF TypeOK, SInv, IInv, SectionsInv, MapsInv
<1> QED  BY <1>1, <1>2, MapsKept, SInvHolds, PTL DEF Spec

(* Writing the stubs changes nothing that was found: with it between the
   warnings and the run of the program, every step is one of the sections or
   leaves them as they are. *)
THEOREM StubsLeaveSections == SyncSpec => Spec
PROOF
<1>1. SyncInit => Init
  BY DEF SyncInit
<1>2. [SyncNext \/ (Resting /\ UNCHANGED stubVars)]_syncVars => [Next \/ Resting]_vars
  <2>1. WriteStubs /\ UNCHANGED vars => UNCHANGED vars
    OBVIOUS
  <2>2. SyncNext => Next \/ UNCHANGED vars
    BY <2>1 DEF SyncNext, Analysis, Next
  <2>3. UNCHANGED syncVars => UNCHANGED vars
    BY DEF syncVars
  <2> QED  BY <2>2, <2>3
<1> QED  BY <1>1, <1>2, PTL DEF SyncSpec, Spec

(* What the run of the sections and their stubs checks of the sections holds for
   every program: of the warnings, of what executes with a lock held, of the
   trees, and of the types. *)
THEOREM SectionsWithStubs ==
  SyncSpec => [](OneWarningEach /\ HeldIsInSection /\ SectionIsHeld /\ HeldAccessKnown /\ TypeOK)
PROOF
  BY StubsLeaveSections, OneWarningForEach, HeldIsReported, ReportedIsHeld, AccessIsKnown,
     TypeCorrect, PTL
=============================================================================
