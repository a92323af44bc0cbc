--------------------------- MODULE DataflowProofs ---------------------------
(***************************************************************************)
(* For all well-formed programs, words and contexts: the interprocedural   *)
(* analysis is type correct, it forgets no news, what it records only      *)
(* grows, the running program's values are in the ranges it finds, and     *)
(* accesses below an array are listed.                                     *)
(*                                                                         *)
(* In this order: what ranges the operations give; maps of results; the    *)
(* operands of an instruction; what a step does to an activation, and the  *)
(* steps; what is recorded only grows; the values ranges stand for; the    *)
(* points a program reaches; records, activations and stacks that are      *)
(* right about these; the program as it runs.                              *)
(***************************************************************************)
EXTENDS ValueRange, FiniteSetTheorems, WellFoundedInduction, TLAPS

-----------------------------------------------------------------------------
(* The ranges of the analysis.  Unlike those RangeMeet considers they may have
   their bounds in the wrong order. *)
LEMMA RangeShapes ==
  /\ Unknown \in RangeValue /\ Infinity \in RangeValue /\ Unknown # Infinity
  /\ Unknown # Fault /\ Infinity # Fault
  /\ ~isConstant(Unknown) /\ ~isConstant(Infinity) /\ ~isConstant(Fault)
  /\ \A l, r : /\ isConstant(makeRange(l, r))
               /\ makeRange(l, r).lvalue = l /\ makeRange(l, r).rvalue = r
               /\ l \in Word /\ r \in Word => makeRange(l, r) \in RangeValue
  /\ \A a \in RangeValue :
       /\ a # Fault
       /\ \/ a = Unknown \/ a = Infinity
          \/ isConstant(a) /\ a.lvalue \in Word /\ a.rvalue \in Word
<1>1. /\ Unknown.kind = "unknown" /\ Infinity.kind = "infinity" /\ Fault.kind = "fault"
      /\ \A l, r : /\ makeRange(l, r).kind = "constant"
                   /\ makeRange(l, r).lvalue = l /\ makeRange(l, r).rvalue = r
  BY DEF Unknown, Infinity, Fault, makeRange
<1>2. Unknown \in RangeValue /\ Infinity \in RangeValue
  BY DEF RangeValue
<1>3. \A l, r \in Word : makeRange(l, r) \in RangeValue
  BY DEF RangeValue, RangesOf
<1>4. ASSUME NEW a \in RangeValue
      PROVE  \/ a = Unknown \/ a = Infinity
             \/ \E l, r \in Word : a = makeRange(l, r)
  BY DEF RangeValue, RangesOf
<1>5. /\ Unknown # Infinity /\ Unknown # Fault /\ Infinity # Fault
      /\ ~isConstant(Unknown) /\ ~isConstant(Infinity) /\ ~isConstant(Fault)
      /\ \A l, r : isConstant(makeRange(l, r)) /\ makeRange(l, r) # Fault
  BY <1>1 DEF isConstant
<1> QED
  BY <1>1, <1>2, <1>3, <1>4, <1>5

LEMMA WordIsInt == Word \subseteq Int /\ NoInt \notin Word
BY NoIntAssumption, HalfAssumption DEF Word

LEMMA BelowSelf == ASSUME NEW a \in RangeValue PROVE Below(a, a)
<1>1. \/ a = Unknown \/ a = Infinity
      \/ isConstant(a) /\ a.lvalue \in Int /\ a.rvalue \in Int
  BY RangeShapes, WordIsInt
<1> QED
  BY <1>1 DEF Below

LEMMA BelowBelow ==
  ASSUME NEW a \in RangeValue, NEW b \in RangeValue, NEW c \in RangeValue,
         Below(a, b), Below(b, c)
  PROVE  Below(a, c)
<1>1. CASE a = Unknown \/ c = Infinity
  BY <1>1 DEF Below
<1>2. CASE a # Unknown /\ c # Infinity
  <2>1. isConstant(b) /\ isConstant(c)
    BY <1>2, RangeShapes DEF Below
  <2>2. isConstant(a) /\ a # Infinity
    BY <1>2, <2>1, RangeShapes DEF Below
  <2>3. /\ a.lvalue \in Int /\ a.rvalue \in Int /\ b.lvalue \in Int /\ b.rvalue \in Int
        /\ c.lvalue \in Int /\ c.rvalue \in Int
    BY <1>2, <2>1, <2>2, RangeShapes, WordIsInt
  <2> QED
    BY <1>2, <2>1, <2>2, <2>3, RangeShapes DEF Below
<1> QED
  BY <1>1, <1>2

(* What two ranges are joined to is a range above both. *)
LEMMA JoinAbove ==
  ASSUME NEW a \in RangeValue, NEW b \in RangeValue
  PROVE  Join(a, b) \in RangeValue /\ Below(a, Join(a, b)) /\ Below(b, Join(a, b))
<1>1. CASE a = Unknown
  BY <1>1, BelowSelf DEF Join, Below
<1>2. CASE a # Unknown /\ b = Unknown
  BY <1>2, BelowSelf DEF Join, Below
<1>3. CASE Unknown \notin {a, b} /\ Infinity \in {a, b}
  BY <1>3, RangeShapes DEF Join, Below
<1>4. CASE isConstant(a) /\ isConstant(b)
  <2>1. /\ a.lvalue \in Word /\ a.rvalue \in Word /\ b.lvalue \in Word /\ b.rvalue \in Word
        /\ Unknown \notin {a, b} /\ Infinity \notin {a, b}
    BY <1>4, RangeShapes
  <2>2. NoInt \notin Ends(a) \cup Ends(b)
    BY <2>1, WordIsInt DEF Ends
  <2> DEFINE l == Smaller(a.lvalue, b.lvalue)
             r == Larger(a.rvalue, b.rvalue)
  <2>3. Join(a, b) = makeRange(l, r)
    BY <2>1, <2>2 DEF Join
  <2>4. l \in Word /\ r \in Word
    BY <2>1 DEF Smaller, Larger
  <2>5. /\ a.lvalue \in Int /\ a.rvalue \in Int /\ b.lvalue \in Int /\ b.rvalue \in Int
    BY <2>1, WordIsInt
  <2>6. l =< a.lvalue /\ l =< b.lvalue /\ a.rvalue =< r /\ b.rvalue =< r
    BY <2>5 DEF Smaller, Larger
  <2> HIDE DEF l, r
  <2> QED
    BY <1>4, <2>3, <2>4, <2>6, RangeShapes DEF Below
<1> QED
  BY <1>1, <1>2, <1>3, <1>4, RangeShapes

-----------------------------------------------------------------------------
(* What an operation gives is a range, unless the analysis divides by zero. *)
Outcome == RangeValue \cup {Fault}

LEMMA HullIsRange ==
  ASSUME NEW S, NEW p, NEW q, NEW r, NEW s, S = {p, q, r, s}
  PROVE  Hull(S) \in RangeValue
<1> SUFFICES ASSUME S \subseteq Word PROVE makeRange(Min(S), Max(S)) \in RangeValue
  BY RangeShapes DEF Hull
<1>1. p \in Int /\ q \in Int /\ r \in Int /\ s \in Int
  BY WordIsInt
<1>2. \E x \in S : \A y \in S : x =< y
  BY <1>1, SMT
<1>3. \E x \in S : \A y \in S : x >= y
  BY <1>1, SMT
<1>4. Min(S) \in S
  BY <1>2 DEF Min
<1>5. Max(S) \in S
  BY <1>3 DEF Max
<1> QED
  BY <1>4, <1>5, RangeShapes

LEMMA BoundsIsRange == \A l, r : Bounds(l, r) \in RangeValue
BY RangeShapes DEF Bounds

LEMMA SDivIsOutcome ==
  ASSUME NEW a, NEW b, a.lvalue \in Word, a.rvalue \in Word
  PROVE  SDiv(a, b) \in Outcome
<1> DEFINE m == Larger(abs(a.lvalue), abs(a.rvalue))
<1>1. Half \in Nat /\ Half > 0
  BY HalfAssumption
<1>2. ASSUME NEW x \in Word PROVE abs(x) \in Word
  BY <1>1 DEF abs, Magnitude, Wrap, Word
<1>3. m \in Word
  BY <1>2 DEF Larger
<1>4. Wrap(-m) \in Word
  <2> HIDE DEF m
  <2> QED
    BY <1>1, <1>3 DEF Wrap, Word
<1>5. makeRange(Wrap(-m), m) \in RangeValue
  <2> HIDE DEF m
  <2> QED
    BY <1>3, <1>4, RangeShapes
<1> DEFINE S == {sdiv(x, y) : x \in Ends(a), y \in Ends(b)}
<1>6. Hull(S) \in RangeValue
  <2>1. S = {sdiv(a.lvalue, b.lvalue), sdiv(a.lvalue, b.rvalue),
             sdiv(a.rvalue, b.lvalue), sdiv(a.rvalue, b.rvalue)}
    BY DEF Ends
  <2> HIDE DEF S
  <2> QED
    BY <2>1, HullIsRange
<1> QED
  BY <1>5, <1>6 DEF SDiv, Outcome

LEMMA UDivIsOutcome ==
  ASSUME NEW a, NEW b, a.lvalue \in Word, a.rvalue \in Word, b.lvalue \in Word, b.rvalue \in Word
  PROVE  UDiv(a, b) \in Outcome
<1>1. Half \in Nat /\ Half > 0
  BY HalfAssumption
<1>2. ASSUME NEW x \in Word, NEW y \in Word, y # 0
      PROVE  udiv(x, y) \in Word
  <2> DEFINE u == Unsigned(x)
             v == Unsigned(y)
  <2>1. u \in Nat /\ u < 2 * Half /\ v \in Nat /\ v > 0
    BY <1>1, <1>2 DEF Unsigned, Word
  <2> HIDE DEF u, v
  <2>2. u \div v \in Nat /\ u \div v =< u
    BY <2>1
  <2>3. udiv(x, y) = Signed(u \div v)
    BY DEF udiv, u, v
  <2> DEFINE d == u \div v
  <2>4. d \in Nat /\ d < 2 * Half /\ udiv(x, y) = Signed(d)
    BY <1>1, <2>1, <2>2, <2>3
  <2> HIDE DEF d
  <2> QED
    BY <1>1, <2>4 DEF Signed, Word
<1>3. CASE 0 \in Ends(b)
  BY <1>3 DEF UDiv, Outcome
<1>4. CASE 0 \notin Ends(b)
  <2>1. udiv(a.rvalue, b.lvalue) \in Word /\ udiv(a.lvalue, b.rvalue) \in Word
    BY <1>2, <1>4 DEF Ends
  <2> QED
    BY <1>4, <2>1, RangeShapes DEF UDiv, Outcome
<1> QED
  BY <1>3, <1>4

LEMMA EvaluatedIsOutcome ==
  ASSUME NEW op \in BinaryOp, NEW a \in Outcome, NEW b \in Outcome
  PROVE  evaluateBinOP(op, a, b) \in Outcome
<1>1. CASE ~(isConstant(a) /\ isConstant(b))
  BY <1>1, RangeShapes DEF evaluateBinOP, Outcome
<1>2. CASE isConstant(a) /\ isConstant(b)
  <2>1. /\ a.lvalue \in Word /\ a.rvalue \in Word /\ b.lvalue \in Word /\ b.rvalue \in Word
    BY <1>2, RangeShapes DEF Outcome
  <2>2. NoInt \notin Ends(a) \cup Ends(b)
    BY <2>1, WordIsInt DEF Ends
  <2>3. Add(a, b) \in Outcome /\ Sub(a, b) \in Outcome
    BY BoundsIsRange DEF Add, Sub, Outcome
  <2>4. Mul(a, b) \in Outcome
    <3> DEFINE S == {x * y : x \in Ends(a), y \in Ends(b)}
    <3>1. S = {a.lvalue * b.lvalue, a.lvalue * b.rvalue, a.rvalue * b.lvalue, a.rvalue * b.rvalue}
      BY DEF Ends
    <3> HIDE DEF S
    <3>2. Hull(S) \in RangeValue
      BY <3>1, HullIsRange
    <3> QED
      BY <3>2 DEF S, Mul, Outcome
  <2>5. SDiv(a, b) \in Outcome /\ UDiv(a, b) \in Outcome
    BY <2>1, SDivIsOutcome, UDivIsOutcome
  <2>6. Infinity \in Outcome
    BY RangeShapes DEF Outcome
  <2> QED
    BY <1>2, <2>2, <2>3, <2>4, <2>5, <2>6 DEF evaluateBinOP, BinaryOp
<1> QED
  BY <1>1, <1>2

(* Casting to words never fails. *)
LEMMA CastIsOutcome ==
  ASSUME NEW op \in WordCast, NEW a \in Outcome
  PROVE  evaluateCast(op, a) \in Outcome
<1>1. op \in {"trunc", "sext", "zext"}
  BY DEF WordCast, CastOp
<1>2. CASE ~isConstant(a)
  BY <1>2 DEF evaluateCast
<1>3. CASE isConstant(a)
  <2>1. a.lvalue \in Word /\ a.rvalue \in Word
    BY <1>3, RangeShapes DEF Outcome
  <2>2. NoInt \notin Ends(a)
    BY <2>1, WordIsInt DEF Ends
  <2>3. ASSUME NEW x \in Word PROVE Fold(op, x) \in Word
    <3>1. /\ Half \in Nat /\ NarrowHalf \in Nat /\ NarrowHalf > 0 /\ NarrowHalf =< Half
          /\ NarrowHalf = Half \/ 2 * NarrowHalf =< Half
      BY HalfAssumption
    <3>2. x \in Int /\ -Half =< x /\ x < Half
      BY <3>1 DEF Word
    <3>3. CASE op = "trunc"
      <4> DEFINE m == 2 * NarrowHalf
                 u == x % m
      <4>1. m \in Nat /\ m > 0
        BY <3>1
      <4>2. u \in Nat /\ u < m
        <5> HIDE DEF m
        <5> QED
          BY <3>2, <4>1
      <4>3. Fold(op, x) = IF u >= NarrowHalf THEN u - 2 * NarrowHalf ELSE u
        BY <3>3 DEF Fold
      <4>4. u < 2 * NarrowHalf
        BY <4>2
      <4> HIDE DEF u
      <4> QED
        BY <3>1, <4>2, <4>3, <4>4 DEF Word
    <3>4. CASE op = "sext"
      BY <3>4 DEF Fold
    <3>5. CASE op = "zext"
      <4>1. Fold(op, x) = Signed(IF x < 0 THEN x + 2 * NarrowHalf ELSE x)
        BY <3>5 DEF Fold
      <4> QED
        BY <3>1, <3>2, <4>1 DEF Signed, Word
    <3> QED
      BY <1>1, <3>3, <3>4, <3>5
  <2>4. evaluateCast(op, a) = makeRange(Fold(op, a.lvalue), Fold(op, a.rvalue))
    BY <1>1, <1>3, <2>2 DEF evaluateCast
  <2> QED
    BY <2>1, <2>3, <2>4, RangeShapes DEF Outcome
<1> QED
  BY <1>2, <1>3

-----------------------------------------------------------------------------
(* Maps from some of the keys K to V. *)
MapOf(K, V) == UNION {[D -> V] : D \in SUBSET K}

LEMMA MapIs ==
  ASSUME NEW K, NEW V, NEW s \in MapOf(K, V)
  PROVE  /\ DOMAIN s \subseteq K /\ s \in [DOMAIN s -> V] /\ \A x \in DOMAIN s : s[x] \in V
BY DEF MapOf

LEMMA IsMap ==
  ASSUME NEW K, NEW V, NEW D \in SUBSET K, NEW s \in [D -> V]
  PROVE  s \in MapOf(K, V)
BY DEF MapOf

LEMMA SetIs ==
  \A s, k, r :
    /\ DOMAIN Set(s, k, r) = DOMAIN s \cup {k}
    /\ Set(s, k, r)[k] = r
    /\ \A x \in DOMAIN s : x # k => Set(s, k, r)[x] = s[x]
BY DEF Set

LEMMA SetMap ==
  ASSUME NEW K, NEW V, NEW s \in MapOf(K, V), NEW k \in K, NEW r \in V
  PROVE  Set(s, k, r) \in MapOf(K, V)
<1>1. Set(s, k, r) \in [DOMAIN s \cup {k} -> V]
  BY MapIs DEF Set
<1>2. DOMAIN s \cup {k} \in SUBSET K
  BY MapIs
<1> QED
  BY <1>1, <1>2, IsMap

LEMMA GetMap ==
  ASSUME NEW K, NEW V, NEW s \in MapOf(K, V), NEW k, NEW d \in V
  PROVE  Get(s, k, d) \in V
BY MapIs DEF Get

(* What is read after a write. *)
LEMMA GetSet ==
  \A s, k, r, d : /\ Get(Set(s, k, r), k, d) = r
                  /\ \A x : x # k => Get(Set(s, k, r), x, d) = Get(s, x, d)
<1> TAKE s, k, r, d
<1>1. DOMAIN Set(s, k, r) = DOMAIN s \cup {k}
  BY SetIs
<1>2. Set(s, k, r)[k] = r
  BY SetIs
<1>3. \A x \in DOMAIN s : x # k => Set(s, k, r)[x] = s[x]
  BY SetIs
<1> QED
  BY <1>1, <1>2, <1>3 DEF Get

(* Looking a key up inserts it, and reads the same afterwards. *)
LEMMA TouchIs ==
  \A s, k, d :
    /\ DOMAIN Touch(s, k, d) = DOMAIN s \cup {k}
    /\ \A x \in DOMAIN s : Touch(s, k, d)[x] = s[x]
    /\ k \notin DOMAIN s => Touch(s, k, d)[k] = d
    /\ \A x : Get(Touch(s, k, d), x, d) = Get(s, x, d)
<1> TAKE s, k, d
<1> DEFINE g == Get(s, k, d)
<1>1. Touch(s, k, d) = Set(s, k, g)
  BY DEF Touch
<1> HIDE DEF g
<1>2. DOMAIN Touch(s, k, d) = DOMAIN s \cup {k}
  BY <1>1, SetIs
<1>3. Touch(s, k, d)[k] = g
  BY <1>1, SetIs
<1>4. \A x \in DOMAIN s : x # k => Touch(s, k, d)[x] = s[x]
  BY <1>1, SetIs
<1>5. k \in DOMAIN s => g = s[k]
  BY DEF g, Get
<1>6. k \notin DOMAIN s => g = d
  BY DEF g, Get
<1> QED
  BY <1>2, <1>3, <1>4, <1>5, <1>6 DEF Get

LEMMA GetTouch == \A s, k, d, x : Get(Touch(s, k, d), x, d) = Get(s, x, d)
BY TouchIs

LEMMA DomTouch == \A s, k, d : DOMAIN Touch(s, k, d) = DOMAIN s \cup {k}
BY TouchIs

LEMMA TouchMap ==
  ASSUME NEW K, NEW V, NEW s \in MapOf(K, V), NEW k \in K, NEW d \in V
  PROVE  Touch(s, k, d) \in MapOf(K, V)
<1> DEFINE g == Get(s, k, d)
<1>1. g \in V /\ Touch(s, k, d) = Set(s, k, g)
  BY GetMap DEF Touch
<1> HIDE DEF g
<1> QED
  BY <1>1, SetMap

-----------------------------------------------------------------------------
(* The states of the analysis, the results of an activation, those of all;
   a Draft is a state in which an operation may have failed. *)
StateKey == Value \cup FunctionName
State    == MapOf(StateKey, RangeValue)
Draft    == MapOf(StateKey, Outcome)
Results  == MapOf(Keys, State)

LEMMA StateIs ==
  ASSUME NEW s \in State
  PROVE  IsState(s) /\ s \in Draft
<1>1. DOMAIN s \subseteq StateKey /\ s \in [DOMAIN s -> RangeValue] /\ \A x \in DOMAIN s : s[x] \in RangeValue
  BY MapIs DEF State
<1>2. s \in [DOMAIN s -> Outcome]
  BY <1>1 DEF Outcome
<1> QED
  BY <1>1, <1>2, IsMap DEF IsState, Draft, StateKey

LEMMA EmptyIs == Empty \in State /\ DOMAIN Empty = {} /\ NoResults \in Results /\ DOMAIN NoResults = {}
<1>1. Empty \in [{} -> RangeValue] /\ NoResults \in [{} -> State]
  BY DEF Empty, NoResults
<1>2. Empty \in State /\ NoResults \in Results
  BY <1>1, IsMap DEF State, Results
<1> QED
  BY <1>2 DEF Empty, NoResults

LEMMA SoundDraft ==
  ASSUME NEW s \in Draft, ~Faulty(s)
  PROVE  s \in State
<1>1. DOMAIN s \in SUBSET StateKey /\ s \in [DOMAIN s -> Outcome]
  BY MapIs DEF Draft
<1>2. \A x \in DOMAIN s : s[x] \in RangeValue
  BY <1>1 DEF Faulty, Outcome
<1>3. s \in [DOMAIN s -> RangeValue]
  BY <1>1, <1>2
<1> QED
  BY <1>1, <1>3, IsMap DEF State

LEMMA ResultsAre ==
  ASSUME NEW r \in Results
  PROVE  AreResults(r)
BY MapIs, StateIs DEF Results, AreResults

LEMMA MergeStates ==
  ASSUME NEW s \in State, NEW t \in State
  PROVE  /\ Merge(s, t) \in State /\ DOMAIN Merge(s, t) = DOMAIN s \cup DOMAIN t
         /\ Included(s, Merge(s, t)) /\ Included(t, Merge(s, t))
<1>1. /\ DOMAIN s \subseteq StateKey /\ DOMAIN t \subseteq StateKey
      /\ \A x \in DOMAIN s : s[x] \in RangeValue
      /\ \A x \in DOMAIN t : t[x] \in RangeValue
  BY MapIs DEF State
<1>2. DOMAIN Merge(s, t) = DOMAIN s \cup DOMAIN t
  BY DEF Merge
<1>3. ASSUME NEW x \in DOMAIN s \cup DOMAIN t
      PROVE  /\ Merge(s, t)[x] \in RangeValue
             /\ x \in DOMAIN s => Below(s[x], Merge(s, t)[x])
             /\ x \in DOMAIN t => Below(t[x], Merge(s, t)[x])
  <2>1. Merge(s, t)[x] = IF x \in DOMAIN s \cap DOMAIN t THEN Join(s[x], t[x])
                         ELSE IF x \in DOMAIN s THEN s[x] ELSE t[x]
    BY DEF Merge
  <2>2. CASE x \in DOMAIN s \cap DOMAIN t
    BY <1>1, <2>1, <2>2, JoinAbove
  <2>3. CASE x \in DOMAIN s /\ x \notin DOMAIN t
    BY <1>1, <2>1, <2>3, BelowSelf
  <2>4. CASE x \in DOMAIN t /\ x \notin DOMAIN s
    BY <1>1, <2>1, <2>4, BelowSelf
  <2> QED
    BY <2>2, <2>3, <2>4
<1>4. Merge(s, t) = [x \in DOMAIN s \cup DOMAIN t |-> Merge(s, t)[x]]
  BY DEF Merge
<1>5. Merge(s, t) \in [DOMAIN s \cup DOMAIN t -> RangeValue]
  BY <1>3, <1>4
<1>6. Merge(s, t) \in State
  BY <1>1, <1>5, IsMap DEF State
<1> QED
  BY <1>2, <1>3, <1>6 DEF Included

LEMMA IncludedSelf == ASSUME NEW s \in State PROVE Included(s, s)
BY MapIs, BelowSelf DEF State, Included

LEMMA IncludedIn ==
  ASSUME NEW s \in State, NEW t \in State, NEW u \in State, Included(s, t), Included(t, u)
  PROVE  Included(s, u)
<1> SUFFICES ASSUME NEW k \in DOMAIN s PROVE k \in DOMAIN u /\ Below(s[k], u[k])
  BY DEF Included
<1>1. k \in DOMAIN t /\ k \in DOMAIN u /\ Below(s[k], t[k]) /\ Below(t[k], u[k])
  BY DEF Included
<1>2. s[k] \in RangeValue /\ t[k] \in RangeValue /\ u[k] \in RangeValue
  BY <1>1, MapIs DEF State
<1> QED
  BY <1>1, <1>2, BelowBelow

LEMMA WithoutIncluded ==
  ASSUME NEW s \in State, NEW f
  PROVE  Included(Without(s, f), s)
BY MapIs, BelowSelf DEF State, Included, Without

LEMMA EmptyIncluded == \A s : Included(Empty, s)
BY EmptyIs DEF Included

-----------------------------------------------------------------------------
(* What a well-formed program gives of a function. *)
LEMMA FnIs ==
  ASSUME mod \in Modules, NEW f \in DOMAIN mod.functions
  PROVE  /\ f \in FunctionName /\ Fn(f) \in Function
         /\ Params(f) \in Seq(Value)
         /\ Blocks(f) \subseteq Block /\ NoBlock \notin Blocks(f)
         /\ Fn(f).blocks \in Seq(Blocks(f))
         /\ \A b \in Blocks(f) :
              /\ Code(f, b) \in Seq(Instruction) /\ Code(f, b) # << >>
              /\ Fn(f).succ[b] \in Seq(Blocks(f))
<1>1. WellFormed(mod)
  BY ModuleAssumption
<1>2. f \in FunctionName /\ Fn(f) \in Function
  BY <1>1 DEF WellFormed, Fn
<1>3. /\ Fn(f).params \in Seq(Value) /\ Fn(f).blocks \in Seq(Block)
      /\ Fn(f).succ \in [Block -> Seq(Block)] /\ Fn(f).code \in [Block -> Seq(Instruction)]
  BY <1>2 DEF Function
<1>4. Blocks(f) \subseteq Block /\ NoBlock \notin Blocks(f)
  BY <1>3, KeyAssumption DEF Blocks, Range
<1>5. Fn(f).blocks \in Seq(Blocks(f))
  <2> DEFINE s == Fn(f).blocks
  <2>1. s \in Seq(Block) /\ Blocks(f) = {s[x] : x \in DOMAIN s}
    BY <1>3 DEF Blocks, Range
  <2> HIDE DEF s
  <2> QED
    BY <2>1 DEF s
<1>6. ASSUME NEW b \in Blocks(f)
      PROVE  /\ Code(f, b) \in Seq(Instruction) /\ Code(f, b) # << >>
             /\ Fn(f).succ[b] \in Seq(Blocks(f))
  <2>1. Fn(f).code[b] # << >> /\ Range(Fn(f).succ[b]) \subseteq Blocks(f)
    BY <1>1 DEF WellFormed, Fn, Blocks
  <2>2. Fn(f).code[b] \in Seq(Instruction) /\ Fn(f).succ[b] \in Seq(Block)
    BY <1>3, <1>4
  <2> DEFINE s == Fn(f).succ[b]
  <2>3. s \in Seq(Block) /\ \A x \in DOMAIN s : s[x] \in Blocks(f)
    BY <2>1, <2>2 DEF Range
  <2> HIDE DEF s
  <2>4. s \in Seq(Blocks(f))
    BY <2>3
  <2> QED
    BY <2>1, <2>2, <2>4 DEF s, Code
<1> QED
  BY <1>2, <1>3, <1>4, <1>5, <1>6 DEF Params

(* No two instructions of a function share a name. *)
LEMMA OnePlace ==
  ASSUME mod \in Modules, NEW f \in DOMAIN mod.functions,
         NEW b \in Blocks(f), NEW c \in Blocks(f),
         NEW j \in DOMAIN Code(f, b), NEW k \in DOMAIN Code(f, c),
         Code(f, b)[j].id = Code(f, c)[k].id
  PROVE  b = c /\ j = k
BY ModuleAssumption DEF WellFormed, Blocks, Code, Fn

LEMMA InstructionIs ==
  ASSUME mod \in Modules, NEW f \in DOMAIN mod.functions, NEW i \in Instructions(f)
  PROVE  /\ i \in Instruction
         /\ i.op \in BinaryOp => Len(i.args) = 2
         /\ i.op \in WordCast => Len(i.args) = 1
         /\ i.op = "call" => /\ i.callee \in DOMAIN mod.functions
                             /\ Len(i.args) = Len(Params(i.callee))
         /\ \A j \in Instructions(f) : i.id = j.id => i = j
<1>1. PICK b \in Blocks(f) : i \in Range(Code(f, b))
  BY DEF Instructions
<1>2. PICK k \in DOMAIN Code(f, b) : i = Code(f, b)[k]
  BY <1>1 DEF Range
<1>3. i \in Instruction
  BY <1>2, FnIs
<1>4. /\ i.op \in BinaryOp => Len(i.args) = 2
      /\ i.op \in WordCast => Len(i.args) = 1
      /\ i.op = "call" => /\ i.callee \in DOMAIN mod.functions
                          /\ Len(i.args) = Len(Params(i.callee))
  BY <1>1, ModuleAssumption DEF WellFormed, Blocks, Code, Fn, Params
<1>5. ASSUME NEW j \in Instructions(f), i.id = j.id PROVE i = j
  <2>1. PICK c \in Blocks(f) : j \in Range(Code(f, c))
    BY DEF Instructions
  <2>2. PICK m \in DOMAIN Code(f, c) : j = Code(f, c)[m]
    BY <2>1 DEF Range
  <2> QED
    BY <1>2, <1>5, <2>2, OnePlace
<1> QED
  BY <1>3, <1>4, <1>5

LEMMA AtIs ==
  ASSUME mod \in Modules, NEW f \in DOMAIN mod.functions, NEW b \in Blocks(f)
  PROVE  /\ Len(Code(f, b)) \in Nat /\ Len(Code(f, b)) > 0
         /\ DOMAIN Code(f, b) = 1..Len(Code(f, b))
         /\ \A k \in 1..Len(Code(f, b)) : Code(f, b)[k] \in Instructions(f)
         /\ Exit(f, b) \in Instructions(f)
<1>1. Code(f, b) \in Seq(Instruction) /\ Code(f, b) # << >>
  BY FnIs
<1>2. /\ Len(Code(f, b)) \in Nat /\ Len(Code(f, b)) > 0
      /\ DOMAIN Code(f, b) = 1..Len(Code(f, b))
  BY <1>1
<1>3. \A k \in 1..Len(Code(f, b)) : Code(f, b)[k] \in Instructions(f)
  BY <1>2 DEF Instructions, Range
<1> QED
  BY <1>2, <1>3 DEF Exit

-----------------------------------------------------------------------------
(* Counting up to n.  The least number that is missing would have its
   predecessor: of the segments that end with one, none is smallest. *)
LEMMA UpTo ==
  ASSUME NEW n \in Nat, NEW S, 0 \in S, \A k \in 1..n : k - 1 \in S => k \in S
  PROVE  0..n \subseteq S
<1> DEFINE T == {k \in 0..n : k \notin S}
           F == {0..k : k \in T}
<1> SUFFICES ASSUME T # {} PROVE FALSE
  OBVIOUS
<1>1. IsFiniteSet(0..n)
  BY FS_Interval
<1>2. IsWellFoundedOn(StrictSubsetOrdering(0..n), SUBSET (0..n))
  BY <1>1, FS_StrictSubsetOrderingWellFounded, FS_FiniteSubsetsOfFinite
<1>3. F \subseteq SUBSET (0..n) /\ F # {}
  OBVIOUS
<1> HIDE DEF F
<1>4. PICK x \in F : \A y \in F : <<y, x>> \notin StrictSubsetOrdering(0..n)
  BY <1>2, <1>3, WFMin
<1> USE DEF F
<1>5. PICK k \in T : x = 0..k
  OBVIOUS
<1>6. k \in 1..n /\ k - 1 \notin S
  OBVIOUS
<1>7. 0..(k - 1) \in F
  BY <1>6
<1>8. 0..(k - 1) \subseteq 0..k /\ k \notin 0..(k - 1) /\ k \in 0..k
  BY <1>6
<1> HIDE DEF F, T
<1>9. 0..(k - 1) \in SUBSET (0..n) /\ 0..k \in SUBSET (0..n)
  BY <1>3, <1>4, <1>5, <1>7
<1>10. <<0..(k - 1), 0..k>> \in StrictSubsetOrdering(0..n)
  <2> DEFINE p == 0..(k - 1)
             q == 0..k
  <2>1. p \in SUBSET (0..n) /\ q \in SUBSET (0..n) /\ p \subseteq q /\ p # q
    BY <1>8, <1>9
  <2> HIDE DEF p, q
  <2>2. <<p, q>> \in StrictSubsetOrdering(0..n)
    BY <2>1 DEF StrictSubsetOrdering
  <2> QED
    BY <2>2 DEF p, q
<1> QED
  BY <1>4, <1>5, <1>7, <1>10

(* A function that is defined along 0..n is there. *)
IsChain(n, A, a, H, w) ==
  w \in [0..n -> A] /\ w[0] = a /\ \A k \in 1..n : w[k] = H[k][w[k - 1]]

LEMMA Recursion ==
  ASSUME NEW n \in Nat, NEW A, NEW a \in A, NEW H \in [1..n -> [A -> A]]
  PROVE  \E w : IsChain(n, A, a, H, w)
<1> DEFINE Along(m, w) == w[0] = a /\ \A k \in 1..m : w[k] = H[k][w[k - 1]]
           S == {m \in 0..n : \E w \in [0..m -> A] : Along(m, w)}
<1>1. 0 \in S
  <2> DEFINE w == [k \in 0..0 |-> a]
  <2>1. w \in [0..0 -> A] /\ Along(0, w) /\ 0 \in 0..n
    OBVIOUS
  <2> HIDE DEF w, Along
  <2>2. \E u \in [0..0 -> A] : Along(0, u)
    BY <2>1
  <2> QED
    BY <2>1, <2>2
<1>2. ASSUME NEW m \in 1..n, m - 1 \in S PROVE m \in S
  <2>1. PICK w \in [0..(m - 1) -> A] : Along(m - 1, w)
    BY <1>2
  <2> DEFINE v == [k \in 0..m |-> IF k = m THEN H[m][w[m - 1]] ELSE w[k]]
  <2>2. v \in [0..m -> A]
    <3>1. H[m] \in [A -> A] /\ w[m - 1] \in A
      OBVIOUS
    <3>2. \A k \in 0..m : k # m => w[k] \in A
      OBVIOUS
    <3> QED
      BY <3>1, <3>2
  <2>3. ASSUME NEW k \in 1..m PROVE v[k] = H[k][v[k - 1]]
    <3>1. k - 1 \in 0..m /\ k - 1 # m /\ k \in 0..m
      OBVIOUS
    <3>2. v[k - 1] = w[k - 1]
      BY <3>1
    <3>3. k # m => w[k] = H[k][w[k - 1]]
      BY <2>1
    <3> QED
      BY <3>1, <3>2, <3>3
  <2>4. v[0] = a
    BY <2>1
  <2>5. v \in [0..m -> A] /\ Along(m, v) /\ m \in 0..n
    <3> HIDE DEF v
    <3> QED
      BY <2>2, <2>3, <2>4
  <2> HIDE DEF v, Along
  <2>6. \E u \in [0..m -> A] : Along(m, u)
    BY <2>5
  <2> QED
    BY <2>5, <2>6
<1> HIDE DEF S
<1>3. \A k \in 1..n : k - 1 \in S => k \in S
  BY <1>2
<1>4. 0..n \subseteq S
  BY <1>1, <1>3, UpTo
<1>5. n \in S
  BY <1>4
<1>6. PICK w \in [0..n -> A] : Along(n, w)
  BY <1>5 DEF S
<1> QED
  BY <1>6 DEF IsChain

-----------------------------------------------------------------------------
(* Operands.  Looking one up leaves what is there. *)
Extends(s, t) == DOMAIN s \subseteq DOMAIN t /\ \A x \in DOMAIN s : t[x] = s[x]
(* Nor does it bring in more than that nothing is known. *)
Asks(s, t) == Extends(s, t) /\ \A x \in DOMAIN t : x \in DOMAIN s \/ t[x] = Unknown

LEMMA DraftValues ==
  ASSUME NEW s \in Draft
  PROVE  DOMAIN s \subseteq StateKey /\ \A x \in DOMAIN s : s[x] \in Outcome
BY MapIs DEF Draft

LEMMA OperandRange ==
  ASSUME NEW v \in Value, NEW s \in Draft
  PROVE  getRangeFor(v, s) \in Outcome /\ Looked(v, s) \in Draft /\ Asks(s, Looked(v, s))
<1>1. Unknown \in Outcome
  BY RangeShapes DEF Outcome
<1>2. CASE v \in ConstantInt
  <2>1. IntValue[v] \in Word
    BY <1>2, ConstantAssumption
  <2>2. makeRange(IntValue[v], IntValue[v]) \in RangeValue
    BY <2>1, RangeShapes
  <2>3. getRangeFor(v, s) = makeRange(IntValue[v], IntValue[v]) /\ Looked(v, s) = s
    BY <1>2 DEF getRangeFor, Looked
  <2> QED
    BY <2>2, <2>3 DEF Outcome, Asks, Extends
<1>3. CASE v \notin ConstantInt
  <2>1. getRangeFor(v, s) = Get(s, v, Unknown) /\ Looked(v, s) = Touch(s, v, Unknown)
    BY <1>3 DEF getRangeFor, Looked
  <2>2. Get(s, v, Unknown) \in Outcome
    BY <1>1, GetMap DEF Draft
  <2>3. Touch(s, v, Unknown) \in Draft
    BY <1>1, TouchMap DEF Draft, StateKey
  <2>4. /\ DOMAIN Touch(s, v, Unknown) = DOMAIN s \cup {v}
        /\ \A x \in DOMAIN s : Touch(s, v, Unknown)[x] = s[x]
        /\ v \notin DOMAIN s => Touch(s, v, Unknown)[v] = Unknown
    BY TouchIs
  <2> QED
    BY <2>1, <2>2, <2>3, <2>4 DEF Asks, Extends
<1> QED
  BY <1>2, <1>3

LEMMA AsksAsks == ASSUME NEW s, NEW t, NEW u, Asks(s, t), Asks(t, u) PROVE Asks(s, u)
BY DEF Asks, Extends

LEMMA ExtendsExtends ==
  \A s, t, u : Extends(s, t) /\ Extends(t, u) => Extends(s, u)
BY DEF Extends

(* The transfer of an instruction gives it a range, or fails. *)
LEMMA TransferIs ==
  ASSUME mod \in Modules, NEW f \in DOMAIN mod.functions, NEW i \in Instructions(f),
         NEW s \in Draft
  PROVE  /\ LookedUp(i, s) \in Draft /\ Asks(s, LookedUp(i, s))
         /\ Transferred(i, s) \in Outcome
         /\ i.op \notin BinaryOp \cup WordCast => Transferred(i, s) = Infinity
         /\ transfer(i, s) \in Draft
<1>1. /\ i \in Instruction
      /\ i.op \in BinaryOp => Len(i.args) = 2
      /\ i.op \in WordCast => Len(i.args) = 1
  BY InstructionIs
<1>2. i.id \in Value /\ i.args \in Seq(Value) /\ i.op \in Opcode
  BY <1>1 DEF Instruction
<1>3. BinaryOp \cap WordCast = {}
  BY DEF BinaryOp, WordCast, CastOp
<1>4. /\ LookedUp(i, s) \in Draft /\ Asks(s, LookedUp(i, s))
      /\ Transferred(i, s) \in Outcome
      /\ i.op \notin BinaryOp \cup WordCast => Transferred(i, s) = Infinity
  <2>1. CASE i.op \in BinaryOp
    <3>1. i.args[1] \in Value /\ i.args[2] \in Value
      BY <1>1, <1>2, <2>1
    <3> DEFINE t == Looked(i.args[1], s)
               u == Looked(i.args[2], t)
    <3>2. t \in Draft /\ Asks(s, t)
      BY <3>1, OperandRange
    <3>3. u \in Draft /\ Asks(t, u)
      <4> HIDE DEF t
      <4> QED
        BY <3>1, <3>2, OperandRange
    <3>4. Asks(s, u)
      <4> HIDE DEF t, u
      <4> QED
        BY <3>2, <3>3, AsksAsks
    <3>5. evaluateBinOP(i.op, getRangeFor(i.args[1], s), getRangeFor(i.args[2], s)) \in Outcome
      BY <2>1, <3>1, OperandRange, EvaluatedIsOutcome
    <3> QED
      BY <1>3, <2>1, <3>3, <3>4, <3>5 DEF LookedUp, Transferred
  <2>2. CASE i.op \in WordCast
    <3>1. i.args[1] \in Value
      BY <1>1, <1>2, <2>2
    <3>2. evaluateCast(i.op, getRangeFor(i.args[1], s)) \in Outcome
      BY <2>2, <3>1, OperandRange, CastIsOutcome
    <3>3. Looked(i.args[1], s) \in Draft /\ Asks(s, Looked(i.args[1], s))
      BY <3>1, OperandRange
    <3> QED
      BY <1>3, <2>2, <3>2, <3>3 DEF LookedUp, Transferred
  <2>3. CASE i.op \notin BinaryOp \cup WordCast
    BY <2>3, RangeShapes DEF LookedUp, Transferred, Asks, Extends, Outcome
  <2> QED
    BY <2>1, <2>2, <2>3
<1>5. transfer(i, s) \in Draft
  <2> DEFINE t == LookedUp(i, s)
             r == Transferred(i, s)
  <2>1. t \in MapOf(StateKey, Outcome) /\ r \in Outcome /\ i.id \in StateKey
    BY <1>2, <1>4 DEF Draft, StateKey
  <2> HIDE DEF t, r
  <2>2. Set(t, i.id, r) \in MapOf(StateKey, Outcome)
    BY <2>1, SetMap
  <2> QED
    BY <2>2 DEF t, r, transfer, Draft
<1> QED
  BY <1>4, <1>5

(* An operand that is not there is put there.  A phi instruction that is its own
   operand, or that of its operands, cannot have failed. *)
SoundAt(x, s) == x \in DOMAIN s => s[x] \in RangeValue

LEMMA OperandIs ==
  ASSUME mod \in Modules, NEW f \in DOMAIN mod.functions, NEW v \in Value, NEW s \in Draft
  PROVE  /\ WithOperand(f, v, s) \in Draft /\ v \in DOMAIN WithOperand(f, v, s)
         /\ Extends(s, WithOperand(f, v, s))
         /\ \A i \in Instructions(f) :
              i.op = "phi" /\ SoundAt(i.id, s) => SoundAt(i.id, WithOperand(f, v, s))
<1> DEFINE t == WithOperand(f, v, s)
<1>1. Unknown \in RangeValue /\ Infinity \in RangeValue /\ RangeValue \subseteq Outcome
  BY RangeShapes DEF Outcome
<1>2. CASE v \in DOMAIN s
  BY <1>2 DEF WithOperand, Extends
<1>3. ASSUME v \notin DOMAIN s, NEW r \in RangeValue, t = Set(s, v, r)
      PROVE  /\ t \in Draft /\ v \in DOMAIN t /\ Extends(s, t)
             /\ \A i \in Instructions(f) : i.op = "phi" /\ SoundAt(i.id, s) => SoundAt(i.id, t)
  <2>1. Set(s, v, r) \in Draft
    BY <1>1, SetMap DEF Draft, StateKey
  <2>2. DOMAIN Set(s, v, r) = DOMAIN s \cup {v}
    BY SetIs
  <2>3. Set(s, v, r)[v] = r
    BY SetIs
  <2>4. \A x \in DOMAIN s : x # v => Set(s, v, r)[x] = s[x]
    BY SetIs
  <2> HIDE DEF t
  <2> QED
    BY <1>3, <2>1, <2>2, <2>3, <2>4 DEF Extends, SoundAt
<1>4. CASE v \notin DOMAIN s /\ v \in ConstantInt
  <2>1. IntValue[v] \in Word
    BY <1>4, ConstantAssumption
  <2>2. getRangeFor(v, s) \in RangeValue
    BY <1>4, <2>1, RangeShapes DEF getRangeFor
  <2>3. t = Set(s, v, getRangeFor(v, s))
    BY <1>4 DEF WithOperand, transferOperand
  <2> QED
    BY <1>3, <1>4, <2>2, <2>3
<1>5. CASE /\ v \notin DOMAIN s /\ v \notin ConstantInt
           /\ ~\E i \in Instructions(f) : i.id = v
  <2>1. t = Set(s, v, Infinity)
    BY <1>5 DEF WithOperand, transferOperand
  <2> QED
    BY <1>1, <1>3, <1>5, <2>1
<1>6. CASE /\ v \notin DOMAIN s /\ v \notin ConstantInt
           /\ \E i \in Instructions(f) : i.id = v
  <2> DEFINE j == CHOOSE i \in Instructions(f) : i.id = v
             u == LookedUp(j, s)
             r == Transferred(j, s)
  <2>1. j \in Instructions(f) /\ j.id = v
    BY <1>6
  <2>2. t = transfer(j, s)
    BY <1>6 DEF WithOperand, transferOperand
  <2> HIDE DEF j, t
  <2>3. u \in Draft /\ Asks(s, u) /\ t \in Draft /\ t = Set(u, v, r)
    BY <2>1, <2>2, TransferIs DEF transfer
  <2>4. j.op = "phi" => r = Infinity
    BY <2>1, TransferIs DEF BinaryOp, WordCast, CastOp
  <2> HIDE DEF u, r
  <2>5. DOMAIN t = DOMAIN u \cup {v}
    BY <2>3, SetIs
  <2>6. t[v] = r
    BY <2>3, SetIs
  <2>7. \A x \in DOMAIN u : x # v => t[x] = u[x]
    BY <2>3, SetIs
  <2>8. v \in DOMAIN t /\ Extends(s, t)
    BY <1>6, <2>3, <2>5, <2>7 DEF Asks, Extends
  <2>9. ASSUME NEW i \in Instructions(f), i.op = "phi", SoundAt(i.id, s), i.id \in DOMAIN t
        PROVE  t[i.id] \in RangeValue
    <3>1. CASE i.id = v
      <4>1. i = j
        BY <2>1, <3>1, InstructionIs
      <4> QED
        BY <1>1, <2>4, <2>6, <2>9, <3>1, <4>1
    <3>2. CASE i.id # v
      <4>1. i.id \in DOMAIN u /\ t[i.id] = u[i.id]
        BY <2>5, <2>7, <2>9, <3>2
      <4> QED
        BY <1>1, <2>3, <2>9, <4>1 DEF Asks, Extends, SoundAt
    <3> QED
      BY <3>1, <3>2
  <2> QED
    BY <2>3, <2>8, <2>9 DEF SoundAt, t
<1> HIDE DEF t
<1> QED
  BY <1>2, <1>4, <1>5, <1>6 DEF t

LEMMA OperandStatesAre ==
  ASSUME mod \in Modules, NEW f \in DOMAIN mod.functions, NEW args \in Seq(Value), NEW s \in Draft
  PROVE  /\ OperandStates(f, args, s) \in [0..Len(args) -> Draft]
         /\ OperandStates(f, args, s)[0] = s
         /\ \A k \in 1..Len(args) :
              OperandStates(f, args, s)[k] = WithOperand(f, args[k], OperandStates(f, args, s)[k - 1])
<1> DEFINE n == Len(args)
           B(w, k) == IF k = 0 THEN s ELSE WithOperand(f, args[k], w[k - 1])
           H == [k \in 1..n |-> [d \in Draft |-> WithOperand(f, args[k], d)]]
           O == OperandStates(f, args, s)
<1>1. n \in Nat /\ \A k \in 1..n : args[k] \in Value
  OBVIOUS
<1>2. H \in [1..n -> [Draft -> Draft]]
  <2>1. ASSUME NEW k \in 1..n, NEW d \in Draft PROVE WithOperand(f, args[k], d) \in Draft
    BY <1>1, OperandIs
  <2> HIDE DEF n
  <2> QED
    BY <2>1
<1>3. PICK w : IsChain(n, Draft, s, H, w)
  <2> HIDE DEF n, H
  <2> QED
    BY <1>1, <1>2, Recursion
<1> USE DEF IsChain
<1>4. w = [k \in 0..n |-> B(w, k)]
  <2>1. ASSUME NEW k \in 0..n PROVE w[k] = B(w, k)
    <3>1. CASE k = 0
      BY <1>3, <3>1
    <3>2. CASE k # 0
      <4>1. k \in 1..n /\ k - 1 \in 0..n
        BY <1>1, <3>2
      <4>2. w[k - 1] \in Draft /\ w[k] = H[k][w[k - 1]]
        BY <1>3, <4>1
      <4>3. H[k][w[k - 1]] = WithOperand(f, args[k], w[k - 1])
        BY <4>1, <4>2
      <4> QED
        BY <3>2, <4>2, <4>3
    <3> QED
      BY <3>1, <3>2
  <2> HIDE DEF B
  <2> QED
    BY <1>3, <2>1
<1>5. O = CHOOSE g : g = [k \in 0..n |-> B(g, k)]
  BY DEF OperandStates
<1>6. O = [k \in 0..n |-> B(O, k)]
  <2> HIDE DEF O, B
  <2> QED
    BY <1>4, <1>5
<1> HIDE DEF O
<1>7. ASSUME NEW k \in 0..n PROVE O[k] = B(O, k)
  <2> HIDE DEF B
  <2> QED
    BY <1>6
<1>8. O[0] = s /\ \A k \in 1..n : O[k] = WithOperand(f, args[k], O[k - 1])
  BY <1>1, <1>7
<1>9. 0..n \subseteq {k \in 0..n : O[k] \in Draft}
  <2> DEFINE S == {k \in 0..n : O[k] \in Draft}
  <2>1. 0 \in S
    BY <1>1, <1>8
  <2>2. ASSUME NEW k \in 1..n, k - 1 \in S PROVE k \in S
    <3>1. O[k - 1] \in Draft /\ args[k] \in Value /\ O[k] = WithOperand(f, args[k], O[k - 1])
      BY <1>1, <1>8, <2>2
    <3>2. O[k] \in Draft
      BY <3>1, OperandIs
    <3> QED
      BY <1>1, <3>2
  <2> HIDE DEF S, n
  <2> QED
    BY <1>1, <2>1, <2>2, UpTo DEF S
<1>10. O \in [0..n -> Draft]
  <2> HIDE DEF B, n
  <2>1. \A k \in 0..n : O[k] \in Draft
    BY <1>9
  <2> QED
    BY <1>6, <2>1
<1> QED
  BY <1>8, <1>10 DEF O

(* Every operand is there in the end, as it was when it was asked for. *)
LEMMA OperandsStay ==
  ASSUME mod \in Modules, NEW f \in DOMAIN mod.functions, NEW args \in Seq(Value), NEW s \in Draft
  PROVE  LET n == Len(args)
             w == OperandStates(f, args, s) IN
         /\ w[n] \in Draft
         /\ \A k \in 0..n : Extends(w[k], w[n])
         /\ \A k \in 1..n : args[k] \in DOMAIN w[k] /\ args[k] \in DOMAIN w[n]
         /\ \A i \in Instructions(f) : i.op = "phi" /\ SoundAt(i.id, s) => SoundAt(i.id, w[n])
<1> DEFINE n == Len(args)
           w == OperandStates(f, args, s)
<1>1. n \in Nat /\ \A k \in 1..n : args[k] \in Value
  OBVIOUS
<1>2. /\ w \in [0..n -> Draft] /\ w[0] = s
      /\ \A k \in 1..n : w[k] = WithOperand(f, args[k], w[k - 1])
  BY OperandStatesAre
<1> HIDE DEF w, n
<1>3. ASSUME NEW k \in 1..n
      PROVE  /\ w[k - 1] \in Draft /\ args[k] \in DOMAIN w[k] /\ Extends(w[k - 1], w[k])
             /\ \A i \in Instructions(f) : i.op = "phi" /\ SoundAt(i.id, w[k - 1]) => SoundAt(i.id, w[k])
  <2>1. w[k - 1] \in Draft /\ args[k] \in Value /\ w[k] = WithOperand(f, args[k], w[k - 1])
    BY <1>1, <1>2
  <2> QED
    BY <2>1, OperandIs
<1> DEFINE S == {j \in 0..n : /\ \A k \in 0..j : Extends(w[k], w[j])
                              /\ \A i \in Instructions(f) :
                                   i.op = "phi" /\ SoundAt(i.id, s) => SoundAt(i.id, w[j])}
<1>4. 0 \in S
  BY <1>1, <1>2 DEF Extends
<1>5. ASSUME NEW j \in 1..n, j - 1 \in S PROVE j \in S
  <2>1. Extends(w[j - 1], w[j])
    BY <1>3
  <2>2. ASSUME NEW k \in 0..j PROVE Extends(w[k], w[j])
    <3>1. CASE k = j
      BY <3>1 DEF Extends
    <3>2. CASE k # j
      <4>1. k \in 0..(j - 1)
        BY <1>1, <3>2
      <4>2. Extends(w[k], w[j - 1])
        BY <1>5, <4>1
      <4> QED
        BY <2>1, <4>2, ExtendsExtends
    <3> QED
      BY <3>1, <3>2
  <2>3. ASSUME NEW i \in Instructions(f), i.op = "phi", SoundAt(i.id, s) PROVE SoundAt(i.id, w[j])
    BY <1>3, <1>5, <2>3
  <2>4. j \in 0..n
    BY <1>1
  <2> QED
    BY <2>2, <2>3, <2>4
<1>6. 0..n \subseteq S
  <2> HIDE DEF S
  <2> QED
    BY <1>1, <1>4, <1>5, UpTo
<1>7. n \in S
  <2> HIDE DEF S
  <2> QED
    BY <1>1, <1>6
<1>8. w[n] \in Draft
  BY <1>1, <1>2
<1>9. \A k \in 1..n : args[k] \in DOMAIN w[k] /\ args[k] \in DOMAIN w[n]
  <2> SUFFICES ASSUME NEW k \in 1..n PROVE args[k] \in DOMAIN w[k] /\ args[k] \in DOMAIN w[n]
    OBVIOUS
  <2>1. args[k] \in DOMAIN w[k] /\ k \in 0..n
    BY <1>1, <1>3
  <2>2. Extends(w[k], w[n])
    BY <1>7, <2>1
  <2> QED
    BY <2>1, <2>2 DEF Extends
<1> QED
  BY <1>7, <1>8, <1>9 DEF w, n

(* A phi instruction, unless the analysis fails, gets a range above those of all
   its operands. *)
LEMMA PhiIs ==
  ASSUME mod \in Modules, NEW f \in DOMAIN mod.functions, NEW i \in Instructions(f),
         i.op = "phi", NEW s \in State, ~Faulty(applyTransfer(f, i, s)),
         NEW u, u = OperandStates(f, i.args, s)[Len(i.args)],
         NEW t, t = applyTransfer(f, i, s)
  PROVE  /\ u \in Draft /\ Extends(s, u) /\ \A x \in DOMAIN u : u[x] \in RangeValue
         /\ t = Set(u, i.id, t[i.id]) /\ t[i.id] \in RangeValue
         /\ \A k \in 1..Len(i.args) : i.args[k] \in DOMAIN u /\ Below(u[i.args[k]], t[i.id])
<1>1. s \in Draft
  BY StateIs
<1>2. i.id \in Value /\ i.id \in StateKey /\ i.args \in Seq(Value)
  BY InstructionIs DEF Instruction, StateKey
<1> DEFINE n == Len(i.args)
           w == OperandStates(f, i.args, s)
           phi[k \in 0..n] == IF k = 0 THEN Unknown ELSE Join(phi[k - 1], w[k][i.args[k]])
           B(g, k) == IF k = 0 THEN Unknown ELSE Join(g[k - 1], w[k][i.args[k]])
<1>3. t = Set(w[n], i.id, phi[n]) /\ u = w[n]
  BY DEF applyTransfer, meetOverPHI
<1>4. n \in Nat
  BY <1>2
<1>5. /\ w[n] \in Draft /\ w[0] = s
      /\ \A k \in 0..n : Extends(w[k], w[n])
      /\ \A k \in 1..n : i.args[k] \in DOMAIN w[k] /\ i.args[k] \in DOMAIN w[n]
      /\ SoundAt(i.id, s) => SoundAt(i.id, w[n])
  BY <1>1, <1>2, OperandsStay, OperandStatesAre
<1>6. SoundAt(i.id, s)
  BY MapIs DEF State, SoundAt
<1>7. phi = CHOOSE g : g = [k \in 0..n |-> B(g, k)]
  OBVIOUS
<1> HIDE DEF w, phi, n
<1> DEFINE last == phi[n]
<1>8. t = Set(u, i.id, last)
  BY <1>3
<1> HIDE DEF last
<1>9. DOMAIN t = DOMAIN u \cup {i.id} /\ t[i.id] = last
  <2>1. \A k : DOMAIN Set(u, k, last) = DOMAIN u \cup {k}
    BY SetIs
  <2>2. t[i.id] = last
    BY <1>8, SetIs
  <2> QED
    BY <1>8, <2>1, <2>2
<1>10. \A x \in DOMAIN u : x # i.id => t[x] = u[x]
  BY <1>8, SetIs
<1>11. ASSUME NEW x \in DOMAIN u PROVE u[x] \in RangeValue
  <2>1. CASE x = i.id
    BY <1>3, <1>5, <1>6, <1>11, <2>1 DEF SoundAt
  <2>2. CASE x # i.id
    <3>1. t[x] # Fault /\ t[x] = u[x]
      BY <1>9, <1>10, <1>11, <2>2 DEF Faulty
    <3>2. u[x] \in Outcome
      BY <1>3, <1>5, <1>11, DraftValues
    <3> QED
      BY <3>1, <3>2 DEF Outcome
  <2> QED
    BY <2>1, <2>2
<1>12. ASSUME NEW k \in 1..n PROVE w[k][i.args[k]] \in RangeValue /\ u[i.args[k]] = w[k][i.args[k]]
  <2>1. k \in 0..n /\ i.args[k] \in DOMAIN w[k] /\ i.args[k] \in DOMAIN w[n]
    BY <1>4, <1>5
  <2>2. w[n][i.args[k]] = w[k][i.args[k]]
    BY <1>5, <2>1 DEF Extends
  <2> QED
    BY <1>3, <1>11, <2>1, <2>2
<1>13. phi = [k \in 0..n |-> B(phi, k)]
  <2> DEFINE H == [k \in 1..n |-> [r \in RangeValue |-> Join(r, w[k][i.args[k]])]]
  <2>1. H \in [1..n -> [RangeValue -> RangeValue]]
    BY <1>12, JoinAbove
  <2>2. PICK g : IsChain(n, RangeValue, Unknown, H, g)
    <3>1. Unknown \in RangeValue
      BY RangeShapes
    <3> HIDE DEF H
    <3> QED
      BY <1>4, <2>1, <3>1, Recursion
  <2> USE DEF IsChain
  <2>3. ASSUME NEW k \in 0..n PROVE g[k] = B(g, k)
    <3>1. CASE k = 0
      BY <2>2, <3>1
    <3>2. CASE k # 0
      <4>1. k \in 1..n /\ k - 1 \in 0..n
        BY <1>4, <3>2
      <4>2. g[k - 1] \in RangeValue /\ g[k] = H[k][g[k - 1]]
        BY <2>2, <4>1
      <4>3. H[k][g[k - 1]] = Join(g[k - 1], w[k][i.args[k]])
        BY <4>1, <4>2
      <4> QED
        BY <3>2, <4>2, <4>3
    <3> QED
      BY <3>1, <3>2
  <2> HIDE DEF B
  <2>4. g = [k \in 0..n |-> B(g, k)]
    BY <2>2, <2>3
  <2> QED
    BY <1>7, <2>4
<1>14. ASSUME NEW k \in 0..n PROVE phi[k] = B(phi, k)
  <2> HIDE DEF B
  <2> QED
    BY <1>13
<1> DEFINE S == {k \in 0..n : phi[k] \in RangeValue /\ \A j \in 1..k : Below(w[j][i.args[j]], phi[k])}
<1>15. 0 \in S
  <2>1. 0 \in 0..n /\ phi[0] = Unknown
    BY <1>4, <1>14
  <2> QED
    BY <2>1, RangeShapes
<1>16. ASSUME NEW k \in 1..n, k - 1 \in S PROVE k \in S
  <2>1. /\ k \in 0..n /\ k # 0 /\ phi[k - 1] \in RangeValue
        /\ \A j \in 1..(k - 1) : Below(w[j][i.args[j]], phi[k - 1])
    BY <1>4, <1>16
  <2>2. phi[k] = Join(phi[k - 1], w[k][i.args[k]])
    BY <1>14, <2>1
  <2>3. /\ phi[k] \in RangeValue
        /\ Below(phi[k - 1], phi[k]) /\ Below(w[k][i.args[k]], phi[k])
    BY <1>12, <2>1, <2>2, JoinAbove
  <2>4. ASSUME NEW j \in 1..k PROVE Below(w[j][i.args[j]], phi[k])
    <3>1. CASE j = k
      BY <2>3, <3>1
    <3>2. CASE j # k
      <4>1. j \in 1..(k - 1) /\ j \in 1..n
        BY <1>4, <3>2
      <4> QED
        BY <1>12, <2>1, <2>3, <4>1, BelowBelow
    <3> QED
      BY <3>1, <3>2
  <2> QED
    BY <2>1, <2>3, <2>4
<1>17. 0..n \subseteq S
  <2> HIDE DEF S
  <2> QED
    BY <1>4, <1>15, <1>16, UpTo
<1>18. phi[n] \in RangeValue /\ \A j \in 1..n : Below(w[j][i.args[j]], phi[n])
  BY <1>4, <1>17
<1>19. ASSUME NEW k \in 1..n PROVE i.args[k] \in DOMAIN u /\ Below(u[i.args[k]], phi[n])
  BY <1>3, <1>5, <1>12, <1>18
<1>20. u \in Draft /\ Extends(s, u)
  BY <1>3, <1>4, <1>5
<1> QED
  BY <1>8, <1>9, <1>11, <1>18, <1>19, <1>20 DEF n, last

(* A phi instruction, or any other but a call, leaves a state of ranges, unless
   the analysis fails. *)
LEMMA AppliedIs ==
  ASSUME mod \in Modules, NEW f \in DOMAIN mod.functions, NEW i \in Instructions(f),
         NEW s \in State, ~Faulty(applyTransfer(f, i, s))
  PROVE  applyTransfer(f, i, s) \in State
<1>1. s \in Draft
  BY StateIs
<1>2. i.id \in StateKey
  BY InstructionIs DEF Instruction, StateKey
<1>3. CASE i.op # "phi"
  <2>1. applyTransfer(f, i, s) = transfer(i, s)
    BY <1>3 DEF applyTransfer
  <2> QED
    BY <1>1, <2>1, TransferIs, SoundDraft
<1>4. CASE i.op = "phi"
  <2> DEFINE u == OperandStates(f, i.args, s)[Len(i.args)]
             t == applyTransfer(f, i, s)
             r == t[i.id]
  <2>1. u \in Draft /\ t = Set(u, i.id, r) /\ r \in RangeValue
    BY <1>4, PhiIs
  <2> HIDE DEF u, r
  <2>2. Set(u, i.id, r) \in Draft
    BY <1>2, <2>1, SetMap DEF Draft, Outcome
  <2> QED
    BY <2>1, <2>2, SoundDraft
<1> QED
  BY <1>3, <1>4

-----------------------------------------------------------------------------
(* Activations. *)
Context == [1..ContextSize -> Value \cup {NoSite}]
Task    == Context \X DOMAIN mod.functions
FrameSet ==
  [context : Context, fn : FunctionName, results : Results, work : Seq(Block),
   inList : SUBSET Block, bb : Block \cup {NoBlock}, toMerge : SUBSET Block, pc : Nat,
   state : State, oldEntryState : State, oldExitState : State]

FrameOK(fr) ==
  /\ fr \in FrameSet /\ fr.fn \in DOMAIN mod.functions
  /\ fr.work \in Seq(Blocks(fr.fn)) /\ fr.inList \subseteq Range(fr.work)
  /\ fr.bb \in Blocks(fr.fn) \cup {NoBlock}
  /\ fr.bb # NoBlock => /\ fr.toMerge \subseteq Preds(fr.fn, fr.bb)
                        /\ fr.pc =< Len(Code(fr.fn, fr.bb)) + 1

(* While a block is entered its results are those before the visit; behind its
   last instruction they are the state there. *)
Kept(fr) ==
  /\ fr.toMerge # {} => fr.bb # NoBlock /\ fr.pc = 0
  /\ fr.bb # NoBlock =>
       /\ fr.pc = 0 => /\ fr.oldEntryState = EntryState(fr.results, fr.bb)
                       /\ fr.oldExitState = ExitState(fr.results, fr.fn, fr.bb)
       /\ fr.pc = Len(Code(fr.fn, fr.bb)) + 1 => fr.state = ExitState(fr.results, fr.fn, fr.bb)

FrameInv(fr) == FrameOK(fr) /\ Kept(fr) /\ \A b \in Blocks(fr.fn) : Knows(fr, b)

(* The activation waits for a callee. *)
Calling(fr) ==
  /\ fr.bb # NoBlock /\ fr.pc \in 1..Len(Code(fr.fn, fr.bb))
  /\ Code(fr.fn, fr.bb)[fr.pc].op = "call"

(* What Knows compares. *)
Entering(fr, b) == b = fr.bb /\ fr.pc = 0
EntryOf(fr, b) == IF Entering(fr, b) THEN fr.state ELSE EntryState(fr.results, b)
FromOf(fr, b)  == IF Entering(fr, b) THEN Preds(fr.fn, b) \ fr.toMerge ELSE Preds(fr.fn, b)
ExitOf(fr, p)  == IF p = fr.bb THEN fr.oldExitState ELSE ExitState(fr.results, fr.fn, p)
ArgsOf(fr)     == Without(Get(fr.results, fr.fn, Empty), fr.fn)

LEMMA KnowsIs ==
  \A fr, b : Knows(fr, b) <=>
    \/ b \in Range(fr.work)
    \/ /\ \A p \in FromOf(fr, b) : Included(ExitOf(fr, p), EntryOf(fr, b))
       /\ Entering(fr, b) \/ Included(ArgsOf(fr), EntryOf(fr, b))
BY DEF Knows, FromOf, ExitOf, EntryOf, ArgsOf, Entering

LEMMA PredsAre == \A f, b : Preds(f, b) \subseteq Blocks(f)
BY DEF Preds

(* Blocks, instructions and functions are keys of different kinds. *)
LEMMA KeysApart ==
  ASSUME mod \in Modules, NEW f \in DOMAIN mod.functions
  PROVE  /\ \A b \in Blocks(f) : b \in Keys /\ b # f /\ b \notin Value /\ b \notin FunctionName
         /\ f \in Keys /\ f \notin Value /\ f \in StateKey
         /\ \A i \in Instructions(f) : i.id \in Value /\ i.id \in Keys /\ i.id \in StateKey
<1>1. Blocks(f) \subseteq Block /\ f \in FunctionName
  BY FnIs
<1>2. \A i \in Instructions(f) : i.id \in Value
  BY InstructionIs DEF Instruction
<1> QED
  BY <1>1, <1>2, KeyAssumption DEF Keys, StateKey

LEMMA StatesAre ==
  ASSUME NEW fr \in FrameSet
  PROVE  /\ fr.results \in Results /\ fr.state \in State
         /\ fr.oldEntryState \in State /\ fr.oldExitState \in State
         /\ \A k : Get(fr.results, k, Empty) \in State
         /\ \A b : EntryState(fr.results, b) \in State
         /\ \A f, b : ExitState(fr.results, f, b) \in State
         /\ \A b : EntryOf(fr, b) \in State
         /\ \A p : ExitOf(fr, p) \in State
         /\ ArgsOf(fr) \in State
<1>1. /\ fr.results \in Results /\ fr.state \in State
      /\ fr.oldEntryState \in State /\ fr.oldExitState \in State
  BY DEF FrameSet
<1>2. \A k : Get(fr.results, k, Empty) \in State
  BY <1>1, EmptyIs, GetMap DEF Results
<1>3. /\ \A b : EntryState(fr.results, b) \in State
      /\ \A f, b : ExitState(fr.results, f, b) \in State
  BY <1>2 DEF EntryState, ExitState
<1>4. /\ \A b : EntryOf(fr, b) \in State
      /\ \A p : ExitOf(fr, p) \in State
  BY <1>1, <1>3 DEF EntryOf, ExitOf
<1>5. ArgsOf(fr) \in State
  <2> DEFINE s == Get(fr.results, fr.fn, Empty)
             t == Without(s, fr.fn)
  <2>1. s \in State
    BY <1>2
  <2> HIDE DEF s
  <2>2. DOMAIN s \subseteq StateKey /\ \A x \in DOMAIN s : s[x] \in RangeValue
    BY <2>1, MapIs DEF State
  <2>3. t \in [DOMAIN s \ {fr.fn} -> RangeValue]
    BY <2>2 DEF Without
  <2>4. DOMAIN s \ {fr.fn} \in SUBSET StateKey
    BY <2>2
  <2>5. t \in State
    BY <2>3, <2>4, IsMap DEF State
  <2> QED
    BY <2>5 DEF ArgsOf, s
<1> QED
  BY <1>1, <1>2, <1>3, <1>4, <1>5

(* A new activation has all blocks on its list. *)
LEMMA FreshFrame ==
  ASSUME mod \in Modules, NEW c \in Context, NEW f \in DOMAIN mod.functions, NEW r \in Results
  PROVE  FrameInv(Frame(c, f, r))
<1> DEFINE R == IF f \in DOMAIN r THEN r
                ELSE [k \in DOMAIN r \cup {i.id : i \in Instructions(f)} |-> Get(r, k, Empty)]
           fr == Frame(c, f, r)
<1>1. R \in Results
  <2>1. CASE f \in DOMAIN r
    BY <2>1
  <2>2. CASE f \notin DOMAIN r
    <3> DEFINE D == DOMAIN r \cup {i.id : i \in Instructions(f)}
    <3>1. D \in SUBSET Keys
      BY KeysApart, MapIs DEF Results
    <3>2. \A k : Get(r, k, Empty) \in State
      BY EmptyIs, GetMap DEF Results
    <3>3. R = [k \in D |-> Get(r, k, Empty)]
      BY <2>2
    <3> HIDE DEF D, R
    <3>4. R \in [D -> State]
      BY <3>2, <3>3
    <3> QED
      BY <3>1, <3>4, IsMap DEF Results
  <2> QED
    BY <2>1, <2>2
<1>2. /\ f \in FunctionName /\ Fn(f).blocks \in Seq(Blocks(f)) /\ Blocks(f) \subseteq Block
      /\ Blocks(f) = Range(Fn(f).blocks)
  BY FnIs DEF Blocks
<1>3. fr = [ context |-> c, fn |-> f, results |-> R, work |-> Fn(f).blocks, inList |-> Blocks(f),
             bb |-> NoBlock, toMerge |-> {}, pc |-> 0, state |-> Empty,
             oldEntryState |-> Empty, oldExitState |-> Empty ]
  BY DEF Frame
<1> HIDE DEF fr, R
<1>4. fr \in FrameSet
  BY <1>1, <1>2, <1>3, EmptyIs DEF FrameSet
<1>5. FrameOK(fr) /\ Kept(fr)
  BY <1>2, <1>3, <1>4 DEF FrameOK, Kept
<1>6. \A b \in Blocks(f) : Knows(fr, b)
  BY <1>2, <1>3, KnowsIs
<1> QED
  BY <1>3, <1>5, <1>6 DEF FrameInv, fr

(* Two keys are touched. *)
LEMMA TouchedTwice ==
  ASSUME NEW q \in Results, NEW b \in Keys, NEW x \in Keys,
         NEW r, r = Touch(Touch(q, b, Empty), x, Empty)
  PROVE  /\ r \in Results /\ b \in DOMAIN r /\ x \in DOMAIN r
         /\ \A k : Get(r, k, Empty) = Get(q, k, Empty)
<1> DEFINE u == Touch(q, b, Empty)
<1>1. q \in MapOf(Keys, State) /\ Empty \in State
  BY EmptyIs DEF Results
<1>2. u \in MapOf(Keys, State)
  BY <1>1, TouchMap
<1>3. \A k : Get(u, k, Empty) = Get(q, k, Empty)
  BY GetTouch
<1>4. DOMAIN u = DOMAIN q \cup {b}
  BY DomTouch
<1> HIDE DEF u
<1>5. r = Touch(u, x, Empty)
  BY DEF u
<1>6. r \in MapOf(Keys, State)
  BY <1>1, <1>2, <1>5, TouchMap
<1>7. \A k : Get(r, k, Empty) = Get(u, k, Empty)
  BY <1>5, GetTouch
<1>8. DOMAIN r = DOMAIN u \cup {x}
  BY <1>5, DomTouch
<1>9. r \in Results
  BY <1>6 DEF Results
<1>10. \A k : Get(r, k, Empty) = Get(q, k, Empty)
  BY <1>3, <1>7
<1>11. b \in DOMAIN r /\ x \in DOMAIN r
  BY <1>4, <1>8
<1> QED
  BY <1>9, <1>10, <1>11

(* A block is taken off the list.  Its entry is then being put together, and its
   successors know its exit so far. *)
LEMMA TakenInv ==
  ASSUME mod \in Modules, NEW fr, FrameInv(fr), fr.bb = NoBlock, fr.work # << >>,
         NEW b, b = Head(fr.work), NEW x, x = Exit(fr.fn, b).id,
         NEW r, r = Touch(Touch(fr.results, b, Empty), x, Empty),
         NEW g \in FrameSet, g.fn = fr.fn, g.results = r, g.work = Tail(fr.work),
         g.inList = fr.inList \ {b}, g.bb = b, g.toMerge = Preds(fr.fn, b), g.pc = 0,
         g.state = r[b], g.oldEntryState = r[b], g.oldExitState = r[x]
  PROVE  FrameInv(g)
<1>1. /\ fr \in FrameSet /\ fr.fn \in DOMAIN mod.functions
      /\ fr.work \in Seq(Blocks(fr.fn)) /\ fr.inList \subseteq Range(fr.work)
      /\ fr.toMerge = {} \/ fr.bb # NoBlock
      /\ \A c \in Blocks(fr.fn) : Knows(fr, c)
  BY DEF FrameInv, FrameOK, Kept
<1>2. /\ b \in Blocks(fr.fn) /\ Tail(fr.work) \in Seq(Blocks(fr.fn))
      /\ Range(fr.work) \subseteq Range(Tail(fr.work)) \cup {b}
      /\ Range(Tail(fr.work)) \subseteq Range(fr.work)
  <2> DEFINE w == fr.work
             B == Blocks(fr.fn)
  <2>1. w \in Seq(B) /\ w # << >> /\ b = Head(w)
    BY <1>1
  <2> HIDE DEF w, B
  <2>2. b \in B /\ Tail(w) \in Seq(B) /\ b = w[1] /\ Len(w) \in Nat /\ Len(w) > 0
        /\ Len(Tail(w)) = Len(w) - 1 /\ \A k \in 1..(Len(w) - 1) : Tail(w)[k] = w[k + 1]
    BY <2>1
  <2>3. DOMAIN w = 1..Len(w) /\ DOMAIN Tail(w) = 1..(Len(w) - 1)
    BY <2>1, <2>2
  <2>4. ASSUME NEW k \in DOMAIN w PROVE w[k] \in Range(Tail(w)) \cup {b}
    <3>1. CASE k = 1
      BY <2>2, <3>1
    <3>2. CASE k # 1
      <4>1. k - 1 \in DOMAIN Tail(w) /\ Tail(w)[k - 1] = w[k]
        BY <2>2, <2>3, <3>2
      <4> QED
        BY <4>1 DEF Range
    <3> QED
      BY <3>1, <3>2
  <2>5. ASSUME NEW k \in DOMAIN Tail(w) PROVE Tail(w)[k] \in Range(w)
    <3>1. k + 1 \in DOMAIN w /\ Tail(w)[k] = w[k + 1]
      BY <2>2, <2>3
    <3> QED
      BY <3>1 DEF Range
  <2>6. Range(w) \subseteq Range(Tail(w)) \cup {b} /\ Range(Tail(w)) \subseteq Range(w)
    BY <2>4, <2>5 DEF Range
  <2> QED
    BY <2>2, <2>6 DEF w, B
<1>3. /\ b \in Keys /\ x \in Keys /\ b # NoBlock /\ b \in Block
  BY <1>1, <1>2, AtIs, KeysApart, FnIs
<1>4. /\ r \in Results /\ b \in DOMAIN r /\ x \in DOMAIN r
      /\ \A k : Get(r, k, Empty) = Get(fr.results, k, Empty)
  BY <1>1, <1>3, StatesAre, TouchedTwice
<1>5. /\ r[b] = EntryState(r, b) /\ r[b] \in State
      /\ r[x] = ExitState(r, fr.fn, b) /\ r[x] \in State
  <2>1. r[b] \in State /\ r[x] \in State
    BY <1>4, MapIs DEF Results
  <2> QED
    BY <1>4, <2>1 DEF EntryState, ExitState, Get
<1>6. Preds(fr.fn, b) \in SUBSET Block
  BY <1>1, FnIs, PredsAre
<1>7. /\ g \in FrameSet /\ g.fn = fr.fn /\ g.results = r /\ g.work = Tail(fr.work)
      /\ g.inList = fr.inList \ {b} /\ g.bb = b /\ g.toMerge = Preds(fr.fn, b) /\ g.pc = 0
      /\ g.state = r[b] /\ g.oldEntryState = r[b] /\ g.oldExitState = r[x]
  OBVIOUS
<1>8. Len(Code(fr.fn, b)) \in Nat /\ Len(Code(fr.fn, b)) > 0
  BY <1>1, <1>2, AtIs
<1>9. FrameOK(g)
  BY <1>1, <1>2, <1>7, <1>8 DEF FrameOK
<1>10. Kept(g)
  BY <1>3, <1>5, <1>7, <1>8 DEF Kept
<1>11. ASSUME NEW c \in Blocks(fr.fn) PROVE Knows(g, c)
  <2>1. CASE c = b
    <3>1. Entering(g, c) /\ FromOf(g, c) = {}
      BY <1>7, <2>1 DEF FromOf, Entering
    <3> QED
      BY <3>1, KnowsIs
  <2>2. CASE c # b
    <3>1. CASE c \in Range(fr.work)
      BY <1>2, <1>7, <2>2, <3>1, KnowsIs
    <3>2. CASE c \notin Range(fr.work)
      <4>1. ~Entering(fr, c) /\ ~Entering(g, c)
        BY <1>1, <1>7, <2>2, FnIs DEF Entering
      <4>2. /\ \A p \in FromOf(fr, c) : Included(ExitOf(fr, p), EntryOf(fr, c))
            /\ Included(ArgsOf(fr), EntryOf(fr, c))
        BY <1>1, <3>2, <4>1, KnowsIs
      <4>3. FromOf(g, c) = FromOf(fr, c)
        BY <1>7, <4>1 DEF FromOf
      <4>4. EntryOf(g, c) = EntryOf(fr, c)
        BY <1>4, <1>7, <4>1 DEF EntryOf, EntryState
      <4>5. ArgsOf(g) = ArgsOf(fr)
        BY <1>4, <1>7 DEF ArgsOf
      <4>6. ASSUME NEW p \in FromOf(fr, c) PROVE ExitOf(g, p) = ExitOf(fr, p)
        <5>1. p \in Blocks(fr.fn) /\ p # fr.bb
          BY <1>1, <4>1, FnIs, PredsAre DEF FromOf
        <5>2. ExitOf(fr, p) = ExitState(r, fr.fn, p)
          BY <1>4, <5>1 DEF ExitOf, ExitState
        <5> QED
          BY <1>5, <1>7, <5>2 DEF ExitOf
      <4>7. ASSUME NEW p \in FromOf(g, c) PROVE Included(ExitOf(g, p), EntryOf(g, c))
        <5>1. p \in FromOf(fr, c)
          BY <4>3
        <5>2. Included(ExitOf(fr, p), EntryOf(fr, c))
          BY <4>2, <5>1
        <5> QED
          BY <4>4, <4>6, <5>1, <5>2
      <4>8. Included(ArgsOf(g), EntryOf(g, c))
        BY <4>2, <4>4, <4>5
      <4> QED
        BY <4>7, <4>8, KnowsIs
    <3> QED
      BY <3>1, <3>2
  <2> QED
    BY <2>1, <2>2
<1> QED
  BY <1>7, <1>9, <1>10, <1>11 DEF FrameInv

(* What Knows says of a block stays when what it compares does. *)
LEMMA KnowsSame ==
  ASSUME NEW fr, NEW g, NEW c, Knows(fr, c), Range(fr.work) \subseteq Range(g.work),
         Entering(fr, c) => Entering(g, c), FromOf(g, c) = FromOf(fr, c),
         EntryOf(g, c) = EntryOf(fr, c), ArgsOf(g) = ArgsOf(fr),
         \A p \in FromOf(fr, c) : ExitOf(g, p) = ExitOf(fr, p)
  PROVE  Knows(g, c)
<1>1. CASE c \in Range(fr.work)
  BY <1>1, KnowsIs
<1>2. CASE c \notin Range(fr.work)
  <2>1. /\ \A p \in FromOf(fr, c) : Included(ExitOf(fr, p), EntryOf(fr, c))
        /\ Entering(fr, c) \/ Included(ArgsOf(fr), EntryOf(fr, c))
    BY <1>2, KnowsIs
  <2>2. ASSUME NEW p \in FromOf(g, c) PROVE Included(ExitOf(g, p), EntryOf(g, c))
    BY <2>1
  <2>3. Entering(g, c) \/ Included(ArgsOf(g), EntryOf(g, c))
    BY <2>1
  <2> QED
    BY <2>2, <2>3, KnowsIs
<1> QED
  BY <1>1, <1>2

(* A predecessor is merged. *)
LEMMA MergedInv ==
  ASSUME mod \in Modules, NEW fr, FrameInv(fr), NEW p \in fr.toMerge,
         NEW s, s = Merge(fr.state, Get(fr.results, Exit(fr.fn, p).id, Empty)),
         NEW g \in FrameSet, g.fn = fr.fn, g.results = fr.results, g.work = fr.work,
         g.inList = fr.inList, g.bb = fr.bb, g.toMerge = fr.toMerge \ {p}, g.pc = fr.pc,
         g.state = s, g.oldEntryState = fr.oldEntryState, g.oldExitState = fr.oldExitState
  PROVE  FrameInv(g)
<1>1. /\ fr \in FrameSet /\ fr.fn \in DOMAIN mod.functions
      /\ fr.work \in Seq(Blocks(fr.fn)) /\ fr.inList \subseteq Range(fr.work)
      /\ fr.bb \in Blocks(fr.fn) /\ fr.bb # NoBlock /\ fr.pc = 0
      /\ fr.toMerge \subseteq Preds(fr.fn, fr.bb)
      /\ fr.oldEntryState = EntryState(fr.results, fr.bb)
      /\ fr.oldExitState = ExitState(fr.results, fr.fn, fr.bb)
  BY DEF FrameInv, FrameOK, Kept
<1>2. \A c \in Blocks(fr.fn) : Knows(fr, c)
  BY DEF FrameInv
<1>3. Len(Code(fr.fn, fr.bb)) \in Nat /\ Len(Code(fr.fn, fr.bb)) > 0
  BY <1>1, AtIs
<1>4. FrameOK(g)
  BY <1>1, <1>3 DEF FrameOK
<1>5. Kept(g)
  BY <1>1, <1>3 DEF Kept
<1>6. ASSUME NEW c \in Blocks(fr.fn) PROVE Knows(g, c)
  <2>1. /\ Entering(g, c) <=> Entering(fr, c)
        /\ ArgsOf(g) = ArgsOf(fr)
        /\ \A q : ExitOf(g, q) = ExitOf(fr, q)
    BY DEF Entering, ArgsOf, ExitOf
  <2>2. CASE c # fr.bb
    <3>1. FromOf(g, c) = FromOf(fr, c) /\ EntryOf(g, c) = EntryOf(fr, c)
      BY <2>2 DEF FromOf, EntryOf, Entering
    <3> QED
      BY <1>2, <2>1, <3>1, KnowsSame
  <2>3. CASE c = fr.bb /\ c \in Range(fr.work)
    BY <2>3, KnowsIs
  <2>4. CASE c = fr.bb /\ c \notin Range(fr.work)
    <3>1. Entering(fr, c) /\ Entering(g, c)
      BY <1>1, <2>4 DEF Entering
    <3>2. EntryOf(fr, c) = fr.state /\ EntryOf(g, c) = s
      BY <3>1 DEF EntryOf
    <3>3. FromOf(g, c) \subseteq FromOf(fr, c) \cup {p}
      BY <3>1 DEF FromOf
    <3> DEFINE e == Get(fr.results, Exit(fr.fn, p).id, Empty)
    <3>4. fr.state \in State /\ e \in State
      BY <1>1, StatesAre
    <3>5. s \in State /\ Included(fr.state, s) /\ Included(e, s)
      <4> HIDE DEF e
      <4>1. s = Merge(fr.state, e)
        BY DEF e
      <4> QED
        BY <3>4, <4>1, MergeStates
    <3>6. ExitOf(g, p) = e
      BY <1>1 DEF ExitOf, ExitState
    <3>7. ASSUME NEW q \in FromOf(fr, c) PROVE Included(ExitOf(g, q), s)
      <4>1. Included(ExitOf(fr, q), fr.state)
        BY <1>2, <2>4, <3>2, <3>7, KnowsIs
      <4>2. ExitOf(fr, q) \in State
        BY <1>1, StatesAre
      <4> QED
        BY <2>1, <3>4, <3>5, <4>1, <4>2, IncludedIn
    <3> HIDE DEF e
    <3>8. \A q \in FromOf(g, c) : Included(ExitOf(g, q), EntryOf(g, c))
      BY <3>2, <3>3, <3>5, <3>6, <3>7
    <3> QED
      BY <3>1, <3>8, KnowsIs
  <2> QED
    BY <2>2, <2>3, <2>4
<1> QED
  BY <1>4, <1>5, <1>6 DEF FrameInv

(* A block is being entered: what the facts above say then. *)
LEMMA EnteringIs ==
  ASSUME mod \in Modules, NEW fr, FrameInv(fr), fr.bb # NoBlock, fr.pc = 0, fr.toMerge = {}
  PROVE  /\ fr \in FrameSet /\ fr.fn \in DOMAIN mod.functions
         /\ fr.work \in Seq(Blocks(fr.fn)) /\ fr.inList \subseteq Range(fr.work)
         /\ fr.bb \in Blocks(fr.fn)
         /\ fr.oldEntryState = EntryState(fr.results, fr.bb)
         /\ \A p : ExitOf(fr, p) = ExitState(fr.results, fr.fn, p)
         /\ Entered(fr) \in State /\ Included(ArgsOf(fr), Entered(fr))
         /\ fr.bb \in Range(fr.work)
              \/ \A p \in Preds(fr.fn, fr.bb) : Included(ExitOf(fr, p), Entered(fr))
<1>1. /\ fr \in FrameSet /\ fr.fn \in DOMAIN mod.functions
      /\ fr.work \in Seq(Blocks(fr.fn)) /\ fr.inList \subseteq Range(fr.work)
      /\ fr.bb \in Blocks(fr.fn)
      /\ fr.oldEntryState = EntryState(fr.results, fr.bb)
      /\ fr.oldExitState = ExitState(fr.results, fr.fn, fr.bb)
  BY DEF FrameInv, FrameOK, Kept
<1>2. \A p : ExitOf(fr, p) = ExitState(fr.results, fr.fn, p)
  BY <1>1 DEF ExitOf
<1> DEFINE a == Get(fr.results, fr.fn, Empty)
<1>3. fr.state \in State /\ a \in State /\ ArgsOf(fr) = Without(a, fr.fn) /\ ArgsOf(fr) \in State
      /\ \A p : ExitOf(fr, p) \in State
  BY <1>1, StatesAre DEF ArgsOf
<1>4. Entered(fr) = Merge(fr.state, a)
  BY DEF Entered
<1> HIDE DEF a
<1>5. Entered(fr) \in State /\ Included(fr.state, Entered(fr)) /\ Included(a, Entered(fr))
  BY <1>3, <1>4, MergeStates
<1>6. Included(ArgsOf(fr), a)
  BY <1>3, WithoutIncluded
<1>7. Included(ArgsOf(fr), Entered(fr))
  BY <1>3, <1>5, <1>6, IncludedIn
<1>8. ASSUME fr.bb \notin Range(fr.work), NEW p \in Preds(fr.fn, fr.bb)
      PROVE  Included(ExitOf(fr, p), Entered(fr))
  <2>1. Entering(fr, fr.bb) /\ FromOf(fr, fr.bb) = Preds(fr.fn, fr.bb)
        /\ EntryOf(fr, fr.bb) = fr.state
    BY DEF Entering, FromOf, EntryOf
  <2>2. Knows(fr, fr.bb)
    BY <1>1 DEF FrameInv
  <2>3. Included(ExitOf(fr, p), fr.state)
    BY <1>8, <2>1, <2>2, KnowsIs
  <2> QED
    BY <1>3, <1>5, <2>3, IncludedIn
<1> QED
  BY <1>1, <1>2, <1>5, <1>7, <1>8

(* A block with the entry it had is skipped. *)
LEMMA SkippedInv ==
  ASSUME mod \in Modules, NEW fr, FrameInv(fr), fr.bb # NoBlock, fr.pc = 0, fr.toMerge = {},
         Entered(fr) = fr.oldEntryState,
         NEW r, r = Touch(fr.results, fr.fn, Empty),
         NEW g \in FrameSet, g.fn = fr.fn, g.results = r, g.work = fr.work,
         g.inList = fr.inList, g.bb = NoBlock, g.toMerge = {}, g.pc = fr.pc
  PROVE  FrameInv(g)
<1>1. /\ fr \in FrameSet /\ fr.fn \in DOMAIN mod.functions
      /\ fr.work \in Seq(Blocks(fr.fn)) /\ fr.inList \subseteq Range(fr.work)
      /\ fr.bb \in Blocks(fr.fn)
      /\ fr.oldEntryState = EntryState(fr.results, fr.bb)
      /\ \A p : ExitOf(fr, p) = ExitState(fr.results, fr.fn, p)
  BY EnteringIs
<1>2. /\ Included(ArgsOf(fr), Entered(fr))
      /\ fr.bb \in Range(fr.work)
           \/ \A p \in Preds(fr.fn, fr.bb) : Included(ExitOf(fr, p), Entered(fr))
  BY EnteringIs
<1>3. \A k : Get(r, k, Empty) = Get(fr.results, k, Empty)
  BY GetTouch
<1>4. NoBlock \notin Blocks(fr.fn)
  BY <1>1, FnIs
<1>5. FrameOK(g) /\ Kept(g)
  BY <1>1 DEF FrameOK, Kept
<1>6. ASSUME NEW c \in Blocks(fr.fn) PROVE Knows(g, c)
  <2>1. ~Entering(g, c) /\ FromOf(g, c) = Preds(fr.fn, c) /\ ArgsOf(g) = ArgsOf(fr)
        /\ EntryOf(g, c) = EntryState(fr.results, c)
    BY <1>3, <1>4 DEF Entering, FromOf, ArgsOf, EntryOf, EntryState
  <2>2. ASSUME NEW p \in Preds(fr.fn, c) PROVE ExitOf(g, p) = ExitOf(fr, p)
    <3>1. p # NoBlock
      BY <1>4, PredsAre
    <3> QED
      BY <1>1, <1>3, <3>1 DEF ExitOf, ExitState
  <2>3. CASE c # fr.bb
    <3>1. ~Entering(fr, c) /\ FromOf(fr, c) = Preds(fr.fn, c)
          /\ EntryOf(fr, c) = EntryState(fr.results, c)
      BY <2>3 DEF Entering, FromOf, EntryOf
    <3>2. Knows(fr, c)
      BY DEF FrameInv
    <3> QED
      BY <2>1, <2>2, <3>1, <3>2, KnowsSame
  <2>4. CASE c = fr.bb
    <3>1. EntryOf(g, c) = Entered(fr)
      BY <1>1, <2>1, <2>4
    <3>2. c \in Range(g.work)
            \/ \A p \in FromOf(g, c) : Included(ExitOf(g, p), EntryOf(g, c))
      BY <1>2, <2>1, <2>2, <2>4, <3>1
    <3>3. Included(ArgsOf(g), EntryOf(g, c))
      BY <1>2, <2>1, <3>1
    <3> QED
      BY <3>2, <3>3, KnowsIs
  <2> QED
    BY <2>3, <2>4
<1> QED
  BY <1>5, <1>6 DEF FrameInv

(* A block is entered. *)
LEMMA EnteredInv ==
  ASSUME mod \in Modules, NEW fr, FrameInv(fr), fr.bb # NoBlock, fr.pc = 0, fr.toMerge = {},
         NEW r, r = Set(Touch(fr.results, fr.fn, Empty), fr.bb, Entered(fr)),
         NEW g \in FrameSet, g.fn = fr.fn, g.results = r, g.work = fr.work,
         g.inList = fr.inList, g.bb = fr.bb, g.toMerge = {}, g.pc = 1, g.state = Entered(fr),
         g.oldExitState = fr.oldExitState
  PROVE  FrameInv(g)
<1>1. /\ fr \in FrameSet /\ fr.fn \in DOMAIN mod.functions
      /\ fr.work \in Seq(Blocks(fr.fn)) /\ fr.inList \subseteq Range(fr.work)
      /\ fr.bb \in Blocks(fr.fn)
      /\ \A p : ExitOf(fr, p) = ExitState(fr.results, fr.fn, p)
  BY EnteringIs
<1>2. /\ Included(ArgsOf(fr), Entered(fr))
      /\ fr.bb \in Range(fr.work)
           \/ \A p \in Preds(fr.fn, fr.bb) : Included(ExitOf(fr, p), Entered(fr))
  BY EnteringIs
<1>3. /\ Get(r, fr.bb, Empty) = Entered(fr)
      /\ \A k : k # fr.bb => Get(r, k, Empty) = Get(fr.results, k, Empty)
  <2> DEFINE u == Touch(fr.results, fr.fn, Empty)
             e == Entered(fr)
  <2>1. \A k : Get(u, k, Empty) = Get(fr.results, k, Empty)
    BY GetTouch
  <2> HIDE DEF u, e
  <2>2. r = Set(u, fr.bb, e)
    BY DEF u, e
  <2>3. Get(r, fr.bb, Empty) = e
    BY <2>2, GetSet
  <2>4. \A k : k # fr.bb => Get(r, k, Empty) = Get(u, k, Empty)
    BY <2>2, GetSet
  <2> QED
    BY <2>1, <2>3, <2>4 DEF e
<1>4. Len(Code(fr.fn, fr.bb)) \in Nat /\ Len(Code(fr.fn, fr.bb)) > 0
  BY <1>1, AtIs
<1>5. FrameOK(g) /\ Kept(g)
  BY <1>1, <1>4 DEF FrameOK, Kept
<1>6. ArgsOf(g) = ArgsOf(fr)
  <2>1. fr.fn # fr.bb
    BY <1>1, KeysApart
  <2> QED
    BY <1>3, <2>1 DEF ArgsOf
<1>7. ASSUME NEW p \in Blocks(fr.fn) PROVE ExitOf(g, p) = ExitOf(fr, p)
  <2>1. CASE p = fr.bb
    BY <2>1 DEF ExitOf
  <2>2. CASE p # fr.bb
    <3>1. Exit(fr.fn, p).id # fr.bb
      BY <1>1, AtIs, KeysApart
    <3> QED
      BY <1>1, <1>3, <2>2, <3>1 DEF ExitOf, ExitState
  <2> QED
    BY <2>1, <2>2
<1>8. ASSUME NEW c \in Blocks(fr.fn) PROVE Knows(g, c)
  <2>1. ~Entering(g, c) /\ FromOf(g, c) = Preds(fr.fn, c) /\ EntryOf(g, c) = EntryState(r, c)
    BY DEF Entering, FromOf, EntryOf
  <2>2. \A p \in Preds(fr.fn, c) : ExitOf(g, p) = ExitOf(fr, p)
    BY <1>7, PredsAre
  <2>3. CASE c # fr.bb
    <3>1. ~Entering(fr, c) /\ FromOf(fr, c) = Preds(fr.fn, c)
          /\ EntryOf(fr, c) = EntryState(fr.results, c)
      BY <2>3 DEF Entering, FromOf, EntryOf
    <3>2. Knows(fr, c)
      BY DEF FrameInv
    <3>3. EntryOf(g, c) = EntryOf(fr, c)
      BY <1>3, <2>1, <2>3, <3>1 DEF EntryState
    <3> QED
      BY <1>6, <2>1, <2>2, <3>1, <3>2, <3>3, KnowsSame
  <2>4. CASE c = fr.bb
    <3>1. EntryOf(g, c) = Entered(fr)
      BY <1>3, <2>1, <2>4 DEF EntryState
    <3>2. c \in Range(g.work)
            \/ \A p \in FromOf(g, c) : Included(ExitOf(g, p), EntryOf(g, c))
      BY <1>2, <2>1, <2>2, <2>4, <3>1
    <3>3. Included(ArgsOf(g), EntryOf(g, c))
      BY <1>2, <1>6, <3>1
    <3> QED
      BY <3>2, <3>3, KnowsIs
  <2> QED
    BY <2>3, <2>4
<1> QED
  BY <1>5, <1>8 DEF FrameInv

(* Behind the entry of a block what is known does not depend on the state. *)
LEMMA VisitingIs ==
  ASSUME mod \in Modules, NEW fr, FrameInv(fr), fr.bb # NoBlock, fr.pc # 0
  PROVE  /\ fr \in FrameSet /\ fr.fn \in DOMAIN mod.functions
         /\ fr.work \in Seq(Blocks(fr.fn)) /\ fr.inList \subseteq Range(fr.work)
         /\ fr.bb \in Blocks(fr.fn) /\ fr.toMerge = {}
         /\ fr.pc \in 1..(Len(Code(fr.fn, fr.bb)) + 1)
         /\ \A c : /\ ~Entering(fr, c) /\ FromOf(fr, c) = Preds(fr.fn, c)
                   /\ EntryOf(fr, c) = EntryState(fr.results, c)
<1>1. /\ fr \in FrameSet /\ fr.fn \in DOMAIN mod.functions
      /\ fr.work \in Seq(Blocks(fr.fn)) /\ fr.inList \subseteq Range(fr.work)
      /\ fr.bb \in Blocks(fr.fn) /\ fr.toMerge = {} /\ fr.pc =< Len(Code(fr.fn, fr.bb)) + 1
  BY DEF FrameInv, FrameOK, Kept
<1>2. Len(Code(fr.fn, fr.bb)) \in Nat
  BY <1>1, AtIs
<1>3. fr.pc \in Nat
  BY <1>1 DEF FrameSet
<1>4. fr.pc \in 1..(Len(Code(fr.fn, fr.bb)) + 1)
  BY <1>1, <1>2, <1>3
<1> QED
  BY <1>1, <1>4 DEF Entering, FromOf, EntryOf

(* An instruction's state is recorded. *)
LEMMA AfterInv ==
  ASSUME mod \in Modules, NEW fr, FrameInv(fr), fr.bb # NoBlock,
         fr.pc \in 1..Len(Code(fr.fn, fr.bb)),
         NEW i, i = Code(fr.fn, fr.bb)[fr.pc], NEW s \in State,
         NEW r, r = Set(fr.results, i.id, s),
         NEW g \in FrameSet, g.fn = fr.fn, g.results = r, g.work = fr.work,
         g.inList = fr.inList, g.bb = fr.bb, g.toMerge = fr.toMerge, g.pc = fr.pc + 1,
         g.state = s, g.oldExitState = fr.oldExitState
  PROVE  FrameInv(g)
<1>1. /\ fr \in FrameSet /\ fr.fn \in DOMAIN mod.functions
      /\ fr.work \in Seq(Blocks(fr.fn)) /\ fr.inList \subseteq Range(fr.work)
      /\ fr.bb \in Blocks(fr.fn) /\ fr.toMerge = {}
      /\ \A c : /\ ~Entering(fr, c) /\ FromOf(fr, c) = Preds(fr.fn, c)
                /\ EntryOf(fr, c) = EntryState(fr.results, c)
  BY VisitingIs
<1>2. /\ Len(Code(fr.fn, fr.bb)) \in Nat /\ DOMAIN Code(fr.fn, fr.bb) = 1..Len(Code(fr.fn, fr.bb))
      /\ i \in Instructions(fr.fn) /\ fr.pc \in Nat
  BY <1>1, AtIs
<1>3. /\ Get(r, i.id, Empty) = s
      /\ \A k : k # i.id => Get(r, k, Empty) = Get(fr.results, k, Empty)
  BY GetSet
<1>4. FrameOK(g)
  BY <1>1, <1>2 DEF FrameOK
<1>5. Kept(g)
  <2>1. fr.pc + 1 = Len(Code(fr.fn, fr.bb)) + 1 => i = Exit(fr.fn, fr.bb)
    BY <1>2 DEF Exit
  <2>2. g.pc = Len(Code(g.fn, g.bb)) + 1 => g.state = ExitState(g.results, g.fn, g.bb)
    BY <1>3, <2>1 DEF ExitState
  <2> QED
    BY <1>1, <1>2, <2>2 DEF Kept
<1>6. ASSUME NEW p \in Blocks(fr.fn) PROVE ExitOf(g, p) = ExitOf(fr, p)
  <2>1. CASE p = fr.bb
    BY <2>1 DEF ExitOf
  <2>2. CASE p # fr.bb
    <3> DEFINE last == Len(Code(fr.fn, p))
    <3>1. last \in DOMAIN Code(fr.fn, p) /\ Exit(fr.fn, p) = Code(fr.fn, p)[last]
      BY <1>1, AtIs DEF Exit
    <3> HIDE DEF last
    <3>2. Exit(fr.fn, p).id # i.id
      BY <1>1, <1>2, <2>2, <3>1, OnePlace
    <3> QED
      BY <1>3, <2>2, <3>2 DEF ExitOf, ExitState
  <2> QED
    BY <2>1, <2>2
<1>7. ASSUME NEW c \in Blocks(fr.fn) PROVE Knows(g, c)
  <2>1. ~Entering(g, c) /\ FromOf(g, c) = Preds(fr.fn, c) /\ EntryOf(g, c) = EntryState(r, c)
    BY <1>2 DEF Entering, FromOf, EntryOf
  <2>2. c # i.id /\ fr.fn # i.id
    BY <1>1, <1>2, KeysApart
  <2>3. EntryOf(g, c) = EntryOf(fr, c) /\ ArgsOf(g) = ArgsOf(fr)
    BY <1>1, <1>3, <2>1, <2>2 DEF EntryState, ArgsOf
  <2>4. \A p \in FromOf(fr, c) : ExitOf(g, p) = ExitOf(fr, p)
    BY <1>1, <1>6, PredsAre
  <2>5. Knows(fr, c)
    BY DEF FrameInv
  <2> QED
    BY <1>1, <2>1, <2>3, <2>4, <2>5, KnowsSame
<1> QED
  BY <1>4, <1>5, <1>7 DEF FrameInv

(* An activation waits for the function it calls, with its operands asked for. *)
LEMMA CallingInv ==
  ASSUME mod \in Modules, NEW fr, FrameInv(fr), fr.bb # NoBlock,
         fr.pc \in 1..Len(Code(fr.fn, fr.bb)),
         NEW g \in FrameSet, g.fn = fr.fn, g.results = fr.results, g.work = fr.work,
         g.inList = fr.inList, g.bb = fr.bb, g.toMerge = fr.toMerge, g.pc = fr.pc,
         g.oldExitState = fr.oldExitState
  PROVE  FrameInv(g)
<1>1. /\ fr \in FrameSet /\ fr.fn \in DOMAIN mod.functions
      /\ fr.work \in Seq(Blocks(fr.fn)) /\ fr.inList \subseteq Range(fr.work)
      /\ fr.bb \in Blocks(fr.fn) /\ fr.toMerge = {}
      /\ \A c : /\ ~Entering(fr, c) /\ FromOf(fr, c) = Preds(fr.fn, c)
                /\ EntryOf(fr, c) = EntryState(fr.results, c)
  BY VisitingIs
<1>2. Len(Code(fr.fn, fr.bb)) \in Nat /\ fr.pc \in Nat
  BY <1>1, AtIs
<1>3. FrameOK(g) /\ Kept(g)
  BY <1>1, <1>2 DEF FrameOK, Kept
<1>4. ASSUME NEW c \in Blocks(fr.fn) PROVE Knows(g, c)
  <2>1. /\ ~Entering(g, c) /\ FromOf(g, c) = FromOf(fr, c) /\ EntryOf(g, c) = EntryOf(fr, c)
        /\ ArgsOf(g) = ArgsOf(fr) /\ \A p : ExitOf(g, p) = ExitOf(fr, p)
    BY <1>1, <1>2 DEF Entering, FromOf, EntryOf, ArgsOf, ExitOf
  <2>2. Knows(fr, c)
    BY DEF FrameInv
  <2> QED
    BY <1>1, <2>1, <2>2, KnowsSame
<1> QED
  BY <1>3, <1>4 DEF FrameInv

(* A block is left whose exit state is the old one. *)
LEMMA LeftSameInv ==
  ASSUME mod \in Modules, NEW fr, FrameInv(fr), fr.bb # NoBlock,
         fr.pc = Len(Code(fr.fn, fr.bb)) + 1, fr.state = fr.oldExitState,
         NEW g \in FrameSet, g.fn = fr.fn, g.results = fr.results, g.work = fr.work,
         g.inList = fr.inList, g.bb = NoBlock, g.toMerge = fr.toMerge
  PROVE  FrameInv(g)
<1>1. /\ fr.fn \in DOMAIN mod.functions /\ fr.bb \in Blocks(fr.fn)
      /\ fr.work \in Seq(Blocks(fr.fn)) /\ fr.inList \subseteq Range(fr.work)
      /\ fr.state = ExitState(fr.results, fr.fn, fr.bb)
  BY DEF FrameInv, FrameOK, Kept
<1>2. fr.pc # 0
  BY <1>1, AtIs
<1>3. /\ fr.toMerge = {}
      /\ \A c : /\ ~Entering(fr, c) /\ FromOf(fr, c) = Preds(fr.fn, c)
                /\ EntryOf(fr, c) = EntryState(fr.results, c)
  BY <1>2, VisitingIs
<1>4. NoBlock \notin Blocks(fr.fn)
  BY <1>1, FnIs
<1>5. FrameOK(g) /\ Kept(g)
  BY <1>1, <1>3 DEF FrameOK, Kept
<1>6. ASSUME NEW c \in Blocks(fr.fn) PROVE Knows(g, c)
  <2>1. /\ ~Entering(g, c) /\ FromOf(g, c) = FromOf(fr, c) /\ EntryOf(g, c) = EntryOf(fr, c)
        /\ ArgsOf(g) = ArgsOf(fr)
    BY <1>3, <1>4 DEF Entering, FromOf, EntryOf, ArgsOf
  <2>2. ASSUME NEW p \in FromOf(fr, c) PROVE ExitOf(g, p) = ExitOf(fr, p)
    <3>1. p # NoBlock
      BY <1>3, <1>4, PredsAre
    <3> QED
      BY <1>1, <3>1 DEF ExitOf
  <2>3. Knows(fr, c)
    BY DEF FrameInv
  <2> QED
    BY <1>3, <2>1, <2>2, <2>3, KnowsSame
<1> QED
  BY <1>5, <1>6 DEF FrameInv

(* The work list with the successors of a block: what was on it stays there,
   and every successor is on it. *)
LEMMA SuccessorsAdded ==
  ASSUME mod \in Modules, NEW fr, fr.fn \in DOMAIN mod.functions, fr.bb \in Blocks(fr.fn),
         fr.work \in Seq(Blocks(fr.fn)), fr.inList \subseteq Range(fr.work)
  PROVE  /\ WithSuccessors(fr) \in Seq(Blocks(fr.fn))
         /\ Range(fr.work) \subseteq Range(WithSuccessors(fr))
         /\ Succs(fr.fn, fr.bb) \subseteq Range(WithSuccessors(fr))
<1> DEFINE S == Fn(fr.fn).succ[fr.bb]
           n == Len(S)
           A == {w \in Seq(Blocks(fr.fn)) : Range(fr.work) \subseteq Range(w)}
           B(w, k) == IF k = 0 THEN fr.work ELSE Added(fr, w[k - 1], S[k])
           H == [k \in 1..n |-> [w \in A |-> Added(fr, w, S[k])]]
           O == CHOOSE w : w = [k \in 0..n |-> B(w, k)]
<1>1. n \in Nat /\ S \in Seq(Blocks(fr.fn)) /\ \A k \in 1..n : S[k] \in Blocks(fr.fn)
  BY FnIs
<1>2. ASSUME NEW w \in A, NEW b \in Blocks(fr.fn)
      PROVE  /\ Added(fr, w, b) \in A /\ b \in Range(Added(fr, w, b))
             /\ Range(w) \subseteq Range(Added(fr, w, b))
  <2>1. CASE b \in fr.inList
    BY <2>1 DEF Added
  <2>2. CASE b \notin fr.inList
    <3> DEFINE u == Append(w, b)
               T == Blocks(fr.fn)
    <3>1. Added(fr, w, b) = u /\ w \in Seq(T) /\ b \in T
      BY <2>2 DEF Added
    <3> HIDE DEF u, T
    <3>2. /\ u \in Seq(T) /\ Len(w) \in Nat /\ DOMAIN w = 1..Len(w) /\ DOMAIN u = 1..(Len(w) + 1)
          /\ u[Len(w) + 1] = b /\ \A k \in 1..Len(w) : u[k] = w[k]
      BY <3>1 DEF u
    <3>3. b \in Range(u) /\ Range(w) \subseteq Range(u)
      BY <3>2 DEF Range
    <3> QED
      BY <3>1, <3>2, <3>3 DEF T
  <2> QED
    BY <2>1, <2>2
<1>3. fr.work \in A
  OBVIOUS
<1>4. WithSuccessors(fr) = O[n]
  BY DEF WithSuccessors
<1>5. \A k \in 1..n : \A w \in A :
        /\ Added(fr, w, S[k]) \in A /\ S[k] \in Range(Added(fr, w, S[k]))
        /\ Range(w) \subseteq Range(Added(fr, w, S[k]))
  BY <1>1, <1>2
<1> HIDE DEF A
<1>6. H \in [1..n -> [A -> A]]
  <2> HIDE DEF n, S
  <2> QED
    BY <1>5
<1>7. PICK w : IsChain(n, A, fr.work, H, w)
  <2> HIDE DEF n, H
  <2> QED
    BY <1>1, <1>3, <1>6, Recursion
<1> USE DEF IsChain
<1>8. w = [k \in 0..n |-> B(w, k)]
  <2>1. ASSUME NEW k \in 0..n PROVE w[k] = B(w, k)
    <3>1. CASE k = 0
      BY <1>7, <3>1
    <3>2. CASE k # 0
      <4>1. k \in 1..n /\ k - 1 \in 0..n
        BY <1>1, <3>2
      <4>2. w[k - 1] \in A /\ w[k] = H[k][w[k - 1]]
        BY <1>7, <4>1
      <4>3. H[k][w[k - 1]] = Added(fr, w[k - 1], S[k])
        BY <4>1, <4>2
      <4> QED
        BY <3>2, <4>2, <4>3
    <3> QED
      BY <3>1, <3>2
  <2> HIDE DEF B
  <2> QED
    BY <1>7, <2>1
<1>9. O = [k \in 0..n |-> B(O, k)]
  <2>1. O = CHOOSE v : v = [k \in 0..n |-> B(v, k)]
    OBVIOUS
  <2> HIDE DEF O, B
  <2> QED
    BY <1>8, <2>1
<1> HIDE DEF O
<1>10. ASSUME NEW k \in 0..n PROVE O[k] = B(O, k)
  <2> HIDE DEF B
  <2> QED
    BY <1>9
<1>11. O[0] = fr.work /\ \A k \in 1..n : O[k] = Added(fr, O[k - 1], S[k])
  BY <1>1, <1>10
<1>12. 0..n \subseteq {k \in 0..n : O[k] \in A /\ \A j \in 1..k : S[j] \in Range(O[k])}
  <2> DEFINE I == {k \in 0..n : O[k] \in A /\ \A j \in 1..k : S[j] \in Range(O[k])}
  <2>1. 0 \in I
    BY <1>1, <1>3, <1>11
  <2>2. ASSUME NEW k \in 1..n, k - 1 \in I PROVE k \in I
    <3>1. O[k - 1] \in A /\ \A j \in 1..(k - 1) : S[j] \in Range(O[k - 1])
      BY <2>2
    <3>2. /\ O[k] \in A /\ S[k] \in Range(O[k]) /\ Range(O[k - 1]) \subseteq Range(O[k])
      BY <1>5, <1>11, <3>1
    <3>3. ASSUME NEW j \in 1..k PROVE S[j] \in Range(O[k])
      <4>1. j = k \/ j \in 1..(k - 1)
        BY <1>1
      <4> QED
        BY <3>1, <3>2, <4>1
    <3> QED
      BY <1>1, <3>2, <3>3
  <2> HIDE DEF I, n
  <2> QED
    BY <1>1, <2>1, <2>2, UpTo DEF I
<1>13. O[n] \in A /\ \A j \in 1..n : S[j] \in Range(O[n])
  BY <1>1, <1>12
<1>14. ASSUME NEW b \in Succs(fr.fn, fr.bb) PROVE b \in Range(O[n])
  <2>1. PICK j \in 1..n : b = S[j]
    BY <1>1 DEF Succs, Range
  <2> QED
    BY <1>13, <2>1
<1> QED
  BY <1>4, <1>13, <1>14 DEF A

LEMMA WithoutSet == \A s, f, v : Without(Set(s, f, v), f) = Without(s, f)
<1> TAKE s, f, v
<1> DEFINE t == Set(s, f, v)
<1>1. DOMAIN t = DOMAIN s \cup {f}
  BY SetIs
<1>2. \A x \in DOMAIN s : x # f => t[x] = s[x]
  BY SetIs
<1> HIDE DEF t
<1>3. DOMAIN t \ {f} = DOMAIN s \ {f} /\ \A x \in DOMAIN s \ {f} : t[x] = s[x]
  BY <1>1, <1>2
<1>4. Without(t, f) = Without(s, f)
  BY <1>3 DEF Without
<1> QED
  BY <1>4 DEF t

(* A return changes what is recorded of the returned value only. *)
LEMMA ReturnIs ==
  ASSUME mod \in Modules, NEW fr \in FrameSet, fr.fn \in DOMAIN mod.functions,
         NEW i \in Instructions(fr.fn), NEW r, r = WithReturn(fr, i)
  PROVE  /\ r \in Results
         /\ \A k : k # fr.fn => Get(r, k, Empty) = Get(fr.results, k, Empty)
         /\ Without(Get(r, fr.fn, Empty), fr.fn) = ArgsOf(fr)
<1> DEFINE f == fr.fn
           s == Get(fr.results, f, Empty)
           a == Get(s, f, Unknown)
           b == ReturnValue(i, fr.state)
           v == Join(a, b)
           t == Set(s, f, v)
<1>1. r = Set(fr.results, f, t)
  BY DEF WithReturn
<1>2. /\ s \in State /\ fr.state \in State /\ fr.results \in Results
      /\ f \in Keys /\ f \in StateKey
  BY StatesAre, KeysApart
<1>3. Unknown \in RangeValue
  BY RangeShapes
<1>4. a \in RangeValue
  <2> HIDE DEF s, f
  <2> QED
    BY <1>2, <1>3, GetMap DEF State
<1>5. b \in RangeValue
  <2>1. b = Unknown \/ b = Get(fr.state, i.args[1], Unknown)
    BY DEF ReturnValue
  <2>2. Get(fr.state, i.args[1], Unknown) \in RangeValue
    BY <1>2, <1>3, GetMap DEF State
  <2> QED
    BY <1>3, <2>1, <2>2
<1>6. v \in RangeValue
  <2> HIDE DEF a, b
  <2> QED
    BY <1>4, <1>5, JoinAbove
<1>7. t \in State
  <2> HIDE DEF v, s, f
  <2> QED
    BY <1>2, <1>6, SetMap DEF State
<1>8. Without(t, f) = ArgsOf(fr)
  <2>1. Without(t, f) = Without(s, f)
    BY WithoutSet
  <2> QED
    BY <2>1 DEF ArgsOf
<1> HIDE DEF t, f
<1>9. r \in Results
  BY <1>1, <1>2, <1>7, SetMap DEF Results
<1>10. Get(r, f, Empty) = t
  BY <1>1, GetSet
<1>11. \A k : k # f => Get(r, k, Empty) = Get(fr.results, k, Empty)
  BY <1>1, GetSet
<1> QED
  BY <1>8, <1>9, <1>10, <1>11 DEF f

(* A block is left with news. *)
LEMMA LeftInv ==
  ASSUME mod \in Modules, NEW fr, FrameInv(fr), fr.bb # NoBlock,
         fr.pc = Len(Code(fr.fn, fr.bb)) + 1,
         NEW r, r = fr.results \/ r = WithReturn(fr, Exit(fr.fn, fr.bb)),
         NEW g \in FrameSet, g.fn = fr.fn, g.results = r, g.work = WithSuccessors(fr),
         g.inList = fr.inList, g.bb = NoBlock, g.toMerge = fr.toMerge
  PROVE  FrameInv(g)
<1>1. /\ fr \in FrameSet /\ fr.fn \in DOMAIN mod.functions /\ fr.bb \in Blocks(fr.fn)
      /\ fr.work \in Seq(Blocks(fr.fn)) /\ fr.inList \subseteq Range(fr.work)
  BY DEF FrameInv, FrameOK
<1>2. fr.pc # 0
  BY <1>1, AtIs
<1>3. /\ fr.toMerge = {}
      /\ \A c : /\ ~Entering(fr, c) /\ FromOf(fr, c) = Preds(fr.fn, c)
                /\ EntryOf(fr, c) = EntryState(fr.results, c)
  BY <1>2, VisitingIs
<1>4. NoBlock \notin Blocks(fr.fn)
  BY <1>1, FnIs
<1>5. /\ WithSuccessors(fr) \in Seq(Blocks(fr.fn))
      /\ Range(fr.work) \subseteq Range(WithSuccessors(fr))
      /\ Succs(fr.fn, fr.bb) \subseteq Range(WithSuccessors(fr))
  BY <1>1, SuccessorsAdded
<1>6. /\ \A k : k # fr.fn => Get(r, k, Empty) = Get(fr.results, k, Empty)
      /\ Without(Get(r, fr.fn, Empty), fr.fn) = ArgsOf(fr)
  <2>1. CASE r = fr.results
    BY <2>1 DEF ArgsOf
  <2>2. CASE r = WithReturn(fr, Exit(fr.fn, fr.bb))
    <3>1. Exit(fr.fn, fr.bb) \in Instructions(fr.fn)
      BY <1>1, AtIs
    <3> QED
      BY <1>1, <2>2, <3>1, ReturnIs
  <2> QED
    BY <2>1, <2>2
<1>7. FrameOK(g) /\ Kept(g)
  BY <1>1, <1>3, <1>5 DEF FrameOK, Kept
<1>8. ASSUME NEW c \in Blocks(fr.fn) PROVE Knows(g, c)
  <2>1. CASE c \in Succs(fr.fn, fr.bb)
    BY <1>5, <2>1, KnowsIs
  <2>2. CASE c \notin Succs(fr.fn, fr.bb)
    <3>1. ~Entering(g, c) /\ FromOf(g, c) = FromOf(fr, c)
      BY <1>3, <1>4 DEF Entering, FromOf
    <3>2. EntryOf(g, c) = EntryOf(fr, c)
      <4>1. c # fr.fn
        BY <1>1, KeysApart
      <4> QED
        BY <1>3, <1>6, <3>1, <4>1 DEF EntryOf, EntryState
    <3>3. ArgsOf(g) = ArgsOf(fr)
      BY <1>6 DEF ArgsOf
    <3>4. ASSUME NEW p \in FromOf(fr, c) PROVE ExitOf(g, p) = ExitOf(fr, p)
      <4>1. p \in Blocks(fr.fn) /\ p # NoBlock /\ p # fr.bb
        BY <1>3, <1>4, <2>2 DEF Preds
      <4>2. Exit(fr.fn, p).id # fr.fn
        BY <1>1, <4>1, AtIs, KeysApart
      <4> QED
        BY <1>6, <4>1, <4>2 DEF ExitOf, ExitState
    <3>5. Knows(fr, c)
      BY DEF FrameInv
    <3> QED
      BY <1>3, <1>5, <3>1, <3>2, <3>3, <3>4, <3>5, KnowsSame
  <2> QED
    BY <2>1, <2>2
<1> QED
  BY <1>7, <1>8 DEF FrameInv

-----------------------------------------------------------------------------
(* Results in which the entry of every block knows the exits before it. *)
Settled(f, r) ==
  \A b \in Blocks(f) : \A p \in Preds(f, b) : Included(ExitState(r, f, p), EntryState(r, b))

(* An activation that has nothing left to do has settled its results. *)
LEMMA FinishedIsSettled ==
  ASSUME NEW fr, FrameInv(fr), fr.bb = NoBlock, fr.work = << >>,
         mod \in Modules
  PROVE  Settled(fr.fn, fr.results)
<1>1. fr.fn \in DOMAIN mod.functions /\ NoBlock \notin Blocks(fr.fn)
  BY FnIs DEF FrameInv, FrameOK
<1> SUFFICES ASSUME NEW b \in Blocks(fr.fn), NEW p \in Preds(fr.fn, b)
             PROVE  Included(ExitState(fr.results, fr.fn, p), EntryState(fr.results, b))
  BY DEF Settled
<1>2. ~Entering(fr, b) /\ FromOf(fr, b) = Preds(fr.fn, b)
      /\ EntryOf(fr, b) = EntryState(fr.results, b)
  BY <1>1 DEF Entering, FromOf, EntryOf
<1>3. p # NoBlock /\ ExitOf(fr, p) = ExitState(fr.results, fr.fn, p)
  BY <1>1, PredsAre DEF ExitOf
<1>4. Range(fr.work) = {}
  BY DEF Range
<1>5. Knows(fr, b)
  BY DEF FrameInv
<1> QED
  BY <1>2, <1>3, <1>4, <1>5, KnowsIs

(* Summaries do not bear on it, and no results are settled. *)
LEMMA SummarySettled ==
  ASSUME mod \in Modules, NEW f \in DOMAIN mod.functions, NEW r, NEW s, NEW g \in FunctionName,
         Settled(f, r)
  PROVE  Settled(f, Set(r, g, s))
<1> DEFINE u == Set(r, g, s)
<1>1. \A k : k # g => Get(u, k, Empty) = Get(r, k, Empty)
  BY GetSet
<1> HIDE DEF u
<1>2. ASSUME NEW b \in Blocks(f) PROVE EntryState(u, b) = EntryState(r, b)
  <2>1. b # g
    BY KeysApart
  <2> QED
    BY <1>1, <2>1 DEF EntryState
<1>3. ASSUME NEW p \in Blocks(f) PROVE ExitState(u, f, p) = ExitState(r, f, p)
  <2>1. Exit(f, p).id \in Value
    BY AtIs, KeysApart
  <2>2. Exit(f, p).id # g
    BY <2>1, KeyAssumption
  <2> QED
    BY <1>1, <2>2 DEF ExitState
<1>4. Settled(f, u)
  BY <1>2, <1>3, PredsAre DEF Settled
<1> QED
  BY <1>4 DEF u

LEMMA NoneSettled == \A f : Settled(f, NoResults)
<1>1. \A k : Get(NoResults, k, Empty) = Empty
  BY EmptyIs DEF Get
<1> QED
  BY <1>1, EmptyIncluded DEF Settled, ExitState, EntryState

-----------------------------------------------------------------------------
(* The inductive invariant: every activation knows what it should, all but the
   innermost wait at a call, and what is recorded is settled. *)
GoodRecords(all) ==
  /\ all \in MapOf(Task, Results)
  /\ \A q \in DOMAIN all : Settled(q[2], all[q])
GoodStack(st) ==
  /\ st \in Seq(FrameSet)
  /\ \A fr \in Range(st) : FrameInv(fr)
  /\ \A k \in 1..(Len(st) - 1) : Calling(st[k])
IInv ==
  /\ mod \in Modules
  /\ GoodRecords(allResults)
  /\ GoodStack(stack)
  /\ contextWork \in Seq(Task)
  /\ callers \subseteq Task \X Task /\ IsFiniteSet(callers)
  /\ phase \in {"analysis", "crashed", "reported", "running"}

(* The program does not change. *)
LEMMA ModStays ==
  ASSUME mod' = mod
  PROVE  /\ Task' = Task
         /\ \A f, r : Settled(f, r)' <=> Settled(f, r)
         /\ \A fr : FrameInv(fr)' <=> FrameInv(fr)
         /\ \A fr : Calling(fr)' <=> Calling(fr)
<1>1. Task' = Task
  BY DEF Task
<1>2. \A f : Fn(f)' = Fn(f)
  BY DEF Fn
<1>3. /\ \A f : Blocks(f)' = Blocks(f)
      /\ \A f, b : Code(f, b)' = Code(f, b)
      /\ \A f, b : Succs(f, b)' = Succs(f, b)
  BY <1>2 DEF Blocks, Code, Succs
<1>4. \A f, b : Exit(f, b)' = Exit(f, b)
  BY <1>3 DEF Exit
<1>5. \A f, b : Preds(f, b)' = Preds(f, b)
  BY <1>3 DEF Preds
<1>6. \A r, f, b : ExitState(r, f, b)' = ExitState(r, f, b)
  BY <1>4 DEF ExitState
<1>7. \A f, r : Settled(f, r)' <=> Settled(f, r)
  BY <1>3, <1>5, <1>6 DEF Settled
<1>8. \A fr : Calling(fr)' <=> Calling(fr)
  BY <1>3 DEF Calling
<1>9. \A fr, b : Knows(fr, b)' <=> Knows(fr, b)
  BY <1>5, <1>6 DEF Knows
<1>10. \A fr : FrameOK(fr)' <=> FrameOK(fr)
  BY <1>3, <1>5 DEF FrameOK
<1>11. \A fr : Kept(fr)' <=> Kept(fr)
  BY <1>3, <1>6 DEF Kept
<1>12. \A fr : FrameInv(fr)' <=> FrameInv(fr)
  BY <1>3, <1>9, <1>10, <1>11 DEF FrameInv
<1> QED
  BY <1>1, <1>7, <1>8, <1>12

LEMMA PrimedInv ==
  ASSUME mod \in Modules, mod' = mod, GoodRecords(allResults'), GoodStack(stack'),
         contextWork' \in Seq(Task), callers' \subseteq Task \X Task, IsFiniteSet(callers'),
         phase' \in {"analysis", "crashed", "reported", "running"}
  PROVE  IInv'
<1>1. /\ Task' = Task
      /\ \A f, r : Settled(f, r)' <=> Settled(f, r)
      /\ \A fr : FrameInv(fr)' <=> FrameInv(fr)
      /\ \A fr : Calling(fr)' <=> Calling(fr)
  BY ModStays
<1>2. GoodRecords(allResults)'
  <2>1. /\ allResults' \in MapOf(Task, Results)
        /\ \A q \in DOMAIN allResults' : Settled(q[2], allResults'[q])
    BY DEF GoodRecords
  <2>2. (\A q \in DOMAIN allResults : Settled(q[2], allResults[q]))'
    BY <2>1 DEF Settled, Preds, Blocks, Succs, ExitState, EntryState, Exit, Code, Fn
  <2> QED
    BY <1>1, <2>1, <2>2 DEF GoodRecords
<1>3. GoodStack(stack)'
  <2>1. /\ stack' \in Seq(FrameSet)
        /\ \A fr \in Range(stack') : FrameInv(fr)
        /\ \A k \in 1..(Len(stack') - 1) : Calling(stack'[k])
    BY DEF GoodStack
  <2>2. (\A fr \in Range(stack) : FrameInv(fr))'
    BY <1>1, <2>1
  <2>3. (\A k \in 1..(Len(stack) - 1) : Calling(stack[k]))'
    BY <2>1 DEF Calling, Code, Fn
  <2> QED
    BY <2>1, <2>2, <2>3 DEF GoodStack
<1> QED
  BY <1>1, <1>2, <1>3 DEF IInv

(* The stack with its innermost activation changed, one more, or one less. *)
LEMMA TopIs ==
  ASSUME GoodStack(stack), stack # << >>
  PROVE  /\ Len(stack) \in Nat /\ Len(stack) > 0 /\ DOMAIN stack = 1..Len(stack)
         /\ Top \in FrameSet /\ FrameInv(Top)
         /\ \A k \in 1..Len(stack) : stack[k] \in FrameSet /\ FrameInv(stack[k])
<1>1. stack \in Seq(FrameSet) /\ \A fr \in Range(stack) : FrameInv(fr)
  BY DEF GoodStack
<1>2. Len(stack) \in Nat /\ Len(stack) > 0 /\ DOMAIN stack = 1..Len(stack)
      /\ \A k \in 1..Len(stack) : stack[k] \in FrameSet
  BY <1>1
<1>3. ASSUME NEW k \in 1..Len(stack) PROVE FrameInv(stack[k])
  BY <1>1, <1>2 DEF Range
<1> QED
  BY <1>2, <1>3 DEF Top

LEMMA WithTopIs ==
  ASSUME GoodStack(stack), stack # << >>, NEW g, FrameInv(g)
  PROVE  /\ GoodStack(WithTop(g)) /\ WithTop(g) # << >>
         /\ Len(WithTop(g)) = Len(stack) /\ WithTop(g)[Len(stack)] = g
<1> DEFINE st == WithTop(g)
           n == Len(stack)
<1>1. /\ stack \in Seq(FrameSet) /\ n \in Nat /\ n > 0 /\ DOMAIN stack = 1..n
      /\ \A k \in 1..n : stack[k] \in FrameSet /\ FrameInv(stack[k])
      /\ \A k \in 1..(n - 1) : Calling(stack[k])
      /\ g \in FrameSet
  BY TopIs DEF GoodStack, FrameInv, FrameOK
<1>2. /\ st \in Seq(FrameSet) /\ Len(st) = n /\ st[n] = g /\ DOMAIN st = 1..n
      /\ \A k \in 1..n : k # n => st[k] = stack[k]
  BY <1>1 DEF WithTop
<1> HIDE DEF st, n
<1>3. ASSUME NEW fr \in Range(st) PROVE FrameInv(fr)
  BY <1>1, <1>2 DEF Range
<1>4. ASSUME NEW k \in 1..(n - 1) PROVE Calling(st[k])
  BY <1>1, <1>2
<1>5. GoodStack(st)
  BY <1>2, <1>3, <1>4 DEF GoodStack
<1>6. st # << >>
  BY <1>1, <1>2
<1> QED
  BY <1>2, <1>5, <1>6 DEF st, n

LEMMA PushIs ==
  ASSUME NEW st, GoodStack(st), st # << >>, Calling(st[Len(st)]), NEW g, FrameInv(g)
  PROVE  GoodStack(Append(st, g))
<1> DEFINE u == Append(st, g)
           n == Len(st)
<1>1. /\ st \in Seq(FrameSet) /\ n \in Nat /\ n > 0 /\ DOMAIN st = 1..n
      /\ \A fr \in Range(st) : FrameInv(fr)
      /\ \A k \in 1..(n - 1) : Calling(st[k])
      /\ g \in FrameSet
  BY DEF GoodStack, FrameInv, FrameOK
<1>2. /\ u \in Seq(FrameSet) /\ Len(u) = n + 1 /\ u[n + 1] = g /\ DOMAIN u = 1..(n + 1)
      /\ \A k \in 1..n : u[k] = st[k]
  BY <1>1
<1>3. Calling(st[n])
  OBVIOUS
<1> HIDE DEF u, n
<1>4. ASSUME NEW fr \in Range(u) PROVE FrameInv(fr)
  <2>1. fr = g \/ fr \in Range(st)
    BY <1>1, <1>2 DEF Range
  <2> QED
    BY <1>1, <2>1
<1>5. ASSUME NEW k \in 1..n PROVE Calling(u[k])
  BY <1>1, <1>2, <1>3
<1>6. GoodStack(u)
  BY <1>1, <1>2, <1>4, <1>5 DEF GoodStack
<1> QED
  BY <1>6 DEF u

LEMMA PopIs ==
  ASSUME GoodStack(stack), Len(stack) > 1, NEW g, FrameInv(g)
  PROVE  GoodStack(Append(SubSeq(stack, 1, Len(stack) - 2), g))
<1> DEFINE n == Len(stack) - 2
           t == SubSeq(stack, 1, n)
           u == Append(t, g)
<1>1. /\ stack \in Seq(FrameSet) /\ n \in Nat
      /\ \A k \in 1..(Len(stack) - 1) : Calling(stack[k])
      /\ g \in FrameSet
  BY DEF GoodStack, FrameInv, FrameOK
<1>2. /\ Len(stack) = n + 2 /\ \A k \in 1..n : stack[k] \in FrameSet /\ FrameInv(stack[k])
  <2>1. stack # << >> /\ Len(stack) \in Nat
    BY <1>1
  <2> QED
    BY <2>1, TopIs
<1>3. /\ t \in Seq(FrameSet) /\ Len(t) = n /\ \A k \in 1..n : t[k] = stack[k]
  BY <1>1, <1>2
<1> HIDE DEF n, t
<1>4. /\ u \in Seq(FrameSet) /\ Len(u) = n + 1 /\ u[n + 1] = g /\ DOMAIN u = 1..(n + 1)
      /\ \A k \in 1..n : u[k] = t[k]
  BY <1>1, <1>3
<1> HIDE DEF u
<1>5. ASSUME NEW fr \in Range(u) PROVE FrameInv(fr)
  BY <1>1, <1>2, <1>3, <1>4 DEF Range
<1>6. ASSUME NEW k \in 1..n PROVE Calling(u[k])
  BY <1>1, <1>2, <1>3, <1>4
<1>7. GoodStack(u)
  BY <1>1, <1>4, <1>5, <1>6 DEF GoodStack
<1> QED
  BY <1>7 DEF u, t, n

-----------------------------------------------------------------------------
(* The steps of an activation keep its invariant. *)
LEMMA TakeStep ==
  ASSUME mod \in Modules, NEW fr, FrameInv(fr), fr.bb = NoBlock, fr.work # << >>,
         NEW b, b = Head(fr.work), NEW x, x = Exit(fr.fn, b).id,
         NEW r, r = Touch(Touch(fr.results, b, Empty), x, Empty)
  PROVE  FrameInv([fr EXCEPT !.work = Tail(@), !.inList = @ \ {b},
                             !.bb = b, !.toMerge = Preds(fr.fn, b), !.pc = 0,
                             !.results = r, !.state = r[b],
                             !.oldEntryState = r[b], !.oldExitState = r[x]])
<1> DEFINE w == Tail(fr.work)
           l == fr.inList \ {b}
           P == Preds(fr.fn, b)
           s == r[b]
           e == r[x]
           g == [fr EXCEPT !.work = w, !.inList = l, !.bb = b, !.toMerge = P, !.pc = 0,
                           !.results = r, !.state = s, !.oldEntryState = s, !.oldExitState = e]
<1>1. fr \in FrameSet /\ fr.fn \in DOMAIN mod.functions /\ fr.work \in Seq(Blocks(fr.fn))
  BY DEF FrameInv, FrameOK
<1>2. Blocks(fr.fn) \subseteq Block
  BY <1>1, FnIs
<1>3. b \in Blocks(fr.fn) /\ w \in Seq(Blocks(fr.fn))
  <2> DEFINE B == Blocks(fr.fn)
             v == fr.work
  <2>1. v \in Seq(B) /\ v # << >> /\ b = Head(v)
    BY <1>1
  <2> HIDE DEF v, B
  <2>2. b \in B /\ Tail(v) \in Seq(B)
    BY <2>1
  <2> QED
    BY <2>2 DEF v, B
<1>4. b \in Block /\ w \in Seq(Block) /\ P \in SUBSET Block
  <2>1. w \in Seq(Block)
    <3> HIDE DEF w
    <3> QED
      BY <1>2, <1>3
  <2>2. P \subseteq Block
    BY <1>2, PredsAre
  <2> QED
    BY <1>2, <1>3, <2>1, <2>2
<1>5. l \in SUBSET Block
  BY <1>1 DEF FrameSet
<1>6. b \in Keys /\ x \in Keys
  BY <1>1, <1>3, AtIs, KeysApart
<1>7. r \in Results /\ b \in DOMAIN r /\ x \in DOMAIN r
  BY <1>1, <1>6, StatesAre, TouchedTwice
<1>8. s \in State /\ e \in State
  BY <1>7, MapIs DEF Results
<1> HIDE DEF w, l, P, s, e
<1>9. g \in FrameSet
  BY <1>1, <1>4, <1>5, <1>7, <1>8 DEF FrameSet
<1>10. /\ g.fn = fr.fn /\ g.results = r /\ g.work = w /\ g.inList = l /\ g.bb = b
       /\ g.toMerge = P /\ g.pc = 0 /\ g.state = s /\ g.oldEntryState = s
       /\ g.oldExitState = e
  <2>1. g.fn = fr.fn /\ g.results = r /\ g.work = w
    BY <1>1 DEF FrameSet
  <2>2. g.inList = l /\ g.bb = b /\ g.toMerge = P
    BY <1>1 DEF FrameSet
  <2>3. g.pc = 0 /\ g.state = s
    BY <1>1 DEF FrameSet
  <2>4. g.oldEntryState = s /\ g.oldExitState = e
    BY <1>1 DEF FrameSet
  <2> QED
    BY <2>1, <2>2, <2>3, <2>4
<1> HIDE DEF g
<1>11. FrameInv(g)
  <2>1. /\ g.work = Tail(fr.work) /\ g.inList = fr.inList \ {b} /\ g.toMerge = Preds(fr.fn, b)
        /\ g.state = r[b] /\ g.oldEntryState = r[b] /\ g.oldExitState = r[x]
    BY <1>10 DEF w, l, P, s, e
  <2> QED
    BY <1>9, <1>10, <2>1, TakenInv
<1> QED
  BY <1>11 DEF g, w, l, P, s, e

LEMMA MergeStep ==
  ASSUME mod \in Modules, NEW fr, FrameInv(fr), NEW p \in fr.toMerge
  PROVE  FrameInv([fr EXCEPT !.toMerge = @ \ {p},
                             !.state = Merge(@, Get(fr.results, Exit(fr.fn, p).id, Empty))])
<1> DEFINE e == Get(fr.results, Exit(fr.fn, p).id, Empty)
           s == Merge(fr.state, e)
           T == fr.toMerge \ {p}
           g == [fr EXCEPT !.toMerge = T, !.state = s]
<1>1. fr \in FrameSet
  BY DEF FrameInv, FrameOK
<1>2. s \in State
  <2>1. fr.state \in State /\ e \in State
    BY <1>1, StatesAre
  <2> HIDE DEF e
  <2> QED
    BY <2>1, MergeStates
<1>3. T \in SUBSET Block
  BY <1>1 DEF FrameSet
<1> HIDE DEF s, T, e
<1>4. g \in FrameSet
  BY <1>1, <1>2, <1>3 DEF FrameSet
<1>5. /\ g.fn = fr.fn /\ g.results = fr.results /\ g.work = fr.work
      /\ g.inList = fr.inList /\ g.bb = fr.bb /\ g.toMerge = T /\ g.pc = fr.pc
      /\ g.state = s /\ g.oldEntryState = fr.oldEntryState /\ g.oldExitState = fr.oldExitState
  BY <1>1 DEF FrameSet
<1> HIDE DEF g
<1>6. FrameInv(g)
  BY <1>4, <1>5, MergedInv DEF s, T, e
<1> QED
  BY <1>6 DEF g, s, T, e

LEMMA EnterStep ==
  ASSUME mod \in Modules, NEW fr, FrameInv(fr), fr.bb # NoBlock, fr.pc = 0, fr.toMerge = {},
         NEW r, r = Touch(fr.results, fr.fn, Empty), NEW s, s = Entered(fr)
  PROVE  /\ SameEntry(fr) => FrameInv([fr EXCEPT !.bb = NoBlock, !.results = r])
         /\ FrameInv([fr EXCEPT !.pc = 1, !.state = s, !.results = Set(r, fr.bb, s)])
<1> DEFINE u == Set(r, fr.bb, s)
           g == [fr EXCEPT !.bb = NoBlock, !.results = r]
           h == [fr EXCEPT !.pc = 1, !.state = s, !.results = u]
<1>1. /\ fr \in FrameSet /\ fr.fn \in DOMAIN mod.functions /\ fr.bb \in Blocks(fr.fn)
      /\ s \in State
  BY EnteringIs
<1>2. r \in Results
  <2>1. fr.results \in MapOf(Keys, State) /\ Empty \in State /\ fr.fn \in Keys
    BY <1>1, StatesAre, EmptyIs, KeysApart DEF Results
  <2>2. r \in MapOf(Keys, State)
    BY <2>1, TouchMap
  <2> QED
    BY <2>2 DEF Results
<1>3. u \in Results
  <2>1. fr.bb \in Keys
    BY <1>1, KeysApart
  <2>2. u \in MapOf(Keys, State)
    BY <1>1, <1>2, <2>1, SetMap DEF Results
  <2> QED
    BY <2>2 DEF Results
<1>4. SameEntry(fr) => FrameInv(g)
  <2> HAVE SameEntry(fr)
  <2>1. g \in FrameSet
    BY <1>1, <1>2 DEF FrameSet
  <2>2. /\ g.fn = fr.fn /\ g.results = r /\ g.work = fr.work /\ g.inList = fr.inList
        /\ g.bb = NoBlock /\ g.toMerge = {} /\ g.pc = fr.pc
    BY <1>1 DEF FrameSet
  <2>3. Entered(fr) = fr.oldEntryState
    BY DEF SameEntry
  <2> HIDE DEF g
  <2> QED
    BY <2>1, <2>2, <2>3, SkippedInv
<1>5. FrameInv(h)
  <2>1. u = Set(Touch(fr.results, fr.fn, Empty), fr.bb, Entered(fr))
    OBVIOUS
  <2> HIDE DEF u
  <2>2. h \in FrameSet
    BY <1>1, <1>3 DEF FrameSet
  <2>3. /\ h.fn = fr.fn /\ h.results = u /\ h.work = fr.work /\ h.inList = fr.inList
        /\ h.bb = fr.bb /\ h.toMerge = {} /\ h.pc = 1 /\ h.state = Entered(fr)
        /\ h.oldExitState = fr.oldExitState
    BY <1>1 DEF FrameSet
  <2> HIDE DEF h
  <2> QED
    BY <2>1, <2>2, <2>3, EnteredInv
<1> QED
  BY <1>4, <1>5

LEMMA AfterStep ==
  ASSUME mod \in Modules, NEW fr, FrameInv(fr), fr.bb # NoBlock,
         fr.pc \in 1..Len(Code(fr.fn, fr.bb)),
         NEW i, i = Code(fr.fn, fr.bb)[fr.pc], NEW s \in State
  PROVE  FrameInv(After(fr, i, s)) /\ i \in Instructions(fr.fn)
<1> DEFINE r == Set(fr.results, i.id, s)
           g == [fr EXCEPT !.state = s, !.results = r, !.pc = fr.pc + 1]
<1>1. fr \in FrameSet /\ fr.fn \in DOMAIN mod.functions /\ fr.bb \in Blocks(fr.fn)
  BY DEF FrameInv, FrameOK
<1>2. i \in Instructions(fr.fn) /\ i.id \in Keys
  BY <1>1, AtIs, KeysApart
<1>3. r \in Results
  <2>1. r \in MapOf(Keys, State)
    BY <1>1, <1>2, StatesAre, SetMap DEF Results
  <2> QED
    BY <2>1 DEF Results
<1>4. fr.pc + 1 \in Nat
  BY <1>1 DEF FrameSet
<1>5. After(fr, i, s) = g
  BY DEF After
<1>6. r = Set(fr.results, i.id, s)
  OBVIOUS
<1> HIDE DEF r
<1>7. g \in FrameSet
  BY <1>1, <1>3, <1>4 DEF FrameSet
<1>8. /\ g.fn = fr.fn /\ g.results = r /\ g.work = fr.work /\ g.inList = fr.inList
      /\ g.bb = fr.bb /\ g.toMerge = fr.toMerge /\ g.pc = fr.pc + 1 /\ g.state = s
      /\ g.oldExitState = fr.oldExitState
  BY <1>1 DEF FrameSet
<1> HIDE DEF g
<1>9. FrameInv(g)
  BY <1>6, <1>7, <1>8, AfterInv
<1> QED
  BY <1>2, <1>5, <1>9

LEMMA CallingStep ==
  ASSUME mod \in Modules, NEW fr, FrameInv(fr), Calling(fr), NEW s \in State
  PROVE  FrameInv([fr EXCEPT !.state = s]) /\ Calling([fr EXCEPT !.state = s])
<1> DEFINE g == [fr EXCEPT !.state = s]
<1>1. /\ fr \in FrameSet /\ fr.bb # NoBlock /\ fr.pc \in 1..Len(Code(fr.fn, fr.bb))
      /\ Code(fr.fn, fr.bb)[fr.pc].op = "call"
  BY DEF FrameInv, FrameOK, Calling
<1>2. g \in FrameSet
  BY <1>1 DEF FrameSet
<1>3. /\ g.fn = fr.fn /\ g.results = fr.results /\ g.work = fr.work /\ g.inList = fr.inList
      /\ g.bb = fr.bb /\ g.toMerge = fr.toMerge /\ g.pc = fr.pc
      /\ g.oldExitState = fr.oldExitState
  BY <1>1 DEF FrameSet
<1> HIDE DEF g
<1>4. FrameInv(g)
  BY <1>1, <1>2, <1>3, CallingInv
<1>5. Calling(g)
  BY <1>1, <1>3 DEF Calling
<1> QED
  BY <1>4, <1>5 DEF g

LEMMA LeaveStep ==
  ASSUME mod \in Modules, NEW fr, FrameInv(fr), fr.bb # NoBlock,
         fr.pc = Len(Code(fr.fn, fr.bb)) + 1,
         NEW last, last = Exit(fr.fn, fr.bb)
  PROVE  /\ fr.state = fr.oldExitState => FrameInv([fr EXCEPT !.bb = NoBlock])
         /\ FrameInv([fr EXCEPT !.bb = NoBlock, !.work = WithSuccessors(fr),
                                !.results = IF last.op = "ret" THEN WithReturn(fr, last) ELSE @])
<1> DEFINE r == IF last.op = "ret" THEN WithReturn(fr, last) ELSE fr.results
           w == WithSuccessors(fr)
           g == [fr EXCEPT !.bb = NoBlock]
           h == [fr EXCEPT !.bb = NoBlock, !.work = w, !.results = r]
<1>1. /\ fr \in FrameSet /\ fr.fn \in DOMAIN mod.functions /\ fr.bb \in Blocks(fr.fn)
      /\ fr.work \in Seq(Blocks(fr.fn)) /\ fr.inList \subseteq Range(fr.work)
  BY DEF FrameInv, FrameOK
<1>2. w \in Seq(Block)
  <2>1. w \in Seq(Blocks(fr.fn)) /\ Blocks(fr.fn) \subseteq Block
    BY <1>1, SuccessorsAdded, FnIs
  <2> HIDE DEF w
  <2> QED
    BY <2>1
<1>3. last \in Instructions(fr.fn)
  BY <1>1, AtIs
<1>4. r \in Results
  BY <1>1, <1>3, StatesAre, ReturnIs
<1>5. fr.state = fr.oldExitState => FrameInv(g)
  <2> HAVE fr.state = fr.oldExitState
  <2>1. g \in FrameSet
    BY <1>1 DEF FrameSet
  <2>2. /\ g.fn = fr.fn /\ g.results = fr.results /\ g.work = fr.work /\ g.inList = fr.inList
        /\ g.bb = NoBlock /\ g.toMerge = fr.toMerge
    BY <1>1 DEF FrameSet
  <2> HIDE DEF g
  <2> QED
    BY <2>1, <2>2, LeftSameInv
<1>6. FrameInv(h)
  <2>1. r = fr.results \/ r = WithReturn(fr, Exit(fr.fn, fr.bb))
    OBVIOUS
  <2>2. w = WithSuccessors(fr)
    OBVIOUS
  <2> HIDE DEF w, r
  <2>3. h \in FrameSet
    BY <1>1, <1>2, <1>4 DEF FrameSet
  <2>4. /\ h.fn = fr.fn /\ h.results = r /\ h.work = w /\ h.inList = fr.inList
        /\ h.bb = NoBlock /\ h.toMerge = fr.toMerge
    BY <1>1 DEF FrameSet
  <2> HIDE DEF h
  <2> QED
    BY <2>1, <2>2, <2>3, <2>4, LeftInv
<1> QED
  BY <1>5, <1>6

-----------------------------------------------------------------------------
(* What is recorded. *)
LEMMA NewContextIs ==
  ASSUME NEW c \in Context, NEW site \in Value
  PROVE  NewContext(c, site) \in Context
<1> DEFINE A == Value \cup {NoSite}
           n == ContextSize
<1>1. c \in [1..n -> A] /\ n \in Nat /\ site \in A
  BY ContextAssumption DEF Context
<1> HIDE DEF A
<1>2. CASE n = 0
  BY <1>1, <1>2 DEF NewContext, Context, A
<1>3. CASE n # 0
  <2>1. c \in Seq(A) /\ Len(c) = n
    BY <1>1
  <2>2. Tail(c) \in Seq(A) /\ Len(Tail(c)) = n - 1
    BY <1>1, <1>3, <2>1
  <2> DEFINE t == Tail(c)
             u == Append(t, site)
  <2>3. t \in Seq(A) /\ Len(t) = n - 1
    BY <2>2
  <2> HIDE DEF t
  <2>4. u \in Seq(A) /\ Len(u) = n
    BY <1>1, <2>3
  <2> HIDE DEF u
  <2>5. u \in [1..n -> A]
    BY <2>4
  <2> QED
    BY <1>3, <2>5 DEF NewContext, Context, A, t, u
<1> QED
  BY <1>2, <1>3

LEMMA RecordsGet ==
  ASSUME NEW all, GoodRecords(all), NEW q
  PROVE  Get(all, q, NoResults) \in Results /\ \A f : f = q[2] => Settled(f, Get(all, q, NoResults))
<1>1. all \in MapOf(Task, Results) /\ \A p \in DOMAIN all : Settled(p[2], all[p])
  BY DEF GoodRecords
<1>2. NoResults \in Results
  BY EmptyIs
<1>3. Get(all, q, NoResults) \in Results
  BY <1>1, <1>2, GetMap
<1>4. Settled(q[2], Get(all, q, NoResults))
  BY <1>1, NoneSettled DEF Get
<1> QED
  BY <1>3, <1>4

LEMMA RecordsSet ==
  ASSUME NEW all, GoodRecords(all), NEW q \in Task, NEW r \in Results, Settled(q[2], r)
  PROVE  GoodRecords(Set(all, q, r))
<1> DEFINE u == Set(all, q, r)
<1>1. all \in MapOf(Task, Results) /\ \A p \in DOMAIN all : Settled(p[2], all[p])
  BY DEF GoodRecords
<1>2. u \in MapOf(Task, Results)
  BY <1>1, SetMap
<1>3. DOMAIN u = DOMAIN all \cup {q}
  BY SetIs
<1>4. u[q] = r
  BY SetIs
<1>5. \A p \in DOMAIN all : p # q => u[p] = all[p]
  BY SetIs
<1> HIDE DEF u
<1>6. \A p \in DOMAIN u : Settled(p[2], u[p])
  BY <1>1, <1>3, <1>4, <1>5
<1>7. GoodRecords(u)
  BY <1>2, <1>6 DEF GoodRecords
<1> QED
  BY <1>7 DEF u

LEMMA SummaryIs ==
  ASSUME NEW all, GoodRecords(all), NEW p
  PROVE  Summary(all, p) \in State
<1> DEFINE r == Get(all, p, NoResults)
<1>1. r \in Results
  BY RecordsGet
<1> HIDE DEF r
<1>2. Get(r, p[2], Empty) \in State
  BY <1>1, EmptyIs, GetMap DEF Results
<1> QED
  BY <1>2 DEF Summary, r

(* A summary is recorded, and nothing else changes. *)
LEMMA WithSummaryIs ==
  ASSUME mod \in Modules, NEW all, GoodRecords(all), NEW p \in Task, NEW s \in State
  PROVE  /\ GoodRecords(WithSummary(all, p, s))
         /\ p \in DOMAIN WithSummary(all, p, s) /\ WithSummary(all, p, s)[p] \in Results
<1> DEFINE old == Get(all, p, NoResults)
           r == Set(old, p[2], s)
           u == Set(all, p, r)
<1>1. old \in Results /\ Settled(p[2], old)
  BY RecordsGet
<1>2. p[2] \in DOMAIN mod.functions /\ p[2] \in Keys /\ p[2] \in FunctionName
  <2>1. p[2] \in DOMAIN mod.functions
    BY DEF Task
  <2> QED
    BY <2>1, KeysApart, FnIs
<1> HIDE DEF old
<1>3. r \in Results
  <2>1. r \in MapOf(Keys, State)
    BY <1>1, <1>2, SetMap DEF Results
  <2> QED
    BY <2>1 DEF Results
<1>4. Settled(p[2], r)
  <2> DEFINE f == p[2]
  <2>1. f \in DOMAIN mod.functions /\ f \in FunctionName /\ Settled(f, old)
    BY <1>1, <1>2
  <2> HIDE DEF f
  <2>2. Settled(f, Set(old, f, s))
    BY <2>1, SummarySettled
  <2> QED
    BY <2>2 DEF f
<1>5. u = WithSummary(all, p, s)
  BY DEF WithSummary, old
<1> HIDE DEF r
<1>6. GoodRecords(u)
  BY <1>3, <1>4, RecordsSet
<1>7. DOMAIN u = DOMAIN all \cup {p}
  BY SetIs
<1>8. u[p] = r
  BY SetIs
<1> HIDE DEF u
<1> QED
  BY <1>3, <1>5, <1>6, <1>7, <1>8

(* What a call does in the end. *)
LEMMA CompleteIs ==
  ASSUME mod \in Modules, NEW fr, FrameInv(fr), Calling(fr), NEW i,
         i = Code(fr.fn, fr.bb)[fr.pc], NEW all, GoodRecords(all)
  PROVE  /\ FrameInv(Complete(fr, i, all).frame)
         /\ GoodRecords(Complete(fr, i, all).all)
         /\ Complete(fr, i, all).caller \in Task \X Task
         /\ ToCall(fr, i) \in Task
<1> DEFINE p == ToCall(fr, i)
           s == Summary(all, p)
           returned == Get(s, i.callee, Unknown)
           t == Set(fr.state, i.id, returned)
           v == Touch(s, i.callee, Unknown)
<1>1. /\ fr \in FrameSet /\ fr.fn \in DOMAIN mod.functions /\ fr.bb \in Blocks(fr.fn)
      /\ fr.bb # NoBlock /\ fr.pc \in 1..Len(Code(fr.fn, fr.bb)) /\ i.op = "call"
  BY DEF FrameInv, FrameOK, Calling
<1>2. i \in Instructions(fr.fn)
  BY <1>1, AtIs
<1>3. i.callee \in DOMAIN mod.functions /\ i.id \in Value /\ i.id \in StateKey
  BY <1>1, <1>2, InstructionIs, KeysApart
<1>4. fr.context \in Context /\ fr.state \in State
  BY <1>1 DEF FrameSet
<1>5. p \in Task
  BY <1>3, <1>4, NewContextIs DEF Task, ToCall
<1>6. s \in State
  BY SummaryIs
<1>7. Unknown \in RangeValue
  BY RangeShapes
<1>8. i.callee \in StateKey
  BY <1>3, KeysApart
<1> HIDE DEF s, p
<1>9. returned \in RangeValue /\ v \in State
  <2>1. returned \in RangeValue
    BY <1>6, <1>7, GetMap DEF State
  <2>2. v \in MapOf(StateKey, RangeValue)
    BY <1>6, <1>7, <1>8, TouchMap DEF State
  <2> QED
    BY <2>1, <2>2 DEF State
<1>10. t \in State
  <2> HIDE DEF returned
  <2>1. t \in MapOf(StateKey, RangeValue)
    BY <1>3, <1>4, <1>9, SetMap DEF State
  <2> QED
    BY <2>1 DEF State
<1>11. /\ Complete(fr, i, all).frame = After(fr, i, t)
       /\ Complete(fr, i, all).all = WithSummary(all, p, v)
       /\ Complete(fr, i, all).caller = <<p, <<fr.context, fr.fn>>>>
  BY DEF Complete, p, s
<1> HIDE DEF t, v
<1>12. FrameInv(After(fr, i, t))
  BY <1>1, <1>10, AfterStep
<1>13. GoodRecords(WithSummary(all, p, v))
  BY <1>5, <1>9, WithSummaryIs
<1>14. <<fr.context, fr.fn>> \in Task
  BY <1>1, <1>4 DEF Task
<1>15. Complete(fr, i, all).caller \in Task \X Task
  BY <1>5, <1>11, <1>14
<1> QED
  BY <1>5, <1>11, <1>12, <1>13, <1>15 DEF p

(* The arguments of a call have ranges, once its operands do. *)
LEMMA ArgumentsAre ==
  ASSUME mod \in Modules, NEW f \in DOMAIN mod.functions, NEW i \in Instructions(f),
         i.op = "call", NEW s \in State, \A k \in 1..Len(i.args) : i.args[k] \in DOMAIN s,
         NEW summary \in State
  PROVE  WithArguments(summary, Arguments(i, s, summary)) \in State
<1> DEFINE params == Params(i.callee)
           position(v) == CHOOSE k \in DOMAIN params : params[k] = v
           a == Arguments(i, s, summary)
           D == DOMAIN summary \cup DOMAIN a
           u == WithArguments(summary, a)
<1>1. /\ i.callee \in DOMAIN mod.functions /\ Len(i.args) = Len(params)
      /\ i.args \in Seq(Value) /\ params \in Seq(Value)
  BY InstructionIs, FnIs DEF Instruction
<1>2. /\ DOMAIN params = 1..Len(i.args) /\ Range(params) \subseteq Value
  <2>1. DOMAIN params = 1..Len(i.args)
    BY <1>1
  <2>2. \A k \in DOMAIN params : params[k] \in Value
    BY <1>1
  <2> QED
    BY <2>1, <2>2 DEF Range
<1>3. /\ DOMAIN summary \subseteq StateKey /\ \A x \in DOMAIN summary : summary[x] \in RangeValue
      /\ \A x \in DOMAIN s : s[x] \in RangeValue
  BY MapIs DEF State
<1>4. a = [v \in Range(params) |->
             Join(s[i.args[position(v)]], Get(summary, v, Unknown))]
  BY DEF Arguments
<1>5. ASSUME NEW v \in Range(params)
      PROVE  Join(s[i.args[position(v)]], Get(summary, v, Unknown)) \in RangeValue
  <2>1. \E k \in DOMAIN params : params[k] = v
    BY DEF Range
  <2>2. position(v) \in 1..Len(i.args)
    <3> HIDE DEF params
    <3> QED
      BY <1>2, <2>1
  <2> HIDE DEF position
  <2>3. s[i.args[position(v)]] \in RangeValue
    BY <1>3, <2>2
  <2>4. Unknown \in RangeValue
    BY RangeShapes
  <2>5. Get(summary, v, Unknown) \in RangeValue
    BY <2>4, GetMap DEF State
  <2> QED
    BY <2>3, <2>5, JoinAbove
<1> HIDE DEF position, params
<1>6. DOMAIN a = Range(params) /\ \A v \in DOMAIN a : a[v] \in RangeValue
  <2> HIDE DEF a
  <2> QED
    BY <1>4, <1>5
<1> HIDE DEF a
<1>7. u = [v \in D |-> IF v \in DOMAIN a THEN a[v] ELSE summary[v]]
  BY DEF WithArguments
<1>8. \A v \in D : (IF v \in DOMAIN a THEN a[v] ELSE summary[v]) \in RangeValue
  BY <1>3, <1>6
<1>9. D \in SUBSET StateKey
  BY <1>2, <1>3, <1>6 DEF StateKey
<1> HIDE DEF D, u
<1>10. u \in [D -> RangeValue]
  BY <1>7, <1>8
<1>11. u \in State
  BY <1>9, <1>10, IsMap DEF State
<1> QED
  BY <1>11 DEF u, a

-----------------------------------------------------------------------------
(* The actions keep the invariant. *)
LEMMA StackStep ==
  ASSUME IInv, UNCHANGED <<mod, allResults, contextWork, callers>>,
         stack # << >>, NEW g, FrameInv(g), stack' = WithTop(g), phase' = phase
  PROVE  IInv'
<1>1. GoodStack(WithTop(g))
  BY WithTopIs DEF IInv
<1> QED
  BY <1>1, PrimedInv DEF IInv

LEMMA TakeContextKeeps ==
  ASSUME IInv, TakeContext
  PROVE  IInv'
<1> DEFINE w == contextWork
           p == Head(w)
           old == Get(allResults, p, NoResults)
           fr == Frame(p[1], p[2], old)
<1>1. /\ mod \in Modules /\ GoodRecords(allResults) /\ w \in Seq(Task) /\ w # << >>
      /\ callers \subseteq Task \X Task /\ IsFiniteSet(callers)
      /\ phase \in {"analysis", "crashed", "reported", "running"}
  BY DEF IInv, TakeContext
<1>2. /\ allResults' = Set(allResults, p, old) /\ stack' = <<fr>> /\ contextWork' = Tail(w)
      /\ UNCHANGED <<mod, callers, phase>>
  BY DEF TakeContext
<1>3. p \in Task /\ Tail(w) \in Seq(Task)
  <2> HIDE DEF w
  <2> QED
    BY <1>1
<1>4. p[1] \in Context /\ p[2] \in DOMAIN mod.functions
  BY <1>3 DEF Task
<1> HIDE DEF p, w
<1>5. old \in Results /\ Settled(p[2], old)
  BY <1>1, RecordsGet
<1> HIDE DEF old
<1>6. GoodRecords(Set(allResults, p, old))
  BY <1>1, <1>3, <1>5, RecordsSet
<1>7. FrameInv(fr)
  BY <1>1, <1>4, <1>5, FreshFrame
<1> HIDE DEF fr
<1>8. GoodStack(<<fr>>)
  <2>1. fr \in FrameSet
    BY <1>7 DEF FrameInv, FrameOK
  <2>2. <<fr>> \in Seq(FrameSet) /\ Len(<<fr>>) = 1 /\ Range(<<fr>>) = {fr}
    BY <2>1 DEF Range
  <2>3. 1..(Len(<<fr>>) - 1) = {}
    BY <2>2
  <2> QED
    BY <1>7, <2>2, <2>3 DEF GoodStack
<1> QED
  BY <1>1, <1>2, <1>3, <1>6, <1>8, PrimedInv

LEMMA TakeBlockKeeps ==
  ASSUME IInv, TakeBlock
  PROVE  IInv'
<1> DEFINE b == Head(Top.work)
           x == Exit(Top.fn, b).id
           r == Touch(Touch(Top.results, b, Empty), x, Empty)
           g == [Top EXCEPT !.work = Tail(@), !.inList = @ \ {b},
                            !.bb = b, !.toMerge = Preds(Top.fn, b), !.pc = 0,
                            !.results = r, !.state = r[b],
                            !.oldEntryState = r[b], !.oldExitState = r[x]]
<1>1. /\ mod \in Modules /\ stack # << >> /\ Top.bb = NoBlock /\ Top.work # << >>
      /\ stack' = WithTop(g) /\ UNCHANGED <<mod, allResults, contextWork, callers, phase>>
  BY DEF IInv, TakeBlock
<1>2. FrameInv(Top)
  BY <1>1, TopIs DEF IInv
<1>3. FrameInv(g)
  BY <1>1, <1>2, TakeStep
<1> HIDE DEF g
<1> QED
  BY <1>1, <1>3, StackStep

LEMMA MergePredecessorKeeps ==
  ASSUME IInv, NEW p, MergePredecessor(p)
  PROVE  IInv'
<1> DEFINE g == [Top EXCEPT !.toMerge = @ \ {p},
                            !.state = Merge(@, Get(Top.results, Exit(Top.fn, p).id, Empty))]
<1>1. /\ mod \in Modules /\ stack # << >> /\ p \in Top.toMerge
      /\ stack' = WithTop(g) /\ UNCHANGED <<mod, allResults, contextWork, callers, phase>>
  BY DEF IInv, MergePredecessor
<1>2. FrameInv(Top)
  BY <1>1, TopIs DEF IInv
<1>3. FrameInv(g)
  BY <1>1, <1>2, MergeStep
<1> HIDE DEF g
<1> QED
  BY <1>1, <1>3, StackStep

LEMMA EnterBlockKeeps ==
  ASSUME IInv, EnterBlock
  PROVE  IInv'
<1> DEFINE r == Touch(Top.results, Top.fn, Empty)
           s == Entered(Top)
           g == [Top EXCEPT !.bb = NoBlock, !.results = r]
           h == [Top EXCEPT !.pc = 1, !.state = s, !.results = Set(r, Top.bb, s)]
           k == IF SameEntry(Top) THEN g ELSE h
<1>1. /\ mod \in Modules /\ stack # << >> /\ Top.bb # NoBlock /\ Top.pc = 0 /\ Top.toMerge = {}
      /\ stack' = WithTop(k) /\ UNCHANGED <<mod, allResults, contextWork, callers, phase>>
  BY DEF IInv, EnterBlock
<1>2. FrameInv(Top)
  BY <1>1, TopIs DEF IInv
<1>3. SameEntry(Top) => FrameInv(g)
  BY <1>1, <1>2, EnterStep
<1>4. FrameInv(h)
  BY <1>1, <1>2, EnterStep
<1> HIDE DEF g, h
<1>5. FrameInv(k)
  BY <1>3, <1>4
<1> HIDE DEF k
<1> QED
  BY <1>1, <1>5, StackStep

LEMMA LeaveBlockKeeps ==
  ASSUME IInv, LeaveBlock
  PROVE  IInv'
<1> DEFINE last == Exit(Top.fn, Top.bb)
           g == [Top EXCEPT !.bb = NoBlock]
           h == [Top EXCEPT !.bb = NoBlock, !.work = WithSuccessors(Top),
                            !.results = IF last.op = "ret" THEN WithReturn(Top, last) ELSE @]
           k == IF Top.state = Top.oldExitState THEN g ELSE h
<1>1. /\ mod \in Modules /\ stack # << >> /\ Top.bb # NoBlock
      /\ Top.pc = Len(Code(Top.fn, Top.bb)) + 1
      /\ stack' = WithTop(k) /\ UNCHANGED <<mod, allResults, contextWork, callers, phase>>
  BY DEF IInv, LeaveBlock
<1>2. FrameInv(Top)
  BY <1>1, TopIs DEF IInv
<1>3. Top.state = Top.oldExitState => FrameInv(g)
  BY <1>1, <1>2, LeaveStep
<1>4. FrameInv(h)
  BY <1>1, <1>2, LeaveStep
<1> HIDE DEF g, h
<1>5. FrameInv(k)
  BY <1>3, <1>4
<1> HIDE DEF k
<1> QED
  BY <1>1, <1>5, StackStep

LEMMA TransferKeeps ==
  ASSUME IInv, Transfer
  PROVE  IInv'
<1> DEFINE i == Current
           s == applyTransfer(Top.fn, i, Top.state)
           g == After(Top, i, s)
<1>1. /\ mod \in Modules /\ GoodStack(stack) /\ stack # << >> /\ Top.bb # NoBlock
      /\ Top.pc \in 1..Len(Code(Top.fn, Top.bb))
      /\ UNCHANGED <<mod, allResults, contextWork, callers>>
      /\ i = Code(Top.fn, Top.bb)[Top.pc]
  BY DEF IInv, Transfer, AtInstruction, Current
<1>2. \/ Faulty(s) /\ phase' = "crashed" /\ stack' = stack
      \/ ~Faulty(s) /\ phase' = phase /\ stack' = WithTop(g)
  BY DEF Transfer
<1>3. FrameInv(Top)
  BY <1>1, TopIs
<1>4. CASE Faulty(s) /\ phase' = "crashed" /\ stack' = stack
  BY <1>1, <1>4, PrimedInv DEF IInv
<1>5. CASE ~Faulty(s) /\ phase' = phase /\ stack' = WithTop(g)
  <2>1. /\ Top \in FrameSet /\ Top.fn \in DOMAIN mod.functions /\ Top.bb \in Blocks(Top.fn)
    BY <1>1, <1>3 DEF FrameInv, FrameOK
  <2>2. i \in Instructions(Top.fn) /\ Top.state \in State
    BY <1>1, <2>1, AtIs, StatesAre
  <2> HIDE DEF i
  <2>3. s \in State
    BY <1>1, <1>5, <2>1, <2>2, AppliedIs
  <2> HIDE DEF s
  <2>4. FrameInv(g)
    BY <1>1, <1>3, <2>3, AfterStep
  <2> HIDE DEF g
  <2> QED
    BY <1>1, <1>5, <2>4, StackStep
<1> QED
  BY <1>2, <1>4, <1>5

LEMMA CallKeeps ==
  ASSUME IInv, Call
  PROVE  IInv'
<1> DEFINE i == Current
           p == ToCall(Top, i)
           s == OperandStates(Top.fn, i.args, Top.state)[Len(i.args)]
           summary == Summary(allResults, p)
           a == Arguments(i, s, summary)
           all == WithSummary(allResults, p, WithArguments(summary, a))
           fr == [Top EXCEPT !.state = s]
           c == Complete(fr, i, all)
           h == Frame(p[1], p[2], all[p])
<1>1. /\ mod \in Modules /\ GoodStack(stack) /\ GoodRecords(allResults)
      /\ contextWork \in Seq(Task) /\ callers \subseteq Task \X Task /\ IsFiniteSet(callers)
      /\ phase \in {"analysis", "crashed", "reported", "running"}
  BY DEF IInv
<1>2. /\ stack # << >> /\ Calling(Top) /\ i = Code(Top.fn, Top.bb)[Top.pc] /\ i.op = "call"
      /\ UNCHANGED <<mod, contextWork>>
  BY DEF Call, AtInstruction, Current, Calling
<1>3. \/ Faulty(s) /\ phase' = "crashed" /\ UNCHANGED <<allResults, stack, callers>>
      \/ /\ ~Faulty(s) /\ phase' = phase
         /\ \/ /\ allResults' = all
               /\ stack' = Append(WithTop(fr), h)
               /\ callers' = callers
            \/ /\ allResults' = c.all
               /\ stack' = WithTop(c.frame)
               /\ callers' = callers \cup {c.caller}
  BY DEF Call
<1>4. FrameInv(Top) /\ Len(stack) > 0
  BY <1>1, <1>2, TopIs
<1>5. /\ Top \in FrameSet /\ Top.fn \in DOMAIN mod.functions /\ Top.bb \in Blocks(Top.fn)
      /\ Top.pc \in 1..Len(Code(Top.fn, Top.bb))
  BY <1>2, <1>4 DEF FrameInv, FrameOK, Calling
<1>6. CASE Faulty(s) /\ phase' = "crashed" /\ UNCHANGED <<allResults, stack, callers>>
  BY <1>1, <1>2, <1>6, PrimedInv
<1>7. CASE ~Faulty(s)
  <2>1. i \in Instructions(Top.fn) /\ i.args \in Seq(Value)
    BY <1>1, <1>2, <1>5, AtIs, InstructionIs DEF Instruction
  <2>2. Top.state \in Draft
    BY <1>5, StatesAre, StateIs
  <2>3. s \in Draft /\ \A k \in 1..Len(i.args) : i.args[k] \in DOMAIN s
    BY <1>1, <1>5, <2>1, <2>2, OperandsStay
  <2> HIDE DEF i, s
  <2>4. s \in State
    BY <1>7, <2>3, SoundDraft
  <2>5. FrameInv(fr) /\ Calling(fr)
    BY <1>1, <1>2, <1>4, <2>4, CallingStep
  <2>6. /\ fr.fn = Top.fn /\ fr.bb = Top.bb /\ fr.pc = Top.pc /\ fr.context = Top.context
    BY <1>5 DEF FrameSet
  <2>7. i = Code(fr.fn, fr.bb)[fr.pc] /\ p = ToCall(fr, i)
    BY <1>2, <2>6 DEF ToCall
  <2> HIDE DEF fr
  <2>8. p \in Task
    BY <1>1, <2>5, <2>7, CompleteIs
  <2>9. summary \in State
    BY <1>1, SummaryIs
  <2> HIDE DEF p, summary
  <2>10. WithArguments(summary, a) \in State
    BY <1>1, <1>2, <1>5, <2>1, <2>3, <2>4, <2>9, ArgumentsAre
  <2> HIDE DEF a
  <2>11. GoodRecords(all) /\ all[p] \in Results
    BY <1>1, <2>8, <2>10, WithSummaryIs
  <2> HIDE DEF all
  <2>12. CASE /\ allResults' = all /\ stack' = Append(WithTop(fr), h) /\ callers' = callers
              /\ phase' = phase
    <3>1. p[1] \in Context /\ p[2] \in DOMAIN mod.functions
      BY <2>8 DEF Task
    <3>2. FrameInv(h)
      BY <1>1, <2>11, <3>1, FreshFrame
    <3> DEFINE st == WithTop(fr)
    <3>3. GoodStack(st) /\ st # << >> /\ st[Len(st)] = fr
      BY <1>1, <1>2, <2>5, WithTopIs
    <3> HIDE DEF st, h
    <3>4. GoodStack(Append(st, h))
      BY <2>5, <3>2, <3>3, PushIs
    <3> QED
      BY <1>1, <1>2, <2>11, <2>12, <3>4, PrimedInv DEF st
  <2>13. CASE /\ allResults' = c.all /\ stack' = WithTop(c.frame)
              /\ callers' = callers \cup {c.caller} /\ phase' = phase
    <3>1. FrameInv(c.frame) /\ GoodRecords(c.all) /\ c.caller \in Task \X Task
      BY <1>1, <2>5, <2>7, <2>11, CompleteIs
    <3> HIDE DEF c
    <3>2. GoodStack(WithTop(c.frame))
      BY <1>1, <1>2, <3>1, WithTopIs
    <3>3. IsFiniteSet(callers \cup {c.caller})
      BY <1>1, FS_AddElement
    <3> QED
      BY <1>1, <1>2, <2>13, <3>1, <3>2, <3>3, PrimedInv
  <2> QED
    BY <1>3, <1>7, <2>12, <2>13
<1> QED
  BY <1>3, <1>6, <1>7

(* The callers of a finished activation are put onto the outer list. *)
LEMMA QueueKept ==
  ASSUME contextWork \in Seq(Task), callers \subseteq Task \X Task, IsFiniteSet(callers),
         QueueCallers
  PROVE  contextWork' \in Seq(Task) /\ Range(contextWork) \subseteq Range(contextWork')
<1> DEFINE p == <<Top.context, Top.fn>>
           S == Callers(p)
<1>1. CASE contextWork' = contextWork
  BY <1>1
<1>2. CASE \E order \in SetToSeqs(S) : contextWork' = contextWork \o order
  <2>1. PICK order \in SetToSeqs(S) : contextWork' = contextWork \o order
    BY <1>2
  <2>2. S \subseteq Task /\ IsFiniteSet(S)
    <3> DEFINE D == {d \in callers : d[1] = p}
    <3>1. D \subseteq callers
      OBVIOUS
    <3>2. S = {d[2] : d \in D}
      BY DEF Callers
    <3> HIDE DEF p, S, D
    <3>3. IsFiniteSet(D)
      BY <3>1, FS_Subset
    <3> DEFINE F == [d \in D |-> d[2]]
    <3>4. F \in Surjection(D, S)
      BY <3>2 DEF Surjection
    <3>5. IsFiniteSet(S)
      BY <3>3, <3>4, FS_Surjection
    <3> QED
      BY <3>1, <3>2, <3>5
  <2> HIDE DEF S
  <2> DEFINE n == Cardinality(S)
  <2>3. n \in Nat
    BY <2>2, FS_CardinalityType
  <2>4. order \in [1..n -> S]
    BY <2>1 DEF SetToSeqs
  <2> HIDE DEF n
  <2>5. order \in [1..n -> Task]
    BY <2>2, <2>4
  <2>6. order \in Seq(Task)
    BY <2>3, <2>5
  <2>7. \A k \in DOMAIN contextWork : k \in DOMAIN contextWork' /\ contextWork'[k] = contextWork[k]
    <3> HIDE DEF S
    <3> QED
      BY <2>1, <2>6
  <2> QED
    BY <2>1, <2>6, <2>7 DEF Range
<1> QED
  BY <1>1, <1>2 DEF QueueCallers

(* A finished activation's results are settled, so they may be recorded. *)
LEMMA RecordedIs ==
  ASSUME mod \in Modules, GoodRecords(allResults), GoodStack(stack), Finished
  PROVE  GoodRecords(Recorded)
<1> DEFINE q == <<Top.context, Top.fn>>
           r == Top.results
<1>1. FrameInv(Top) /\ Top.bb = NoBlock /\ Top.work = << >>
  BY TopIs DEF Finished
<1>2. q \in Task /\ r \in Results
  BY <1>1 DEF FrameInv, FrameOK, FrameSet, Task
<1>3. Settled(q[2], r)
  <2>1. Settled(Top.fn, Top.results)
    BY <1>1, FinishedIsSettled
  <2> QED
    BY <2>1
<1>4. Recorded = Set(allResults, q, r)
  BY DEF Recorded
<1> HIDE DEF q, r
<1> QED
  BY <1>2, <1>3, <1>4, RecordsSet

LEMMA FinishContextKeeps ==
  ASSUME IInv, FinishContext
  PROVE  IInv'
<1>1. GoodRecords(Recorded)
  BY RecordedIs DEF IInv, FinishContext
<1>2. contextWork' \in Seq(Task)
  BY QueueKept DEF IInv, FinishContext
<1>3. GoodStack(<< >>)
  <2>1. << >> \in Seq(FrameSet) /\ Range(<< >>) = {} /\ Len(<< >>) = 0
    BY DEF Range
  <2> QED
    BY <2>1 DEF GoodStack
<1> QED
  BY <1>1, <1>2, <1>3, PrimedInv DEF IInv, FinishContext

LEMMA FinishCallKeeps ==
  ASSUME IInv, FinishCall
  PROVE  IInv'
<1> DEFINE fr == stack[Len(stack) - 1]
           i == Code(fr.fn, fr.bb)[fr.pc]
           c == Complete(fr, i, Recorded)
<1>1. /\ mod \in Modules /\ GoodStack(stack) /\ GoodRecords(allResults)
      /\ contextWork \in Seq(Task) /\ callers \subseteq Task \X Task /\ IsFiniteSet(callers)
      /\ phase \in {"analysis", "crashed", "reported", "running"}
  BY DEF IInv
<1>2. /\ Finished /\ Len(stack) > 1 /\ QueueCallers /\ UNCHANGED <<mod, phase>>
      /\ allResults' = c.all
      /\ stack' = Append(SubSeq(stack, 1, Len(stack) - 2), c.frame)
      /\ callers' = callers \cup {c.caller}
  BY DEF FinishCall
<1>3. GoodRecords(Recorded) /\ contextWork' \in Seq(Task)
  BY <1>1, <1>2, RecordedIs, QueueKept
<1>4. FrameInv(fr) /\ Calling(fr)
  <2> DEFINE k == Len(stack) - 1
  <2>1. stack # << >>
    BY <1>2 DEF Finished
  <2>2. Len(stack) \in Nat /\ \A j \in 1..Len(stack) : FrameInv(stack[j])
    BY <1>1, <2>1, TopIs
  <2>3. \A j \in 1..(Len(stack) - 1) : Calling(stack[j])
    BY <1>1 DEF GoodStack
  <2>4. k \in 1..Len(stack) /\ k \in 1..(Len(stack) - 1)
    BY <1>2, <2>2
  <2> HIDE DEF k
  <2>5. FrameInv(stack[k]) /\ Calling(stack[k])
    BY <2>2, <2>3, <2>4
  <2> QED
    BY <2>5 DEF k
<1>5. i = Code(fr.fn, fr.bb)[fr.pc]
  OBVIOUS
<1> HIDE DEF fr, i
<1>6. FrameInv(c.frame) /\ GoodRecords(c.all) /\ c.caller \in Task \X Task
  BY <1>1, <1>3, <1>4, <1>5, CompleteIs
<1> HIDE DEF c
<1>7. GoodStack(Append(SubSeq(stack, 1, Len(stack) - 2), c.frame))
  BY <1>1, <1>2, <1>6, PopIs
<1>8. IsFiniteSet(callers \cup {c.caller})
  BY <1>1, FS_AddElement
<1>9. callers \cup {c.caller} \subseteq Task \X Task
  BY <1>1, <1>6
<1> QED
  BY <1>1, <1>2, <1>3, <1>6, <1>7, <1>8, <1>9, PrimedInv

-----------------------------------------------------------------------------
LEMMA InitInv == VInit => IInv
<1> SUFFICES ASSUME VInit PROVE IInv
  OBVIOUS
<1> USE DEF VInit, Init
<1>1. mod \in Modules /\ mod.main \in DOMAIN mod.functions
  BY ModuleAssumption DEF WellFormed
<1>2. GoodRecords(allResults)
  <2>1. allResults \in [{} -> Results] /\ DOMAIN allResults = {}
    OBVIOUS
  <2>2. allResults \in MapOf(Task, Results)
    BY <2>1, IsMap
  <2> QED
    BY <2>1, <2>2 DEF GoodRecords
<1>3. GoodStack(stack)
  <2>1. << >> \in Seq(FrameSet) /\ Range(<< >>) = {} /\ Len(<< >>) = 0
    BY DEF Range
  <2> QED
    BY <2>1 DEF GoodStack
<1>4. contextWork \in Seq(Task)
  <2>1. <<[k \in 1..ContextSize |-> NoSite], mod.main>> \in Task
    BY <1>1 DEF Task, Context
  <2> QED
    BY <2>1
<1>5. callers \subseteq Task \X Task /\ IsFiniteSet(callers)
  BY FS_EmptySet
<1> QED
  BY <1>1, <1>2, <1>3, <1>4, <1>5 DEF IInv

LEMMA Unmoved ==
  ASSUME IInv, UNCHANGED <<mod, allResults, contextWork, callers, stack>>,
         phase' \in {"analysis", "crashed", "reported", "running"}
  PROVE  IInv'
BY PrimedInv DEF IInv

LEMMA NextInv == IInv /\ [VNext]_allVars => IInv'
<1> SUFFICES ASSUME IInv, [VNext]_allVars PROVE IInv'
  OBVIOUS
<1>1. CASE Next
  <2>1. CASE TakeContext
    BY <2>1, TakeContextKeeps
  <2>2. CASE TakeBlock
    BY <2>2, TakeBlockKeeps
  <2>3. CASE EnterBlock
    BY <2>3, EnterBlockKeeps
  <2>4. CASE Transfer
    BY <2>4, TransferKeeps
  <2>5. CASE Call
    BY <2>5, CallKeeps
  <2>6. CASE LeaveBlock
    BY <2>6, LeaveBlockKeeps
  <2>7. CASE FinishContext
    BY <2>7, FinishContextKeeps
  <2>8. CASE FinishCall
    BY <2>8, FinishCallKeeps
  <2>9. CASE \E p \in Block : MergePredecessor(p)
    BY <2>9, MergePredecessorKeeps
  <2> QED
    BY <1>1, <2>1, <2>2, <2>3, <2>4, <2>5, <2>6, <2>7, <2>8, <2>9 DEF Next
<1>2. CASE valueRangeAnalysis
  BY <1>2, Unmoved DEF valueRangeAnalysis
<1>3. CASE Execute
  <2>1. CASE Start
    BY <2>1, Unmoved DEF Start
  <2>2. CASE UNCHANGED vars
    BY <2>2, Unmoved DEF IInv, vars
  <2>3. Start \/ UNCHANGED vars
    BY <1>3 DEF Execute, Compute, Access, Branch, Invoke, Return, Stop, Moving, vars
  <2> QED
    BY <2>1, <2>2, <2>3
<1>4. CASE UNCHANGED allVars
  BY <1>4, Unmoved DEF IInv, allVars, vars
<1> QED
  BY <1>1, <1>2, <1>3, <1>4 DEF VNext, Analyse, Terminating

THEOREM InductiveInvariant == VSpec => []IInv
BY InitInv, NextInv, PTL DEF VSpec

(* Whatever programs are analysed, and in whatever order predecessors are
   merged and callers are queued, the recorded results and those of every
   activation are states of ranges: an operation that fails is never recorded
   but ends the analysis. *)
THEOREM TypeCorrect == VSpec => []TypeOK
<1>1. IInv => TypeOK
  <2> SUFFICES ASSUME IInv PROVE TypeOK
    OBVIOUS
  <2>1. ASSUME NEW q \in DOMAIN allResults PROVE AreResults(allResults[q])
    <3>1. allResults[q] \in Results
      BY MapIs DEF IInv, GoodRecords
    <3> QED
      BY <3>1, ResultsAre
  <2>2. ASSUME NEW k \in DOMAIN stack PROVE IsFrame(stack[k])
    <3> DEFINE fr == stack[k]
    <3>1. FrameOK(fr)
      BY DEF IInv, GoodStack, Range, FrameInv
    <3> HIDE DEF fr
    <3>2. fr \in FrameSet /\ fr.fn \in DOMAIN mod.functions /\ fr.work \in Seq(Blocks(fr.fn))
      BY <3>1 DEF FrameOK
    <3>3. /\ AreResults(fr.results) /\ IsState(fr.state)
          /\ IsState(fr.oldEntryState) /\ IsState(fr.oldExitState)
      BY <3>2, StatesAre, StateIs, ResultsAre
    <3>4. Range(fr.work) \subseteq Blocks(fr.fn)
      <4> DEFINE w == fr.work
                 B == Blocks(fr.fn)
      <4>1. w \in Seq(B)
        BY <3>2
      <4> HIDE DEF w, B
      <4>2. Range(w) \subseteq B
        BY <4>1 DEF Range
      <4> QED
        BY <4>2 DEF w, B
    <3>5. fr.bb # NoBlock => fr.pc \in 0..(Len(Code(fr.fn, fr.bb)) + 1)
      <4> HAVE fr.bb # NoBlock
      <4>1. fr.pc \in Nat /\ fr.bb \in Blocks(fr.fn) /\ fr.pc =< Len(Code(fr.fn, fr.bb)) + 1
        BY <3>1, <3>2 DEF FrameOK, FrameSet
      <4>2. Len(Code(fr.fn, fr.bb)) \in Nat
        BY <3>2, <4>1, AtIs DEF IInv
      <4> QED
        BY <4>1, <4>2
    <3>6. fr.fn \in FunctionName
      BY <3>2 DEF FrameSet
    <3>7. IsFrame(fr)
      BY <3>1, <3>3, <3>4, <3>5, <3>6 DEF FrameOK, IsFrame
    <3> QED
      BY <3>7 DEF fr
  <2>3. phase \in {"analysis", "crashed", "reported", "running"}
    BY DEF IInv
  <2> QED
    BY <2>1, <2>2, <2>3 DEF TypeOK
<1> QED
  BY <1>1, InductiveInvariant, PTL

(* No news is forgotten by any activation at any step, and none is missing from
   the results that are recorded. *)
THEOREM NoNewsForgotten == VSpec => []NewsArrives
<1>1. IInv => NewsArrives
  <2> SUFFICES ASSUME IInv PROVE NewsArrives
    OBVIOUS
  <2>1. ASSUME NEW k \in DOMAIN stack, NEW b \in Blocks(stack[k].fn) PROVE Knows(stack[k], b)
    BY DEF IInv, GoodStack, Range, FrameInv
  <2>2. ASSUME NEW q \in DOMAIN allResults PROVE Settled(q[2], allResults[q])
    BY DEF IInv, GoodRecords
  <2> QED
    BY <2>1, <2>2 DEF NewsArrives, Settled
<1> QED
  BY <1>1, InductiveInvariant, PTL

-----------------------------------------------------------------------------
(* What is recorded only grows.  Results that replace others must know as much
   as those did: an activation knows what is recorded of its own pair, which
   nobody else writes to, as no function is on the stack twice. *)
Fact(all, q, x) == Get(Get(all, q, NoResults), x, Empty)
FactKeys(f) == {f} \cup Blocks(f)
Pair(fr) == <<fr.context, fr.fn>>
Site(fr) == Code(fr.fn, fr.bb)[fr.pc]

Linked(st) == \A k \in 1..(Len(st) - 1) : ToCall(st[k], Site(st[k])) = Pair(st[k + 1])
Remembers(all, fr) ==
  \A x \in FactKeys(fr.fn) : Included(Fact(all, Pair(fr), x), Get(fr.results, x, Empty))
Merging(fr) == fr.bb # NoBlock /\ fr.pc = 0 => Included(EntryState(fr.results, fr.bb), fr.state)
GrowStack(all, st) ==
  /\ Linked(st)
  /\ \A k \in 1..Len(st) : Remembers(all, st[k]) /\ Merging(st[k])
GrowInv == NoRecursion => GrowStack(allResults, stack)

Grown(all, more) ==
  /\ DOMAIN all \subseteq DOMAIN more
  /\ \A q \in Task : \A x \in FactKeys(q[2]) : Included(Fact(all, q, x), Fact(more, q, x))

(* Calls that lead from function to function lead to none twice. *)
LEMMA ChainApart ==
  ASSUME NoRecursion, NEW m \in Nat, NEW g \in [1..m -> DOMAIN mod.functions],
         \A k \in 1..(m - 1) : Calls(g[k], g[k + 1])
  PROVE  \A j, k \in 1..m : j < k => g[j] # g[k]
<1> SUFFICES ASSUME NEW j \in 1..m, NEW k \in 1..m, j < k, g[j] = g[k] PROVE FALSE
  OBVIOUS
<1> DEFINE S == {g[x] : x \in j..(k - 1)}
<1>1. S \in SUBSET DOMAIN mod.functions /\ S # {}
  OBVIOUS
<1> HIDE DEF S
<1>2. PICK f \in S : \A h \in S : ~Calls(f, h)
  BY <1>1 DEF NoRecursion
<1>3. PICK x \in j..(k - 1) : f = g[x]
  BY DEF S
<1>4. x \in 1..(m - 1) /\ Calls(g[x], g[x + 1])
  OBVIOUS
<1>5. g[x + 1] \in S
  <2>1. CASE x < k - 1
    <3>1. x + 1 \in j..(k - 1)
      BY <2>1
    <3> QED
      BY <3>1 DEF S
  <2>2. CASE x = k - 1
    <3>1. g[x + 1] = g[j] /\ j \in j..(k - 1)
      BY <2>2
    <3> QED
      BY <3>1 DEF S
  <2> QED
    BY <2>1, <2>2
<1> QED
  BY <1>2, <1>3, <1>4, <1>5

LEMMA CallsSite ==
  ASSUME mod \in Modules, NEW fr, FrameInv(fr), Calling(fr)
  PROVE  /\ Site(fr) \in Instructions(fr.fn) /\ Site(fr).op = "call"
         /\ fr.fn \in DOMAIN mod.functions
         /\ Site(fr).callee \in DOMAIN mod.functions
         /\ Calls(fr.fn, Site(fr).callee)
<1>1. /\ fr.fn \in DOMAIN mod.functions /\ fr.bb \in Blocks(fr.fn)
      /\ fr.pc \in 1..Len(Code(fr.fn, fr.bb)) /\ Site(fr).op = "call"
  BY DEF FrameInv, FrameOK, Calling, Site
<1>2. Site(fr) \in Instructions(fr.fn)
  BY <1>1, AtIs DEF Site
<1> QED
  BY <1>1, <1>2, InstructionIs DEF Calls

(* So no function is on the stack twice, and none calls one that is. *)
LEMMA StackApart ==
  ASSUME mod \in Modules, NoRecursion, NEW st, GoodStack(st), Linked(st)
  PROVE  /\ \A j, k \in 1..Len(st) : j # k => st[j].fn # st[k].fn
         /\ st # << >> /\ Calling(st[Len(st)]) =>
              \A j \in 1..Len(st) : st[j].fn # Site(st[Len(st)]).callee
<1> DEFINE n == Len(st)
           D == DOMAIN mod.functions
           g == [k \in 1..n |-> st[k].fn]
<1>1. /\ n \in Nat /\ (st # << >> => n > 0)
      /\ \A k \in 1..n : FrameInv(st[k]) /\ st[k].fn \in D
      /\ \A k \in 1..(n - 1) : Calling(st[k])
  BY DEF GoodStack, Range, FrameInv, FrameOK
<1>2. ASSUME NEW k \in 1..(n - 1) PROVE Calls(st[k].fn, st[k + 1].fn)
  <2>1. k \in 1..n /\ k + 1 \in 1..n
    BY <1>1
  <2>2. ToCall(st[k], Site(st[k])) = Pair(st[k + 1])
    BY DEF Linked
  <2>3. Site(st[k]).callee = st[k + 1].fn
    BY <2>2 DEF ToCall, Pair
  <2> QED
    BY <1>1, <2>1, <2>3, CallsSite
<1> HIDE DEF n, D
<1>3. g \in [1..n -> D] /\ \A k \in 1..(n - 1) : Calls(g[k], g[k + 1])
  BY <1>1, <1>2
<1>4. \A j, k \in 1..n : j < k => g[j] # g[k]
  <2> HIDE DEF g
  <2> QED
    BY <1>1, <1>3, ChainApart DEF D
<1>5. \A j, k \in 1..n : j # k => st[j].fn # st[k].fn
  BY <1>1, <1>4
<1>6. ASSUME st # << >>, Calling(st[n]), NEW i \in 1..n
      PROVE  st[i].fn # Site(st[n]).callee
  <2> DEFINE c == Site(st[n]).callee
             h == [k \in 1..(n + 1) |-> IF k = n + 1 THEN c ELSE st[k].fn]
  <2>1. c \in D /\ Calls(st[n].fn, c)
    BY <1>1, <1>6, CallsSite DEF D
  <2> HIDE DEF c
  <2>2. h \in [1..(n + 1) -> D]
    BY <1>1, <2>1
  <2>3. ASSUME NEW k \in 1..n PROVE Calls(h[k], h[k + 1])
    <3>1. CASE k = n
      BY <1>1, <2>1, <3>1
    <3>2. CASE k # n
      BY <1>1, <1>2, <3>2
    <3> QED
      BY <3>1, <3>2
  <2>4. h[i] = st[i].fn /\ h[n + 1] = c
    BY <1>1
  <2> HIDE DEF h
  <2>5. \A j, k \in 1..(n + 1) : j < k => h[j] # h[k]
    <3> DEFINE m == n + 1
    <3>1. m \in Nat /\ h \in [1..m -> D] /\ \A k \in 1..(m - 1) : Calls(h[k], h[k + 1])
      BY <1>1, <2>2, <2>3
    <3> HIDE DEF m
    <3>2. \A j, k \in 1..m : j < k => h[j] # h[k]
      BY <3>1, ChainApart DEF D
    <3> QED
      BY <3>2 DEF m
  <2> QED
    BY <1>1, <2>4, <2>5 DEF c
<1> QED
  BY <1>5, <1>6 DEF n

-----------------------------------------------------------------------------
(* Facts: what a write changes of them. *)
LEMMA FactIs ==
  ASSUME mod \in Modules, NEW all, GoodRecords(all), NEW q, NEW x
  PROVE  Fact(all, q, x) \in State
<1> DEFINE r == Get(all, q, NoResults)
<1>1. r \in Results
  BY RecordsGet
<1> HIDE DEF r
<1>2. Get(r, x, Empty) \in State
  BY <1>1, EmptyIs, GetMap DEF Results
<1> QED
  BY <1>2 DEF Fact, r

LEMMA FactSet ==
  \A all, p, r, q, x :
    Fact(Set(all, p, r), q, x) = IF q = p THEN Get(r, x, Empty) ELSE Fact(all, q, x)
<1> TAKE all, p, r, q, x
<1>1. Get(Set(all, p, r), p, NoResults) = r
  BY GetSet
<1>2. q # p => Get(Set(all, p, r), q, NoResults) = Get(all, q, NoResults)
  BY GetSet
<1> QED
  BY <1>1, <1>2 DEF Fact

LEMMA FactSummary ==
  \A all, p, s, q, x :
    Fact(WithSummary(all, p, s), q, x) = IF q = p /\ x = p[2] THEN s ELSE Fact(all, q, x)
<1> TAKE all, p, s, q, x
<1> DEFINE old == Get(all, p, NoResults)
           r == Set(old, p[2], s)
<1>1. WithSummary(all, p, s) = Set(all, p, r)
  BY DEF WithSummary
<1>2. Get(r, p[2], Empty) = s
  BY GetSet
<1>3. x # p[2] => Get(r, x, Empty) = Get(old, x, Empty)
  BY GetSet
<1>4. q = p => Get(old, x, Empty) = Fact(all, q, x)
  BY DEF Fact
<1> HIDE DEF r, old
<1>5. Fact(Set(all, p, r), q, x) = IF q = p THEN Get(r, x, Empty) ELSE Fact(all, q, x)
  BY FactSet
<1> QED
  BY <1>1, <1>2, <1>3, <1>4, <1>5

LEMMA GrownSelf ==
  ASSUME mod \in Modules, NEW all, GoodRecords(all)
  PROVE  Grown(all, all)
BY FactIs, IncludedSelf DEF Grown

LEMMA GrownIn ==
  ASSUME mod \in Modules, NEW a, NEW b, NEW c, GoodRecords(a), GoodRecords(b), GoodRecords(c),
         Grown(a, b), Grown(b, c)
  PROVE  Grown(a, c)
<1>1. ASSUME NEW q \in Task, NEW x \in FactKeys(q[2])
      PROVE  Included(Fact(a, q, x), Fact(c, q, x))
  <2>1. Fact(a, q, x) \in State /\ Fact(b, q, x) \in State /\ Fact(c, q, x) \in State
    BY FactIs
  <2>2. Included(Fact(a, q, x), Fact(b, q, x)) /\ Included(Fact(b, q, x), Fact(c, q, x))
    BY DEF Grown
  <2> QED
    BY <2>1, <2>2, IncludedIn
<1> QED
  BY <1>1 DEF Grown

(* A summary that says more. *)
LEMMA SummaryGrown ==
  ASSUME mod \in Modules, NEW all, GoodRecords(all), NEW p \in Task, NEW s \in State,
         Included(Summary(all, p), s)
  PROVE  Grown(all, WithSummary(all, p, s))
<1> DEFINE u == WithSummary(all, p, s)
<1>1. \A q, x : Fact(u, q, x) = IF q = p /\ x = p[2] THEN s ELSE Fact(all, q, x)
  BY FactSummary
<1>2. DOMAIN all \subseteq DOMAIN u
  <2> DEFINE r == Set(Get(all, p, NoResults), p[2], s)
  <2>1. u = Set(all, p, r)
    BY DEF WithSummary
  <2> HIDE DEF r, u
  <2>2. DOMAIN u = DOMAIN all \cup {p}
    BY <2>1, SetIs
  <2> QED
    BY <2>2
<1> HIDE DEF u
<1>3. Fact(all, p, p[2]) = Summary(all, p)
  BY DEF Fact, Summary
<1>4. ASSUME NEW q \in Task, NEW x \in FactKeys(q[2])
      PROVE  Included(Fact(all, q, x), Fact(u, q, x))
  <2>1. CASE q = p /\ x = p[2]
    BY <1>1, <1>3, <2>1
  <2>2. CASE ~(q = p /\ x = p[2])
    BY <1>1, <2>2, FactIs, IncludedSelf
  <2> QED
    BY <2>1, <2>2
<1>5. Grown(all, u)
  BY <1>2, <1>4 DEF Grown
<1> QED
  BY <1>5 DEF u

LEMMA TouchIncluded ==
  ASSUME NEW s \in State, NEW k
  PROVE  Included(s, Touch(s, k, Unknown))
<1> DEFINE t == Touch(s, k, Unknown)
<1>1. DOMAIN t = DOMAIN s \cup {k} /\ \A x \in DOMAIN s : t[x] = s[x]
  BY TouchIs
<1> HIDE DEF t
<1>2. \A x \in DOMAIN s : s[x] \in RangeValue
  BY MapIs DEF State
<1>3. Included(s, t)
  BY <1>1, <1>2, BelowSelf DEF Included
<1> QED
  BY <1>3 DEF t

(* A call that is complete has recorded at most that nothing is known of what
   its callee returns. *)
LEMMA CompleteGrows ==
  ASSUME mod \in Modules, NEW fr, FrameInv(fr), Calling(fr), NEW i, i = Site(fr),
         NEW all, GoodRecords(all)
  PROVE  /\ Grown(all, Complete(fr, i, all).all)
         /\ \A q, x : q # ToCall(fr, i) => Fact(Complete(fr, i, all).all, q, x) = Fact(all, q, x)
<1> DEFINE p == ToCall(fr, i)
           s == Summary(all, p)
           v == Touch(s, i.callee, Unknown)
<1>1. p \in Task
  BY CompleteIs DEF Site
<1>2. s \in State
  BY SummaryIs
<1>3. Complete(fr, i, all).all = WithSummary(all, p, v)
  BY DEF Complete
<1>4. i.callee \in StateKey /\ Unknown \in RangeValue
  <2>1. i.callee \in DOMAIN mod.functions
    BY CallsSite
  <2> QED
    BY <2>1, KeysApart, RangeShapes
<1>5. \A q, x : q # p => Fact(WithSummary(all, p, v), q, x) = Fact(all, q, x)
  BY FactSummary
<1> HIDE DEF p
<1>6. v \in State /\ Included(s, v)
  <2> HIDE DEF s
  <2>1. v \in MapOf(StateKey, RangeValue)
    BY <1>2, <1>4, TouchMap DEF State
  <2>2. Included(s, v)
    BY <1>2, TouchIncluded
  <2> QED
    BY <2>1, <2>2 DEF State
<1> HIDE DEF v
<1>7. Grown(all, WithSummary(all, p, v))
  BY <1>1, <1>6, SummaryGrown DEF s
<1> QED
  BY <1>3, <1>5, <1>7 DEF p

-----------------------------------------------------------------------------
(* An activation after a step: it belongs to the same pair and has forgotten
   nothing of what it knew. *)
Carries(fr, g) ==
  /\ Pair(g) = Pair(fr) /\ g.fn = fr.fn
  /\ \A x \in FactKeys(fr.fn) : Included(Get(fr.results, x, Empty), Get(g.results, x, Empty))
  /\ Merging(g)

LEMMA CarriesSame ==
  ASSUME NEW fr \in FrameSet, NEW g, g.context = fr.context, g.fn = fr.fn,
         \A x \in FactKeys(fr.fn) : Get(g.results, x, Empty) = Get(fr.results, x, Empty),
         Merging(g)
  PROVE  Carries(fr, g)
<1>1. \A x : Get(fr.results, x, Empty) \in State
  BY StatesAre
<1>2. \A x \in FactKeys(fr.fn) : Included(Get(fr.results, x, Empty), Get(g.results, x, Empty))
  BY <1>1, IncludedSelf
<1> QED
  BY <1>2 DEF Carries, Pair

LEMMA TakeCarries ==
  ASSUME mod \in Modules, NEW fr, FrameInv(fr), NEW b \in Blocks(fr.fn),
         NEW x, x = Exit(fr.fn, b).id, NEW r, r = Touch(Touch(fr.results, b, Empty), x, Empty),
         NEW g, g.context = fr.context, g.fn = fr.fn, g.results = r, g.bb = b, g.state = r[b]
  PROVE  Carries(fr, g)
<1>1. fr \in FrameSet /\ fr.fn \in DOMAIN mod.functions
  BY DEF FrameInv, FrameOK
<1>2. fr.results \in Results /\ b \in Keys /\ x \in Keys
  BY <1>1, StatesAre, AtIs, KeysApart
<1>3. /\ r \in Results /\ b \in DOMAIN r
      /\ \A k : Get(r, k, Empty) = Get(fr.results, k, Empty)
  BY <1>2, TouchedTwice
<1>4. EntryState(r, b) = r[b] /\ r[b] \in State
  BY <1>3, MapIs DEF EntryState, Get, Results
<1>5. Merging(g)
  BY <1>4, IncludedSelf DEF Merging
<1> QED
  BY <1>1, <1>3, <1>5, CarriesSame

LEMMA MergeCarries ==
  ASSUME mod \in Modules, NEW fr, FrameInv(fr), Merging(fr), NEW p \in fr.toMerge,
         NEW g, g.context = fr.context, g.fn = fr.fn, g.results = fr.results, g.bb = fr.bb,
         g.state = Merge(fr.state, Get(fr.results, Exit(fr.fn, p).id, Empty))
  PROVE  Carries(fr, g)
<1> DEFINE e == Get(fr.results, Exit(fr.fn, p).id, Empty)
<1>1. fr \in FrameSet /\ fr.bb # NoBlock /\ fr.pc = 0
  BY DEF FrameInv, FrameOK, Kept
<1>2. fr.state \in State /\ e \in State /\ EntryState(fr.results, fr.bb) \in State
  BY <1>1, StatesAre
<1>3. Included(EntryState(fr.results, fr.bb), fr.state)
  BY <1>1 DEF Merging
<1> HIDE DEF e
<1>4. Merge(fr.state, e) \in State /\ Included(fr.state, Merge(fr.state, e))
  BY <1>2, MergeStates
<1>5. Included(EntryState(fr.results, fr.bb), Merge(fr.state, e))
  BY <1>2, <1>3, <1>4, IncludedIn
<1>6. Merging(g)
  BY <1>5 DEF Merging, e
<1> QED
  BY <1>1, <1>6, CarriesSame

LEMMA EnterCarries ==
  ASSUME mod \in Modules, NEW fr, FrameInv(fr), Merging(fr),
         fr.bb # NoBlock, fr.pc = 0, fr.toMerge = {},
         NEW r, r = Touch(fr.results, fr.fn, Empty), NEW s, s = Entered(fr),
         NEW g, g.context = fr.context, g.fn = fr.fn,
         \/ g.bb = NoBlock /\ g.results = r
         \/ g.pc = 1 /\ g.results = Set(r, fr.bb, s)
  PROVE  Carries(fr, g)
<1>1. fr \in FrameSet /\ fr.fn \in DOMAIN mod.functions /\ fr.bb \in Blocks(fr.fn) /\ s \in State
  BY EnteringIs
<1>2. Merging(g)
  BY DEF Merging
<1>3. \A x : Get(r, x, Empty) = Get(fr.results, x, Empty)
  BY GetTouch
<1>4. CASE g.results = r
  BY <1>1, <1>2, <1>3, <1>4, CarriesSame
<1>5. CASE g.results = Set(r, fr.bb, s)
  <2>1. Get(g.results, fr.bb, Empty) = s
    BY <1>5, GetSet
  <2>2. \A x : x # fr.bb => Get(g.results, x, Empty) = Get(r, x, Empty)
    BY <1>5, GetSet
  <2>3. /\ fr.state \in State /\ \A x : Get(fr.results, x, Empty) \in State
        /\ EntryState(fr.results, fr.bb) \in State
    BY <1>1, StatesAre
  <2>4. Included(fr.state, s)
    <3> DEFINE e == Get(fr.results, fr.fn, Empty)
    <3>1. e \in State
      BY <2>3
    <3> HIDE DEF e
    <3>2. Included(fr.state, Merge(fr.state, e))
      BY <2>3, <3>1, MergeStates
    <3> QED
      BY <3>2 DEF Entered, e
  <2>5. Included(EntryState(fr.results, fr.bb), s)
    <3>1. Included(EntryState(fr.results, fr.bb), fr.state)
      BY DEF Merging
    <3> QED
      BY <1>1, <2>3, <2>4, <3>1, IncludedIn
  <2>6. ASSUME NEW x \in FactKeys(fr.fn)
        PROVE  Included(Get(fr.results, x, Empty), Get(g.results, x, Empty))
    <3>1. CASE x = fr.bb
      BY <2>1, <2>5, <3>1 DEF EntryState
    <3>2. CASE x # fr.bb
      BY <1>3, <2>2, <2>3, <3>2, IncludedSelf
    <3> QED
      BY <3>1, <3>2
  <2> QED
    BY <1>2, <2>6 DEF Carries, Pair
<1> QED
  BY <1>4, <1>5

LEMMA AfterCarries ==
  ASSUME mod \in Modules, NEW fr, FrameInv(fr), fr.bb # NoBlock,
         fr.pc \in 1..Len(Code(fr.fn, fr.bb)),
         NEW i, i = Code(fr.fn, fr.bb)[fr.pc], NEW s
  PROVE  Carries(fr, After(fr, i, s))
<1> DEFINE r == Set(fr.results, i.id, s)
           g == [fr EXCEPT !.state = s, !.results = r, !.pc = fr.pc + 1]
<1>1. fr \in FrameSet /\ fr.fn \in DOMAIN mod.functions /\ fr.bb \in Blocks(fr.fn)
  BY DEF FrameInv, FrameOK
<1>2. i \in Instructions(fr.fn) /\ i.id \in Value /\ i.id # fr.fn
  BY <1>1, AtIs, KeysApart
<1>3. \A b \in Blocks(fr.fn) : b # i.id
  BY <1>1, <1>2, KeysApart
<1>4. \A x : x # i.id => Get(r, x, Empty) = Get(fr.results, x, Empty)
  BY GetSet
<1>5. After(fr, i, s) = g
  BY DEF After
<1> HIDE DEF r
<1>6. g.context = fr.context /\ g.fn = fr.fn /\ g.results = r /\ g.pc = fr.pc + 1
  BY <1>1 DEF FrameSet
<1> HIDE DEF g
<1>7. fr.pc + 1 # 0
  BY <1>1 DEF FrameSet
<1>8. Merging(g)
  BY <1>6, <1>7 DEF Merging
<1>9. \A x \in FactKeys(fr.fn) : Get(g.results, x, Empty) = Get(fr.results, x, Empty)
  BY <1>2, <1>3, <1>4, <1>6 DEF FactKeys
<1> QED
  BY <1>1, <1>5, <1>6, <1>8, <1>9, CarriesSame

LEMMA CallingCarries ==
  ASSUME mod \in Modules, NEW fr, FrameInv(fr), Calling(fr), NEW s
  PROVE  Carries(fr, [fr EXCEPT !.state = s])
<1> DEFINE g == [fr EXCEPT !.state = s]
<1>1. fr \in FrameSet
  BY DEF FrameInv, FrameOK
<1>2. g.context = fr.context /\ g.fn = fr.fn /\ g.results = fr.results /\ g.pc = fr.pc
  BY <1>1 DEF FrameSet
<1> HIDE DEF g
<1>3. Merging(g)
  <2>1. fr.pc # 0
    BY <1>1 DEF Calling, FrameSet
  <2> QED
    BY <1>2, <2>1 DEF Merging
<1>4. Carries(fr, g)
  BY <1>1, <1>2, <1>3, CarriesSame
<1> QED
  BY <1>4 DEF g

(* What a return adds to what was returned. *)
LEMMA ReturnGrows ==
  ASSUME mod \in Modules, NEW fr \in FrameSet, fr.fn \in DOMAIN mod.functions,
         NEW i \in Instructions(fr.fn)
  PROVE  LET r == WithReturn(fr, i)
             old == Get(Get(fr.results, fr.fn, Empty), fr.fn, Unknown)
             new == Join(old, ReturnValue(i, fr.state)) IN
         /\ Get(r, fr.fn, Empty) = Set(Get(fr.results, fr.fn, Empty), fr.fn, new)
         /\ old \in RangeValue /\ ReturnValue(i, fr.state) \in RangeValue /\ new \in RangeValue
         /\ \A x : Included(Get(fr.results, x, Empty), Get(r, x, Empty))
<1> DEFINE s == Get(fr.results, fr.fn, Empty)
           old == Get(s, fr.fn, Unknown)
           v == ReturnValue(i, fr.state)
           new == Join(old, v)
           t == Set(s, fr.fn, new)
           r == WithReturn(fr, i)
<1>1. fr.state \in State /\ s \in State /\ \A x : Get(fr.results, x, Empty) \in State
  BY StatesAre
<1>2. Unknown \in RangeValue
  BY RangeShapes
<1>3. r = Set(fr.results, fr.fn, t)
  BY DEF WithReturn
<1>4. v \in RangeValue
  BY <1>1, <1>2, GetMap DEF ReturnValue, State
<1>5. old \in RangeValue
  <2> HIDE DEF s
  <2> QED
    BY <1>1, <1>2, GetMap DEF State
<1>6. new \in RangeValue /\ Below(old, new)
  <2> HIDE DEF old, v
  <2> QED
    BY <1>4, <1>5, JoinAbove
<1>7. Included(s, t)
  <2> HIDE DEF new, s
  <2>1. DOMAIN t = DOMAIN s \cup {fr.fn}
    BY SetIs
  <2>2. t[fr.fn] = new
    BY SetIs
  <2>3. \A x \in DOMAIN s : x # fr.fn => t[x] = s[x]
    BY SetIs
  <2>4. fr.fn \in DOMAIN s => s[fr.fn] = old
    BY DEF Get
  <2>5. \A x \in DOMAIN s : s[x] \in RangeValue
    BY <1>1, MapIs DEF State
  <2> HIDE DEF t, old
  <2> QED
    BY <1>6, <2>1, <2>2, <2>3, <2>4, <2>5, BelowSelf DEF Included
<1> HIDE DEF t
<1>8. Get(r, fr.fn, Empty) = t
  BY <1>3, GetSet
<1>9. \A x : x # fr.fn => Get(r, x, Empty) = Get(fr.results, x, Empty)
  BY <1>3, GetSet
<1> HIDE DEF r
<1>10. ASSUME NEW x PROVE Included(Get(fr.results, x, Empty), Get(r, x, Empty))
  <2>1. CASE x = fr.fn
    BY <1>7, <1>8, <2>1
  <2>2. CASE x # fr.fn
    BY <1>1, <1>9, <2>2, IncludedSelf
  <2> QED
    BY <2>1, <2>2
<1> QED
  BY <1>4, <1>5, <1>6, <1>8, <1>10 DEF r, t, s

LEMMA LeaveCarries ==
  ASSUME mod \in Modules, NEW fr, FrameInv(fr), fr.bb # NoBlock,
         NEW g, g.context = fr.context, g.fn = fr.fn, g.bb = NoBlock,
         g.results = fr.results \/ g.results = WithReturn(fr, Exit(fr.fn, fr.bb))
  PROVE  Carries(fr, g)
<1>1. fr \in FrameSet /\ fr.fn \in DOMAIN mod.functions /\ fr.bb \in Blocks(fr.fn)
  BY DEF FrameInv, FrameOK
<1>2. Merging(g)
  BY DEF Merging
<1>3. Exit(fr.fn, fr.bb) \in Instructions(fr.fn)
  BY <1>1, AtIs
<1>4. CASE g.results = fr.results
  BY <1>1, <1>2, <1>4, CarriesSame
<1>5. CASE g.results = WithReturn(fr, Exit(fr.fn, fr.bb))
  <2>1. \A x : Included(Get(fr.results, x, Empty), Get(g.results, x, Empty))
    BY <1>1, <1>3, <1>5, ReturnGrows
  <2> QED
    BY <1>2, <2>1 DEF Carries, Pair
<1> QED
  BY <1>4, <1>5

-----------------------------------------------------------------------------
(* The stack after a step: its innermost activation carries on, calls, or
   hands back to the one below. *)
LEMMA RemembersCarried ==
  ASSUME mod \in Modules, NEW all, GoodRecords(all), NEW more,
         NEW fr \in FrameSet, NEW g \in FrameSet, Remembers(all, fr), Carries(fr, g),
         \A x : Fact(more, Pair(fr), x) = Fact(all, Pair(fr), x)
  PROVE  Remembers(more, g)
<1> SUFFICES ASSUME NEW x \in FactKeys(fr.fn)
             PROVE  Included(Fact(more, Pair(g), x), Get(g.results, x, Empty))
  BY DEF Remembers, Carries
<1>1. Fact(more, Pair(g), x) = Fact(all, Pair(fr), x)
  BY DEF Carries
<1>2. /\ Included(Fact(all, Pair(fr), x), Get(fr.results, x, Empty))
      /\ Included(Get(fr.results, x, Empty), Get(g.results, x, Empty))
  BY DEF Carries, Remembers
<1>3. /\ Fact(all, Pair(fr), x) \in State /\ Get(fr.results, x, Empty) \in State
      /\ Get(g.results, x, Empty) \in State
  BY FactIs, StatesAre
<1> QED
  BY <1>1, <1>2, <1>3, IncludedIn

LEMMA RemembersStays ==
  ASSUME NEW all, NEW more, NEW fr, Remembers(all, fr),
         \A x : Fact(more, Pair(fr), x) = Fact(all, Pair(fr), x)
  PROVE  Remembers(more, fr)
BY DEF Remembers

LEMMA GrowTop ==
  ASSUME mod \in Modules, GoodRecords(allResults), GoodStack(stack), stack # << >>,
         GrowStack(allResults, stack), NEW g, FrameInv(g), Carries(Top, g), NEW all,
         \A k \in 1..Len(stack) : \A x :
           Fact(all, Pair(stack[k]), x) = Fact(allResults, Pair(stack[k]), x)
  PROVE  GrowStack(all, WithTop(g))
<1> DEFINE st == WithTop(g)
           n == Len(stack)
<1>1. /\ n \in Nat /\ n > 0 /\ stack \in Seq(FrameSet) /\ Top = stack[n]
      /\ \A k \in 1..n : stack[k] \in FrameSet
      /\ g \in FrameSet
  BY TopIs DEF GoodStack, FrameInv, FrameOK, Top
<1>2. Len(st) = n /\ st[n] = g /\ \A k \in 1..n : k # n => st[k] = stack[k]
  BY <1>1 DEF WithTop
<1>3. /\ \A k \in 1..(n - 1) : ToCall(stack[k], Site(stack[k])) = Pair(stack[k + 1])
      /\ \A k \in 1..n : Remembers(allResults, stack[k]) /\ Merging(stack[k])
      /\ \A k \in 1..n : \A x : Fact(all, Pair(stack[k]), x) = Fact(allResults, Pair(stack[k]), x)
  BY DEF GrowStack, Linked
<1>4. Pair(g) = Pair(stack[n]) /\ Merging(g)
  BY <1>1 DEF Carries
<1> HIDE DEF st, n
<1>5. ASSUME NEW k \in 1..(n - 1) PROVE ToCall(st[k], Site(st[k])) = Pair(st[k + 1])
  <2>1. k \in 1..n /\ k # n /\ k + 1 \in 1..n
    BY <1>1
  <2>2. st[k] = stack[k] /\ Pair(st[k + 1]) = Pair(stack[k + 1])
    BY <1>2, <1>4, <2>1
  <2> QED
    BY <1>3, <2>2
<1>6. ASSUME NEW k \in 1..n PROVE Remembers(all, st[k]) /\ Merging(st[k])
  <2>1. CASE k = n
    <3>1. Remembers(allResults, stack[n]) /\ n \in 1..n
      BY <1>3, <2>1
    <3>2. stack[n] \in FrameSet /\ Carries(stack[n], g)
      BY <1>1, <3>1
    <3>3. \A x : Fact(all, Pair(stack[n]), x) = Fact(allResults, Pair(stack[n]), x)
      BY <1>3, <3>1
    <3>4. Remembers(all, g)
      BY <1>1, <3>1, <3>2, <3>3, RemembersCarried
    <3> QED
      BY <1>2, <1>4, <2>1, <3>4
  <2>2. CASE k # n
    <3>1. st[k] = stack[k]
      BY <1>2, <2>2
    <3>2. Remembers(all, stack[k])
      BY <1>3, RemembersStays
    <3> QED
      BY <1>3, <3>1, <3>2
  <2> QED
    BY <2>1, <2>2
<1>7. Linked(st)
  BY <1>2, <1>5 DEF Linked
<1>8. GrowStack(all, st)
  BY <1>2, <1>6, <1>7 DEF GrowStack
<1> QED
  BY <1>8 DEF st

LEMMA GrowPush ==
  ASSUME NEW all, NEW st, GoodStack(st), st # << >>, GrowStack(all, st), NEW h,
         ToCall(st[Len(st)], Site(st[Len(st)])) = Pair(h), Remembers(all, h), Merging(h)
  PROVE  GrowStack(all, Append(st, h))
<1> DEFINE u == Append(st, h)
           n == Len(st)
<1>1. n \in Nat /\ n > 0 /\ Len(u) = n + 1 /\ u[n + 1] = h /\ \A k \in 1..n : u[k] = st[k]
  BY DEF GoodStack
<1>2. /\ \A k \in 1..(n - 1) : ToCall(st[k], Site(st[k])) = Pair(st[k + 1])
      /\ \A k \in 1..n : Remembers(all, st[k]) /\ Merging(st[k])
      /\ ToCall(st[n], Site(st[n])) = Pair(h)
  BY DEF GrowStack, Linked
<1> HIDE DEF u, n
<1>3. ASSUME NEW k \in 1..n PROVE ToCall(u[k], Site(u[k])) = Pair(u[k + 1])
  <2>1. CASE k = n
    BY <1>1, <1>2, <2>1
  <2>2. CASE k # n
    <3>1. k \in 1..(n - 1) /\ k + 1 \in 1..n
      BY <1>1, <2>2
    <3> QED
      BY <1>1, <1>2, <3>1
  <2> QED
    BY <2>1, <2>2
<1>4. ASSUME NEW k \in 1..(n + 1) PROVE Remembers(all, u[k]) /\ Merging(u[k])
  <2>1. CASE k = n + 1
    BY <1>1, <2>1
  <2>2. CASE k # n + 1
    <3>1. k \in 1..n
      BY <1>1, <2>2
    <3> QED
      BY <1>1, <1>2, <3>1
  <2> QED
    BY <2>1, <2>2
<1>5. Linked(u)
  BY <1>1, <1>3 DEF Linked
<1>6. GrowStack(all, u)
  BY <1>1, <1>4, <1>5 DEF GrowStack
<1> QED
  BY <1>6 DEF u

LEMMA GrowPop ==
  ASSUME mod \in Modules, GoodRecords(allResults), GoodStack(stack), Len(stack) > 1,
         GrowStack(allResults, stack), NEW g, FrameInv(g), Carries(stack[Len(stack) - 1], g),
         NEW all,
         \A k \in 1..(Len(stack) - 1) : \A x :
           Fact(all, Pair(stack[k]), x) = Fact(allResults, Pair(stack[k]), x)
  PROVE  GrowStack(all, Append(SubSeq(stack, 1, Len(stack) - 2), g))
<1> DEFINE n == Len(stack) - 2
           t == SubSeq(stack, 1, n)
           u == Append(t, g)
<1>1. stack \in Seq(FrameSet) /\ n \in Nat /\ Len(stack) = n + 2 /\ g \in FrameSet
  BY DEF GoodStack, FrameInv, FrameOK
<1>2. t \in Seq(FrameSet) /\ Len(t) = n /\ \A k \in 1..n : t[k] = stack[k]
  BY <1>1
<1>3. /\ \A k \in 1..(n + 1) : ToCall(stack[k], Site(stack[k])) = Pair(stack[k + 1])
      /\ \A k \in 1..(n + 2) : Remembers(allResults, stack[k]) /\ Merging(stack[k])
      /\ \A k \in 1..(n + 2) : stack[k] \in FrameSet
  BY <1>1 DEF GrowStack, Linked
<1>4. \A k \in 1..(n + 1) : \A x : Fact(all, Pair(stack[k]), x) = Fact(allResults, Pair(stack[k]), x)
  BY <1>1
<1>5. Carries(stack[n + 1], g) /\ Pair(g) = Pair(stack[n + 1]) /\ Merging(g)
  <2>1. Len(stack) - 1 = n + 1
    BY <1>1
  <2> HIDE DEF n
  <2>2. Carries(stack[n + 1], g)
    BY <2>1
  <2> QED
    BY <2>2 DEF Carries
<1> HIDE DEF n, t
<1>6. Len(u) = n + 1 /\ u[n + 1] = g /\ \A k \in 1..n : u[k] = stack[k]
  BY <1>1, <1>2
<1> HIDE DEF u
<1>7. ASSUME NEW k \in 1..n PROVE ToCall(u[k], Site(u[k])) = Pair(u[k + 1])
  <2>1. k \in 1..(n + 1) /\ k + 1 \in 1..(n + 1)
    BY <1>1
  <2>2. Pair(u[k + 1]) = Pair(stack[k + 1])
    BY <1>1, <1>5, <1>6, <2>1
  <2> QED
    BY <1>3, <1>6, <2>1, <2>2
<1>8. ASSUME NEW k \in 1..(n + 1) PROVE Remembers(all, u[k]) /\ Merging(u[k])
  <2>1. k \in 1..(n + 2)
    BY <1>1
  <2>2. CASE k = n + 1
    <3>1. stack[k] \in FrameSet /\ Remembers(allResults, stack[k]) /\ Carries(stack[k], g)
      BY <1>3, <1>5, <2>1, <2>2
    <3>2. \A x : Fact(all, Pair(stack[k]), x) = Fact(allResults, Pair(stack[k]), x)
      BY <1>4
    <3>3. Remembers(all, g)
      BY <1>1, <3>1, <3>2, RemembersCarried
    <3> QED
      BY <1>5, <1>6, <2>2, <3>3
  <2>3. CASE k # n + 1
    <3>1. k \in 1..n
      BY <1>1, <2>3
    <3>2. u[k] = stack[k] /\ Remembers(allResults, stack[k]) /\ Merging(stack[k])
      BY <1>3, <1>6, <2>1, <3>1
    <3>3. Remembers(all, stack[k])
      BY <1>4, <3>2, RemembersStays
    <3> QED
      BY <3>2, <3>3
  <2> QED
    BY <2>2, <2>3
<1>9. Linked(u)
  <2>1. Len(u) - 1 = n
    BY <1>1, <1>6
  <2> QED
    BY <1>7, <2>1 DEF Linked
<1>10. GrowStack(all, u)
  BY <1>6, <1>8, <1>9 DEF GrowStack
<1> QED
  BY <1>10 DEF u, t, n

(* A new activation starts from what is recorded of its pair. *)
LEMMA FreshRemembers ==
  ASSUME NEW all, NEW p \in Task, NEW r, r = Get(all, p, NoResults), r \in Results,
         NEW h, h = Frame(p[1], p[2], r)
  PROVE  Pair(h) = p /\ Remembers(all, h) /\ Merging(h)
<1>1. p = <<p[1], p[2]>>
  BY DEF Task
<1>2. /\ h.context = p[1] /\ h.fn = p[2] /\ h.bb = NoBlock
      /\ h.results = IF p[2] \in DOMAIN r THEN r
                     ELSE [k \in DOMAIN r \cup {i.id : i \in Instructions(p[2])} |-> Get(r, k, Empty)]
  BY DEF Frame
<1>3. Pair(h) = p
  BY <1>1, <1>2 DEF Pair
<1>4. ASSUME NEW x PROVE Get(h.results, x, Empty) = Fact(all, p, x)
  <2> DEFINE D == DOMAIN r \cup {i.id : i \in Instructions(p[2])}
             w == [k \in D |-> Get(r, k, Empty)]
  <2>1. Fact(all, p, x) = Get(r, x, Empty)
    BY DEF Fact
  <2>2. h.results = r \/ h.results = w
    BY <1>2
  <2>3. Get(w, x, Empty) = Get(r, x, Empty)
    <3>1. DOMAIN r \subseteq D
      OBVIOUS
    <3> HIDE DEF D
    <3>2. DOMAIN w = D /\ \A k \in D : w[k] = Get(r, k, Empty)
      OBVIOUS
    <3> HIDE DEF w
    <3> QED
      BY <3>1, <3>2 DEF Get
  <2> HIDE DEF w
  <2> QED
    BY <2>1, <2>2, <2>3
<1>5. \A x : Fact(all, p, x) \in State
  BY EmptyIs, GetMap DEF Fact, Results
<1>6. Remembers(all, h)
  BY <1>3, <1>4, <1>5, IncludedSelf DEF Remembers
<1>7. Merging(h)
  BY <1>2 DEF Merging
<1> QED
  BY <1>3, <1>6, <1>7

-----------------------------------------------------------------------------
(* The steps. *)
Growing == GrowInv' /\ (NoRecursion => Grown(allResults, allResults'))

LEMMA GrowingIs ==
  ASSUME mod' = mod,
         NoRecursion => GrowStack(allResults', stack') /\ Grown(allResults, allResults')
  PROVE  Growing
<1>1. \A f : Fn(f)' = Fn(f)
  BY DEF Fn
<1>2. /\ \A f : Blocks(f)' = Blocks(f)
      /\ \A f, b : Code(f, b)' = Code(f, b)
  BY <1>1 DEF Blocks, Code
<1>3. \A f : Instructions(f)' = Instructions(f)
  BY <1>2 DEF Instructions
<1>4. \A f, h : Calls(f, h)' <=> Calls(f, h)
  BY <1>3 DEF Calls
<1>5. NoRecursion' <=> NoRecursion
  BY <1>4 DEF NoRecursion
<1>6. ASSUME GrowStack(allResults', stack') PROVE GrowStack(allResults, stack)'
  BY <1>2, <1>6 DEF GrowStack, Linked, Remembers, FactKeys, Site, Merging
<1> QED
  BY <1>5, <1>6 DEF Growing, GrowInv

LEMMA StackGrows ==
  ASSUME IInv, GrowInv, UNCHANGED <<mod, allResults>>, stack # << >>,
         NEW g, FrameInv(g), Merging(Top) => Carries(Top, g), stack' = WithTop(g)
  PROVE  Growing
<1> SUFFICES ASSUME NoRecursion
             PROVE  GrowStack(allResults', stack') /\ Grown(allResults, allResults')
  BY GrowingIs
<1>1. mod \in Modules /\ GoodRecords(allResults) /\ GoodStack(stack) /\ GrowStack(allResults, stack)
  BY DEF IInv, GrowInv
<1>2. Merging(Top)
  BY <1>1, TopIs DEF GrowStack, Top
<1>3. GrowStack(allResults, WithTop(g))
  BY <1>1, <1>2, GrowTop
<1> QED
  BY <1>1, <1>3, GrownSelf

LEMMA TakeContextGrows ==
  ASSUME IInv, GrowInv, TakeContext
  PROVE  Growing
<1> DEFINE w == contextWork
           p == Head(w)
           old == Get(allResults, p, NoResults)
           h == Frame(p[1], p[2], old)
           all == Set(allResults, p, old)
<1>1. /\ mod \in Modules /\ GoodRecords(allResults) /\ w \in Seq(Task) /\ w # << >>
      /\ allResults' = all /\ stack' = <<h>> /\ mod' = mod
  BY DEF IInv, TakeContext
<1>2. p \in Task
  <2> HIDE DEF w
  <2> QED
    BY <1>1
<1>3. old \in Results
  BY <1>1, RecordsGet
<1>4. \A q, x : Fact(all, q, x) = Fact(allResults, q, x)
  <2>1. \A q, x : Fact(all, q, x) = IF q = p THEN Get(old, x, Empty) ELSE Fact(allResults, q, x)
    BY FactSet
  <2> QED
    BY <2>1 DEF Fact
<1>5. DOMAIN allResults \subseteq DOMAIN all
  <2>1. DOMAIN all = DOMAIN allResults \cup {p}
    BY SetIs
  <2> QED
    BY <2>1
<1>6. Get(all, p, NoResults) = old
  BY GetSet
<1> HIDE DEF p, old, all, h
<1>7. Pair(h) = p /\ Remembers(all, h) /\ Merging(h)
  BY <1>2, <1>3, <1>6, FreshRemembers DEF h
<1>8. GrowStack(all, <<h>>)
  BY <1>7 DEF GrowStack, Linked
<1>9. Grown(allResults, all)
  BY <1>1, <1>4, <1>5, FactIs, IncludedSelf DEF Grown
<1> QED
  BY <1>1, <1>8, <1>9, GrowingIs

LEMMA TakeBlockGrows ==
  ASSUME IInv, GrowInv, TakeBlock
  PROVE  Growing
<1> DEFINE b == Head(Top.work)
           x == Exit(Top.fn, b).id
           r == Touch(Touch(Top.results, b, Empty), x, Empty)
           g == [Top EXCEPT !.work = Tail(@), !.inList = @ \ {b},
                            !.bb = b, !.toMerge = Preds(Top.fn, b), !.pc = 0,
                            !.results = r, !.state = r[b],
                            !.oldEntryState = r[b], !.oldExitState = r[x]]
<1>1. /\ mod \in Modules /\ stack # << >> /\ Top.bb = NoBlock /\ Top.work # << >>
      /\ stack' = WithTop(g) /\ UNCHANGED <<mod, allResults>>
  BY DEF IInv, TakeBlock
<1>2. FrameInv(Top) /\ Top \in FrameSet
  BY <1>1, TopIs DEF IInv
<1>3. FrameInv(g)
  BY <1>1, <1>2, TakeStep
<1>4. b \in Blocks(Top.fn)
  <2> DEFINE B == Blocks(Top.fn)
             v == Top.work
  <2>1. v \in Seq(B) /\ v # << >>
    BY <1>1, <1>2 DEF FrameInv, FrameOK
  <2> HIDE DEF v, B
  <2>2. Head(v) \in B
    BY <2>1
  <2> QED
    BY <2>2 DEF v, B
<1>5. g.context = Top.context /\ g.fn = Top.fn /\ g.results = r /\ g.bb = b /\ g.state = r[b]
  <2> HIDE DEF r, x, b
  <2> QED
    BY <1>2 DEF FrameSet
<1> HIDE DEF g
<1>6. Carries(Top, g)
  BY <1>1, <1>2, <1>4, <1>5, TakeCarries
<1> QED
  BY <1>1, <1>3, <1>6, StackGrows

LEMMA MergePredecessorGrows ==
  ASSUME IInv, GrowInv, NEW p, MergePredecessor(p)
  PROVE  Growing
<1> DEFINE s == Merge(Top.state, Get(Top.results, Exit(Top.fn, p).id, Empty))
           g == [Top EXCEPT !.toMerge = @ \ {p},
                            !.state = Merge(@, Get(Top.results, Exit(Top.fn, p).id, Empty))]
<1>1. /\ mod \in Modules /\ stack # << >> /\ p \in Top.toMerge
      /\ stack' = WithTop(g) /\ UNCHANGED <<mod, allResults>>
  BY DEF IInv, MergePredecessor
<1>2. FrameInv(Top) /\ Top \in FrameSet
  BY <1>1, TopIs DEF IInv
<1>3. FrameInv(g)
  BY <1>1, <1>2, MergeStep
<1>4. /\ g.context = Top.context /\ g.fn = Top.fn /\ g.results = Top.results /\ g.bb = Top.bb
      /\ g.state = s
  BY <1>2 DEF FrameSet
<1> HIDE DEF g
<1>5. Merging(Top) => Carries(Top, g)
  BY <1>1, <1>2, <1>4, MergeCarries
<1> QED
  BY <1>1, <1>3, <1>5, StackGrows

LEMMA EnterBlockGrows ==
  ASSUME IInv, GrowInv, EnterBlock
  PROVE  Growing
<1> DEFINE r == Touch(Top.results, Top.fn, Empty)
           s == Entered(Top)
           u == Set(r, Top.bb, s)
           g == [Top EXCEPT !.bb = NoBlock, !.results = r]
           h == [Top EXCEPT !.pc = 1, !.state = s, !.results = u]
           k == IF SameEntry(Top) THEN g ELSE h
<1>1. /\ mod \in Modules /\ stack # << >> /\ Top.bb # NoBlock /\ Top.pc = 0 /\ Top.toMerge = {}
      /\ stack' = WithTop(k) /\ UNCHANGED <<mod, allResults>>
  BY DEF IInv, EnterBlock
<1>2. FrameInv(Top) /\ Top \in FrameSet
  BY <1>1, TopIs DEF IInv
<1>3. SameEntry(Top) => FrameInv(g)
  BY <1>1, <1>2, EnterStep
<1>4. FrameInv(h)
  BY <1>1, <1>2, EnterStep
<1>5. /\ g.context = Top.context /\ g.fn = Top.fn /\ g.bb = NoBlock /\ g.results = r
      /\ h.context = Top.context /\ h.fn = Top.fn /\ h.pc = 1 /\ h.results = u
  <2> HIDE DEF r, s, u
  <2> QED
    BY <1>2 DEF FrameSet
<1> HIDE DEF g, h
<1>6. Merging(Top) => Carries(Top, g)
  BY <1>1, <1>2, <1>5, EnterCarries
<1>7. Merging(Top) => Carries(Top, h)
  BY <1>1, <1>2, <1>5, EnterCarries
<1>8. FrameInv(k) /\ (Merging(Top) => Carries(Top, k))
  BY <1>3, <1>4, <1>6, <1>7
<1> HIDE DEF k
<1> QED
  BY <1>1, <1>8, StackGrows

LEMMA LeaveBlockGrows ==
  ASSUME IInv, GrowInv, LeaveBlock
  PROVE  Growing
<1> DEFINE last == Exit(Top.fn, Top.bb)
           w == WithSuccessors(Top)
           r == IF last.op = "ret" THEN WithReturn(Top, last) ELSE Top.results
           g == [Top EXCEPT !.bb = NoBlock]
           h == [Top EXCEPT !.bb = NoBlock, !.work = WithSuccessors(Top),
                            !.results = IF last.op = "ret" THEN WithReturn(Top, last) ELSE @]
           k == IF Top.state = Top.oldExitState THEN g ELSE h
<1>1. /\ mod \in Modules /\ stack # << >> /\ Top.bb # NoBlock
      /\ Top.pc = Len(Code(Top.fn, Top.bb)) + 1
      /\ stack' = WithTop(k) /\ UNCHANGED <<mod, allResults>>
  BY DEF IInv, LeaveBlock
<1>2. FrameInv(Top) /\ Top \in FrameSet
  BY <1>1, TopIs DEF IInv
<1>3. Top.state = Top.oldExitState => FrameInv(g)
  BY <1>1, <1>2, LeaveStep
<1>4. FrameInv(h)
  BY <1>1, <1>2, LeaveStep
<1>5. /\ g.context = Top.context /\ g.fn = Top.fn /\ g.bb = NoBlock /\ g.results = Top.results
      /\ h.context = Top.context /\ h.fn = Top.fn /\ h.bb = NoBlock /\ h.results = r
  <2> HIDE DEF last
  <2> QED
    BY <1>2 DEF FrameSet
<1>6. Carries(Top, g)
  <2> HIDE DEF g, h, last
  <2> QED
    BY <1>1, <1>2, <1>5, LeaveCarries
<1>7. Carries(Top, h)
  <2>1. r = Top.results \/ r = WithReturn(Top, Exit(Top.fn, Top.bb))
    OBVIOUS
  <2> HIDE DEF g, h, r
  <2> QED
    BY <1>1, <1>2, <1>5, <2>1, LeaveCarries
<1> HIDE DEF g, h
<1>8. FrameInv(k) /\ Carries(Top, k)
  BY <1>3, <1>4, <1>6, <1>7
<1> HIDE DEF k
<1> QED
  BY <1>1, <1>8, StackGrows

LEMMA TransferGrows ==
  ASSUME IInv, GrowInv, Transfer
  PROVE  Growing
<1> DEFINE i == Current
           s == applyTransfer(Top.fn, i, Top.state)
           g == After(Top, i, s)
<1>1. /\ mod \in Modules /\ GoodStack(stack) /\ stack # << >> /\ Top.bb # NoBlock
      /\ Top.pc \in 1..Len(Code(Top.fn, Top.bb))
      /\ UNCHANGED <<mod, allResults>>
      /\ i = Code(Top.fn, Top.bb)[Top.pc]
  BY DEF IInv, Transfer, AtInstruction, Current
<1>2. \/ stack' = stack
      \/ ~Faulty(s) /\ stack' = WithTop(g)
  BY DEF Transfer
<1>3. FrameInv(Top)
  BY <1>1, TopIs
<1>4. CASE stack' = stack
  BY <1>1, <1>4, GrowingIs, GrownSelf DEF IInv, GrowInv
<1>5. CASE ~Faulty(s) /\ stack' = WithTop(g)
  <2>1. /\ Top \in FrameSet /\ Top.fn \in DOMAIN mod.functions /\ Top.bb \in Blocks(Top.fn)
    BY <1>1, <1>3 DEF FrameInv, FrameOK
  <2>2. i \in Instructions(Top.fn) /\ Top.state \in State
    BY <1>1, <2>1, AtIs, StatesAre
  <2> HIDE DEF i
  <2>3. s \in State
    BY <1>1, <1>5, <2>1, <2>2, AppliedIs
  <2> HIDE DEF s
  <2>4. FrameInv(g) /\ Carries(Top, g)
    BY <1>1, <1>3, <2>3, AfterStep, AfterCarries
  <2> HIDE DEF g
  <2> QED
    BY <1>1, <1>5, <2>4, StackGrows
<1> QED
  BY <1>2, <1>4, <1>5

(* What a call adds to what its callee was called with. *)
LEMMA ArgumentsGrow ==
  ASSUME mod \in Modules, NEW f \in DOMAIN mod.functions, NEW i \in Instructions(f),
         i.op = "call", NEW s \in State, \A k \in 1..Len(i.args) : i.args[k] \in DOMAIN s,
         NEW summary \in State
  PROVE  Included(summary, WithArguments(summary, Arguments(i, s, summary)))
<1> DEFINE params == Params(i.callee)
           position(v) == CHOOSE k \in DOMAIN params : params[k] = v
           a == Arguments(i, s, summary)
           D == DOMAIN summary \cup DOMAIN a
           u == WithArguments(summary, a)
<1>1. /\ i.callee \in DOMAIN mod.functions /\ Len(i.args) = Len(params)
      /\ i.args \in Seq(Value) /\ params \in Seq(Value)
  BY InstructionIs, FnIs DEF Instruction
<1>2. DOMAIN params = 1..Len(i.args)
  BY <1>1
<1>3. /\ \A x \in DOMAIN summary : summary[x] \in RangeValue
      /\ \A x \in DOMAIN s : s[x] \in RangeValue
  BY MapIs DEF State
<1>4. a = [v \in Range(params) |-> Join(s[i.args[position(v)]], Get(summary, v, Unknown))]
  BY DEF Arguments
<1>5. ASSUME NEW v \in Range(params), v \in DOMAIN summary
      PROVE  Below(summary[v], a[v])
  <2>1. \E k \in DOMAIN params : params[k] = v
    BY DEF Range
  <2>2. position(v) \in 1..Len(i.args)
    <3> HIDE DEF params
    <3> QED
      BY <1>2, <2>1
  <2>3. a[v] = Join(s[i.args[position(v)]], summary[v])
    <3> HIDE DEF position, params
    <3> QED
      BY <1>4, <1>5 DEF Get
  <2> HIDE DEF position
  <2>4. s[i.args[position(v)]] \in RangeValue /\ summary[v] \in RangeValue
    BY <1>3, <1>5, <2>2
  <2> QED
    BY <2>3, <2>4, JoinAbove
<1>6. DOMAIN a = Range(params)
  BY <1>4
<1> HIDE DEF position, params, a
<1>7. u = [v \in D |-> IF v \in DOMAIN a THEN a[v] ELSE summary[v]]
  BY DEF WithArguments
<1>8. DOMAIN summary \subseteq D
  OBVIOUS
<1> HIDE DEF D
<1>9. \A v \in DOMAIN summary : v \in DOMAIN u /\ u[v] = IF v \in DOMAIN a THEN a[v] ELSE summary[v]
  BY <1>7, <1>8
<1> HIDE DEF u
<1>10. Included(summary, u)
  BY <1>3, <1>5, <1>6, <1>9, BelowSelf DEF Included
<1> QED
  BY <1>10 DEF u, a

LEMMA CallGrows ==
  ASSUME IInv, GrowInv, Call
  PROVE  Growing
<1> DEFINE i == Current
           p == ToCall(Top, i)
           s == OperandStates(Top.fn, i.args, Top.state)[Len(i.args)]
           summary == Summary(allResults, p)
           a == Arguments(i, s, summary)
           v == WithArguments(summary, a)
           all == WithSummary(allResults, p, v)
           fr == [Top EXCEPT !.state = s]
           c == Complete(fr, i, all)
           h == Frame(p[1], p[2], all[p])
<1>1. mod \in Modules /\ GoodStack(stack) /\ GoodRecords(allResults)
  BY DEF IInv
<1>2. /\ stack # << >> /\ Calling(Top) /\ i = Site(Top) /\ i.op = "call" /\ mod' = mod
  BY DEF Call, AtInstruction, Current, Calling, Site
<1>3. \/ UNCHANGED <<allResults, stack>>
      \/ /\ ~Faulty(s)
         /\ \/ /\ allResults' = all
               /\ stack' = Append(WithTop(fr), h)
            \/ /\ allResults' = c.all
               /\ stack' = WithTop(c.frame)
  BY DEF Call
<1>4. FrameInv(Top) /\ Len(stack) > 0 /\ Len(stack) \in Nat
  BY <1>1, <1>2, TopIs
<1>5. CASE UNCHANGED <<allResults, stack>>
  BY <1>1, <1>2, <1>5, GrowingIs, GrownSelf DEF GrowInv
<1>6. CASE ~Faulty(s) /\ ~UNCHANGED <<allResults, stack>>
  <2> SUFFICES ASSUME NoRecursion
               PROVE  GrowStack(allResults', stack') /\ Grown(allResults, allResults')
    BY <1>2, GrowingIs
  <2>1. GrowStack(allResults, stack)
    BY DEF GrowInv
  <2>2. /\ Top \in FrameSet /\ Top.fn \in DOMAIN mod.functions /\ i \in Instructions(Top.fn)
        /\ i.args \in Seq(Value)
    BY <1>1, <1>2, <1>4, CallsSite, InstructionIs DEF FrameInv, FrameOK, Instruction
  <2>3. Top.state \in Draft
    BY <2>2, StatesAre, StateIs
  <2>4. \A j \in 1..Len(stack) : Pair(stack[j]) # p
    <3>1. \A j \in 1..Len(stack) : stack[j].fn # i.callee
      BY <1>1, <1>2, <2>1, StackApart DEF GrowStack, Top
    <3> QED
      BY <3>1 DEF Pair, ToCall
  <2>5. s \in Draft /\ \A k \in 1..Len(i.args) : i.args[k] \in DOMAIN s
    BY <1>1, <2>2, <2>3, OperandsStay
  <2> HIDE DEF i, s
  <2>6. s \in State
    BY <1>6, <2>5, SoundDraft
  <2>7. FrameInv(fr) /\ Calling(fr) /\ Carries(Top, fr)
    BY <1>1, <1>2, <1>4, <2>6, CallingStep, CallingCarries
  <2>8. /\ fr.fn = Top.fn /\ fr.bb = Top.bb /\ fr.pc = Top.pc /\ fr.context = Top.context
        /\ fr.results = Top.results
    BY <2>2 DEF FrameSet
  <2>9. i = Site(fr) /\ p = ToCall(fr, i)
    BY <1>2, <2>8 DEF ToCall, Site
  <2> HIDE DEF fr
  <2>10. p \in Task
    BY <1>1, <2>7, <2>9, CompleteIs DEF Site
  <2>11. summary \in State
    BY <1>1, SummaryIs
  <2>12. v \in State /\ Included(summary, v)
    <3> HIDE DEF p, summary
    <3> QED
      BY <1>1, <1>2, <2>2, <2>5, <2>6, <2>11, ArgumentsAre, ArgumentsGrow
  <2> HIDE DEF a, p, v
  <2>13. GoodRecords(all) /\ all[p] \in Results /\ p \in DOMAIN all
    BY <1>1, <2>10, <2>12, WithSummaryIs
  <2>14. Grown(allResults, all)
    BY <1>1, <2>10, <2>12, SummaryGrown DEF summary
  <2>15. \A k \in 1..Len(stack) : \A x :
           Fact(all, Pair(stack[k]), x) = Fact(allResults, Pair(stack[k]), x)
    BY <2>4, FactSummary
  <2> HIDE DEF all
  <2>16. CASE allResults' = all /\ stack' = Append(WithTop(fr), h)
    <3> DEFINE st == WithTop(fr)
    <3>1. GrowStack(all, st)
      BY <1>1, <1>2, <2>1, <2>7, <2>15, GrowTop
    <3>2. GoodStack(st) /\ st # << >> /\ st[Len(st)] = fr
      BY <1>1, <1>2, <2>7, WithTopIs
    <3>3. all[p] = Get(all, p, NoResults)
      BY <2>13 DEF Get
    <3>4. Pair(h) = p /\ Remembers(all, h) /\ Merging(h)
      BY <2>10, <2>13, <3>3, FreshRemembers
    <3> HIDE DEF st, h
    <3>5. GrowStack(all, Append(st, h))
      BY <2>9, <3>1, <3>2, <3>4, GrowPush
    <3> QED
      BY <2>14, <2>16, <3>5 DEF st
  <2>17. CASE allResults' = c.all /\ stack' = WithTop(c.frame)
    <3>1. FrameInv(c.frame) /\ GoodRecords(c.all)
      BY <1>1, <2>7, <2>9, <2>13, CompleteIs DEF Site
    <3>2. Grown(all, c.all) /\ \A q, x : q # p => Fact(c.all, q, x) = Fact(all, q, x)
      BY <1>1, <2>7, <2>9, <2>13, CompleteGrows
    <3>3. Carries(Top, c.frame)
      <4>1. \E t : c.frame = After(fr, i, t)
        BY DEF Complete
      <4>2. Carries(fr, c.frame)
        BY <1>1, <2>7, <2>9, <4>1, AfterCarries DEF Calling, Site
      <4> HIDE DEF c
      <4> QED
        BY <2>7, <2>8, <4>2 DEF Carries
    <3> HIDE DEF c
    <3>4. \A k \in 1..Len(stack) : \A x :
            Fact(c.all, Pair(stack[k]), x) = Fact(allResults, Pair(stack[k]), x)
      BY <2>4, <2>15, <3>2
    <3>5. GrowStack(c.all, WithTop(c.frame))
      BY <1>1, <1>2, <2>1, <3>1, <3>3, <3>4, GrowTop
    <3>6. Grown(allResults, c.all)
      BY <1>1, <2>13, <2>14, <3>1, <3>2, GrownIn
    <3> QED
      BY <2>17, <3>5, <3>6
  <2> QED
    BY <1>3, <1>6, <2>16, <2>17
<1> QED
  BY <1>3, <1>5, <1>6

(* An activation that is done knows what it replaces. *)
LEMMA RecordedGrows ==
  ASSUME mod \in Modules, GoodRecords(allResults), stack # << >>, GoodStack(stack),
         Remembers(allResults, Top)
  PROVE  /\ Grown(allResults, Recorded)
         /\ \A q, x : q # Pair(Top) => Fact(Recorded, q, x) = Fact(allResults, q, x)
<1> DEFINE q == Pair(Top)
           r == Top.results
           all == Set(allResults, q, r)
<1>1. Recorded = all
  BY DEF Recorded, Pair
<1>2. \A p, x : Fact(all, p, x) = IF p = q THEN Get(r, x, Empty) ELSE Fact(allResults, p, x)
  BY FactSet
<1>3. DOMAIN all = DOMAIN allResults \cup {q}
  BY SetIs
<1>4. q[2] = Top.fn
  BY DEF Pair
<1> HIDE DEF q, r, all
<1>5. ASSUME NEW p \in Task, NEW x \in FactKeys(p[2])
      PROVE  Included(Fact(allResults, p, x), Fact(all, p, x))
  <2>1. CASE p = q
    BY <1>2, <1>4, <2>1 DEF Remembers, q, r
  <2>2. CASE p # q
    BY <1>2, <2>2, FactIs, IncludedSelf
  <2> QED
    BY <2>1, <2>2
<1>6. Grown(allResults, all)
  BY <1>3, <1>5 DEF Grown
<1> QED
  BY <1>1, <1>2, <1>6 DEF q

LEMMA FinishContextGrows ==
  ASSUME IInv, GrowInv, FinishContext
  PROVE  Growing
<1>1. /\ mod \in Modules /\ GoodRecords(allResults) /\ GoodStack(stack) /\ stack # << >>
      /\ mod' = mod /\ stack' = << >> /\ allResults' = Recorded
  BY DEF IInv, FinishContext, Finished
<1> SUFFICES ASSUME NoRecursion
             PROVE  GrowStack(allResults', stack') /\ Grown(allResults, allResults')
  BY <1>1, GrowingIs
<1>2. Remembers(allResults, Top)
  BY <1>1, TopIs DEF GrowInv, GrowStack, Top
<1>3. GrowStack(Recorded, << >>)
  BY DEF GrowStack, Linked
<1> QED
  BY <1>1, <1>2, <1>3, RecordedGrows

LEMMA FinishCallGrows ==
  ASSUME IInv, GrowInv, FinishCall
  PROVE  Growing
<1> DEFINE n == Len(stack)
           fr == stack[Len(stack) - 1]
           i == Code(fr.fn, fr.bb)[fr.pc]
           c == Complete(fr, i, Recorded)
<1>1. /\ mod \in Modules /\ GoodStack(stack) /\ GoodRecords(allResults)
      /\ Finished /\ n > 1 /\ mod' = mod /\ stack # << >>
      /\ allResults' = c.all
      /\ stack' = Append(SubSeq(stack, 1, Len(stack) - 2), c.frame)
  BY DEF IInv, FinishCall, Finished
<1> SUFFICES ASSUME NoRecursion
             PROVE  GrowStack(allResults', stack') /\ Grown(allResults, allResults')
  BY <1>1, GrowingIs
<1>2. GrowStack(allResults, stack)
  BY DEF GrowInv
<1>3. /\ n \in Nat /\ Top = stack[n] /\ n - 1 \in 1..n /\ n \in 1..n /\ n - 1 \in 1..(n - 1)
      /\ \A k \in 1..n : FrameInv(stack[k])
  BY <1>1, TopIs DEF Top
<1>4. FrameInv(fr) /\ Calling(fr) /\ i = Site(fr)
  BY <1>1, <1>3 DEF GoodStack, Site
<1>5. Pair(Top) = ToCall(fr, i)
  <2>1. \A k \in 1..(n - 1) : ToCall(stack[k], Site(stack[k])) = Pair(stack[k + 1])
    BY <1>2 DEF GrowStack, Linked
  <2>2. ToCall(fr, Site(fr)) = Pair(stack[n - 1 + 1])
    BY <1>3, <2>1
  <2>3. n - 1 + 1 = n
    BY <1>3
  <2> QED
    BY <1>3, <1>4, <2>2, <2>3
<1>6. \A k \in 1..(n - 1) : Pair(stack[k]) # Pair(Top)
  <2>1. \A j, k \in 1..n : j # k => stack[j].fn # stack[k].fn
    BY <1>1, <1>2, StackApart DEF GrowStack
  <2>2. \A k \in 1..(n - 1) : k \in 1..n /\ k # n
    BY <1>3
  <2> QED
    BY <1>3, <2>1, <2>2 DEF Pair
<1>7. Remembers(allResults, Top)
  BY <1>2, <1>3 DEF GrowStack
<1>8. /\ Grown(allResults, Recorded) /\ GoodRecords(Recorded)
      /\ \A q, x : q # Pair(Top) => Fact(Recorded, q, x) = Fact(allResults, q, x)
  BY <1>1, <1>7, RecordedGrows, RecordedIs
<1>9. FrameInv(c.frame) /\ GoodRecords(c.all)
  BY <1>1, <1>4, <1>8, CompleteIs
<1>10. /\ Grown(Recorded, c.all)
       /\ \A q, x : q # Pair(Top) => Fact(c.all, q, x) = Fact(Recorded, q, x)
  BY <1>1, <1>4, <1>5, <1>8, CompleteGrows
<1>11. Carries(fr, c.frame)
  <2>1. \E t : c.frame = After(fr, i, t)
    BY DEF Complete
  <2> HIDE DEF c
  <2> QED
    BY <1>1, <1>4, <2>1, AfterCarries DEF Calling
<1> HIDE DEF c
<1>12. \A k \in 1..(n - 1) : \A x :
         Fact(c.all, Pair(stack[k]), x) = Fact(allResults, Pair(stack[k]), x)
  BY <1>6, <1>8, <1>10
<1>13. GrowStack(c.all, Append(SubSeq(stack, 1, Len(stack) - 2), c.frame))
  BY <1>1, <1>2, <1>9, <1>11, <1>12, GrowPop
<1>14. Grown(allResults, c.all)
  BY <1>1, <1>8, <1>9, <1>10, GrownIn
<1> QED
  BY <1>1, <1>13, <1>14

LEMMA InitGrow == VInit => GrowInv
BY DEF VInit, Init, GrowInv, GrowStack, Linked

LEMMA NextGrows ==
  ASSUME IInv, GrowInv, [VNext]_allVars
  PROVE  Growing
<1>1. CASE Next
  <2>1. CASE TakeContext
    BY <2>1, TakeContextGrows
  <2>2. CASE TakeBlock
    BY <2>2, TakeBlockGrows
  <2>3. CASE EnterBlock
    BY <2>3, EnterBlockGrows
  <2>4. CASE Transfer
    BY <2>4, TransferGrows
  <2>5. CASE Call
    BY <2>5, CallGrows
  <2>6. CASE LeaveBlock
    BY <2>6, LeaveBlockGrows
  <2>7. CASE FinishContext
    BY <2>7, FinishContextGrows
  <2>8. CASE FinishCall
    BY <2>8, FinishCallGrows
  <2>9. CASE \E p \in Block : MergePredecessor(p)
    BY <2>9, MergePredecessorGrows
  <2> QED
    BY <1>1, <2>1, <2>2, <2>3, <2>4, <2>5, <2>6, <2>7, <2>8, <2>9 DEF Next
<1>2. CASE UNCHANGED <<mod, allResults, stack>>
  BY <1>2, GrowingIs, GrownSelf DEF IInv, GrowInv
<1>3. Next \/ UNCHANGED <<mod, allResults, stack>>
  BY DEF VNext, Analyse, Terminating, valueRangeAnalysis, Execute, Start, Compute, Access, Branch,
     Invoke, Return, Stop, Moving, vars, allVars
<1> QED
  BY <1>1, <1>2, <1>3

LEMMA GrowInvariant == VSpec => [](IInv /\ GrowInv)
<1>1. VInit => IInv /\ GrowInv
  BY InitInv, InitGrow
<1>2. IInv /\ GrowInv /\ [VNext]_allVars => (IInv /\ GrowInv)'
  BY NextInv, NextGrows DEF Growing
<1> QED
  BY <1>1, <1>2, PTL DEF VSpec

(* What is recorded of the arguments, the return value and the block entries of
   a function only grows, through all analyses of it, when no function calls
   itself: the results that replace those recorded meanwhile know as much. *)
THEOREM NothingRecordedIsLost == VSpec => FactsGrow
<1> DEFINE A == Plain => \A p \in DOMAIN allResults :
                  \A k \in ({p[2]} \cup Blocks(p[2])) \cap DOMAIN allResults[p] :
                    Included(allResults[p][k], allResults'[p][k])
<1>1. ASSUME IInv, GrowInv, [VNext]_allVars PROVE A
  <2> SUFFICES ASSUME Plain, NEW p \in DOMAIN allResults,
                      NEW k \in FactKeys(p[2]) \cap DOMAIN allResults[p]
               PROVE  Included(allResults[p][k], allResults'[p][k])
    BY DEF FactKeys
  <2>1. Grown(allResults, allResults')
    BY <1>1, NextGrows DEF Growing, Plain
  <2>2. p \in Task /\ p \in DOMAIN allResults'
    BY <1>1, <2>1, MapIs DEF Grown, IInv, GoodRecords
  <2>3. Included(Fact(allResults, p, k), Fact(allResults', p, k))
    BY <2>1, <2>2 DEF Grown
  <2>4. Fact(allResults, p, k) = allResults[p][k]
    BY DEF Fact, Get
  <2>5. Fact(allResults', p, k) = IF k \in DOMAIN allResults'[p] THEN allResults'[p][k] ELSE Empty
    BY <2>2 DEF Fact, Get
  <2>6. CASE k \in DOMAIN allResults'[p]
    BY <2>3, <2>4, <2>5, <2>6
  <2>7. CASE k \notin DOMAIN allResults'[p]
    BY <2>3, <2>4, <2>5, <2>7, EmptyIs DEF Included
  <2> QED
    BY <2>6, <2>7
<1>2. IInv /\ GrowInv /\ [VNext]_allVars => [A]_vars
  BY <1>1
<1> HIDE DEF A
<1>3. VSpec => [][A]_vars
  BY <1>2, GrowInvariant, PTL DEF VSpec
<1> QED
  BY <1>3 DEF FactsGrow, A

-----------------------------------------------------------------------------
(* The values that ranges stand for. *)
LEMMA ConcreteIs ==
  ASSUME NEW a \in RangeValue, NEW x
  PROVE  x \in Concrete(a, Word) <=>
           /\ a # Unknown /\ x \in Word
           /\ a = Infinity \/ (isConstant(a) /\ a.lvalue =< x /\ x =< a.rvalue)
<1>1. CASE a = Unknown
  BY <1>1, RangeShapes DEF Concrete
<1>2. CASE a = Infinity
  BY <1>2, RangeShapes DEF Concrete
<1>3. CASE a # Unknown /\ a # Infinity
  BY <1>3, RangeShapes DEF Concrete
<1> QED
  BY <1>1, <1>2, <1>3

LEMMA ConcreteGrows ==
  ASSUME NEW a \in RangeValue, NEW b \in RangeValue, Below(a, b), NEW x \in Concrete(a, Word)
  PROVE  x \in Concrete(b, Word)
<1>1. /\ a # Unknown /\ x \in Word
      /\ a = Infinity \/ (isConstant(a) /\ a.lvalue =< x /\ x =< a.rvalue)
  BY ConcreteIs
<1>2. x \in Int
  BY <1>1, WordIsInt
<1>3. CASE b = Infinity
  BY <1>1, <1>3, RangeShapes, ConcreteIs
<1>4. CASE b # Infinity
  <2>1. isConstant(a) /\ isConstant(b) /\ b.lvalue =< a.lvalue /\ a.rvalue =< b.rvalue
    BY <1>1, <1>4 DEF Below
  <2>2. a # Infinity /\ b # Unknown
    BY <2>1, RangeShapes
  <2>3. /\ a.lvalue \in Int /\ a.rvalue \in Int /\ b.lvalue \in Int /\ b.rvalue \in Int
    BY <2>1, <2>2, <1>1, <1>4, RangeShapes, WordIsInt
  <2>4. b.lvalue =< x /\ x =< b.rvalue
    BY <1>1, <1>2, <2>1, <2>2, <2>3
  <2> QED
    BY <1>1, <2>1, <2>2, <2>4, ConcreteIs
<1> QED
  BY <1>3, <1>4

LEMMA WrapIs ==
  ASSUME NEW x \in Int
  PROVE  WrapWord(x) \in Word /\ (x \in Word => WrapWord(x) = x)
<1>1. Half \in Nat /\ 2 * Half \in Nat /\ 2 * Half > 0 /\ x + Half \in Int
  BY HalfAssumption
<1>2. \A n \in Int, m \in Nat : m > 0 => n % m \in Int /\ 0 =< n % m /\ n % m < m
  OBVIOUS
<1>3. \A n, m \in Nat : n < m => n % m = n
  OBVIOUS
<1>4. /\ (x + Half) % (2 * Half) \in Int
      /\ 0 =< (x + Half) % (2 * Half) /\ (x + Half) % (2 * Half) < 2 * Half
  BY <1>1, <1>2
<1>5. WrapWord(x) \in Word
  BY <1>1, <1>4 DEF WrapWord, Word
<1>6. ASSUME x \in Word PROVE WrapWord(x) = x
  <2>1. x + Half \in Nat /\ x + Half < 2 * Half
    BY <1>1, <1>6 DEF Word
  <2>2. (x + Half) % (2 * Half) = x + Half
    BY <1>1, <1>3, <2>1
  <2> QED
    BY <1>1, <2>2 DEF WrapWord
<1> QED
  BY <1>5, <1>6

LEMMA BoundsHold ==
  ASSUME NEW l \in Int, NEW r \in Int, NEW x \in Int, l =< x, x =< r
  PROVE  WrapWord(x) \in Concrete(Bounds(l, r), Word)
<1>1. CASE {l, r} \subseteq Word
  <2>1. x \in Word
    BY <1>1, HalfAssumption DEF Word
  <2>2. Bounds(l, r) = makeRange(l, r) /\ l \in Word /\ r \in Word
    BY <1>1 DEF Bounds
  <2> QED
    BY <2>1, <2>2, WrapIs, RangeShapes, ConcreteIs
<1>2. CASE ~({l, r} \subseteq Word)
  BY <1>2, WrapIs, RangeShapes, ConcreteIs DEF Bounds
<1> QED
  BY <1>1, <1>2

LEMMA MulUp ==
  ASSUME NEW p \in Int, NEW q \in Int, NEW k \in Int, p =< q
  PROVE  /\ 0 =< k => p * k =< q * k
         /\ k =< 0 => q * k =< p * k
<1>1. ASSUME 0 =< k PROVE p * k =< q * k
  BY <1>1
<1>2. ASSUME k =< 0 PROVE q * k =< p * k
  BY <1>2
<1> QED
  BY <1>1, <1>2

(* A product lies between two of the bounds' products. *)
Corners(a, b) == {u * v : u \in Ends(a), v \in Ends(b)}

LEMMA CornersHold ==
  ASSUME NEW a, NEW b, a.lvalue \in Int, a.rvalue \in Int, b.lvalue \in Int, b.rvalue \in Int,
         NEW x \in Int, NEW y \in Int,
         a.lvalue =< x, x =< a.rvalue, b.lvalue =< y, y =< b.rvalue
  PROVE  /\ Corners(a, b) \subseteq Int
         /\ \E c, d \in Corners(a, b) : c =< x * y /\ x * y =< d
<1>1. Corners(a, b) \subseteq Int
  BY DEF Corners, Ends
<1>2. ASSUME NEW u \in Ends(a)
      PROVE  \E c, d \in Corners(a, b) : c =< u * y /\ u * y =< d
  <2>1. u * b.lvalue \in Corners(a, b) /\ u * b.rvalue \in Corners(a, b)
    BY DEF Corners, Ends
  <2>2. /\ u \in Int /\ u * b.lvalue = b.lvalue * u /\ u * b.rvalue = b.rvalue * u
        /\ u * y = y * u
    BY DEF Ends
  <2>3. CASE 0 =< u
    <3>1. b.lvalue * u =< y * u /\ y * u =< b.rvalue * u
      BY <2>2, <2>3, MulUp
    <3> QED
      BY <2>1, <2>2, <3>1
  <2>4. CASE u =< 0
    <3>1. b.rvalue * u =< y * u /\ y * u =< b.lvalue * u
      BY <2>2, <2>4, MulUp
    <3> QED
      BY <2>1, <2>2, <3>1
  <2> QED
    BY <2>2, <2>3, <2>4
<1>3. \/ a.lvalue * y =< x * y /\ x * y =< a.rvalue * y
      \/ a.rvalue * y =< x * y /\ x * y =< a.lvalue * y
  BY MulUp
<1>4. PICK c, d, e, g \in Corners(a, b) :
        c =< a.lvalue * y /\ a.lvalue * y =< d /\ e =< a.rvalue * y /\ a.rvalue * y =< g
  BY <1>2 DEF Ends
<1>5. /\ c \in Int /\ d \in Int /\ e \in Int /\ g \in Int
      /\ a.lvalue * y \in Int /\ a.rvalue * y \in Int /\ x * y \in Int
  BY <1>1
<1>6. \E h, k \in Corners(a, b) : h =< x * y /\ x * y =< k
  BY <1>3, <1>4, <1>5
<1> QED
  BY <1>1, <1>6

LEMMA ProductHolds ==
  ASSUME NEW a, NEW b, a.lvalue \in Word, a.rvalue \in Word, b.lvalue \in Word, b.rvalue \in Word,
         NEW x \in Int, NEW y \in Int,
         a.lvalue =< x, x =< a.rvalue, b.lvalue =< y, y =< b.rvalue
  PROVE  WrapWord(x * y) \in Concrete(Mul(a, b), Word)
<1> DEFINE S == Corners(a, b)
<1>1. PICK c, d \in S : c =< x * y /\ x * y =< d
  BY WordIsInt, CornersHold
<1>2. S \subseteq Int
  BY WordIsInt, CornersHold
<1>3. S = {a.lvalue * b.lvalue, a.lvalue * b.rvalue, a.rvalue * b.lvalue, a.rvalue * b.rvalue}
  BY DEF Corners, Ends
<1>4. Mul(a, b) = Hull(S)
  BY DEF Mul, Corners
<1> DEFINE p == a.lvalue * b.lvalue
           q == a.lvalue * b.rvalue
           r == a.rvalue * b.lvalue
           s == a.rvalue * b.rvalue
<1>5. S = {p, q, r, s}
  BY <1>3
<1> HIDE DEF S, p, q, r, s
<1>6. CASE S \subseteq Word
  <2>1. p \in Int /\ q \in Int /\ r \in Int /\ s \in Int
    BY <1>2, <1>5
  <2>2. \E u \in S : \A v \in S : u =< v
    BY <1>5, <2>1, SMT
  <2>3. \E u \in S : \A v \in S : u >= v
    BY <1>5, <2>1, SMT
  <2>4. Min(S) \in S /\ \A v \in S : Min(S) =< v
    BY <2>2 DEF Min
  <2>5. Max(S) \in S /\ \A v \in S : Max(S) >= v
    BY <2>3 DEF Max
  <2> DEFINE l == Min(S)
             h == Max(S)
  <2>6. l \in S /\ h \in S /\ l =< c /\ h >= d
    BY <2>4, <2>5
  <2>7. Hull(S) = Bounds(l, h)
    BY <1>6, <2>6 DEF Hull, Bounds
  <2> HIDE DEF l, h
  <2>8. x * y \in Int /\ l =< x * y /\ x * y =< h
    BY <1>1, <1>2, <2>6
  <2> QED
    BY <1>2, <1>4, <2>6, <2>7, <2>8, BoundsHold
<1>7. CASE ~(S \subseteq Word)
  <2>1. Hull(S) = Infinity /\ x * y \in Int
    BY <1>7 DEF Hull
  <2> QED
    BY <1>4, <2>1, WrapIs, RangeShapes, ConcreteIs
<1> QED
  BY <1>6, <1>7

(* The operations that get every operand right.  The others miss values: over
   three-bit words [-4, 0] sdiv [-1, 1] is [0, 0], [1, 3] udiv [1, 2] is [3, 0],
   and with two-bit narrow words trunc makes [0, 3], and zext [-1, 1], a range
   that holds nothing. *)
ExactOp == Opcode \ {"sdiv", "udiv", "trunc", "zext"}

LEMMA OperationSound ==
  ASSUME NEW op \in BinaryOp \cap ExactOp, NEW a \in RangeValue, NEW b \in RangeValue,
         NEW x \in Concrete(a, Word), NEW y \in Concrete(b, Word), NEW z \in Result(op, x, y)
  PROVE  z \in Word /\ z \in Concrete(evaluateBinOP(op, a, b), Word)
<1>1. /\ a # Unknown /\ x \in Word /\ x \in Int
      /\ a = Infinity \/ (isConstant(a) /\ a.lvalue =< x /\ x =< a.rvalue)
      /\ b # Unknown /\ y \in Word /\ y \in Int
      /\ b = Infinity \/ (isConstant(b) /\ b.lvalue =< y /\ y =< b.rvalue)
  BY ConcreteIs, WordIsInt
<1>2. op \in {"add", "sub", "mul", "other"}
  BY DEF BinaryOp, ExactOp
<1>3. z \in Word
  BY <1>1, <1>2, WrapIs DEF Result
<1>4. CASE ~(isConstant(a) /\ isConstant(b))
  <2>1. evaluateBinOP(op, a, b) = Infinity
    BY <1>1, <1>4 DEF evaluateBinOP
  <2> QED
    BY <1>3, <2>1, RangeShapes, ConcreteIs
<1>5. CASE isConstant(a) /\ isConstant(b)
  <2>1. /\ a.lvalue \in Word /\ a.rvalue \in Word /\ b.lvalue \in Word /\ b.rvalue \in Word
        /\ a # Infinity /\ b # Infinity
    BY <1>5, RangeShapes
  <2>2. /\ a.lvalue \in Int /\ a.rvalue \in Int /\ b.lvalue \in Int /\ b.rvalue \in Int
        /\ NoInt \notin Ends(a) \cup Ends(b)
    BY <2>1, WordIsInt DEF Ends
  <2>3. a.lvalue =< x /\ x =< a.rvalue /\ b.lvalue =< y /\ y =< b.rvalue
    BY <1>1, <2>1
  <2>4. CASE op = "add"
    <3>1. evaluateBinOP(op, a, b) = Bounds(a.lvalue + b.lvalue, a.rvalue + b.rvalue)
      BY <1>5, <2>2, <2>4 DEF evaluateBinOP, Add
    <3>2. z = WrapWord(x + y)
      BY <2>4 DEF Result
    <3>3. /\ a.lvalue + b.lvalue =< x + y /\ x + y =< a.rvalue + b.rvalue
          /\ a.lvalue + b.lvalue \in Int /\ x + y \in Int /\ a.rvalue + b.rvalue \in Int
      BY <1>1, <2>2, <2>3
    <3>4. WrapWord(x + y) \in Concrete(Bounds(a.lvalue + b.lvalue, a.rvalue + b.rvalue), Word)
      BY <3>3, BoundsHold
    <3> QED
      BY <1>3, <3>1, <3>2, <3>4
  <2>5. CASE op = "sub"
    <3>1. evaluateBinOP(op, a, b) = Bounds(a.lvalue - b.rvalue, a.rvalue - b.lvalue)
      BY <1>5, <2>2, <2>5 DEF evaluateBinOP, Sub
    <3>2. z = WrapWord(x - y)
      BY <2>5 DEF Result
    <3>3. /\ a.lvalue - b.rvalue =< x - y /\ x - y =< a.rvalue - b.lvalue
          /\ a.lvalue - b.rvalue \in Int /\ x - y \in Int /\ a.rvalue - b.lvalue \in Int
      BY <1>1, <2>2, <2>3
    <3>4. WrapWord(x - y) \in Concrete(Bounds(a.lvalue - b.rvalue, a.rvalue - b.lvalue), Word)
      BY <3>3, BoundsHold
    <3> QED
      BY <1>3, <3>1, <3>2, <3>4
  <2>6. CASE op = "mul"
    <3>1. evaluateBinOP(op, a, b) = Mul(a, b)
      BY <1>5, <2>2, <2>6 DEF evaluateBinOP
    <3>2. z = WrapWord(x * y)
      BY <2>6 DEF Result
    <3> QED
      BY <1>1, <1>3, <2>1, <2>3, <3>1, <3>2, ProductHolds
  <2>7. CASE op = "other"
    <3>1. evaluateBinOP(op, a, b) = Infinity
      BY <1>5, <2>2, <2>7 DEF evaluateBinOP
    <3> QED
      BY <1>3, <3>1, RangeShapes, ConcreteIs
  <2> QED
    BY <1>2, <2>4, <2>5, <2>6, <2>7
<1> QED
  BY <1>4, <1>5

LEMMA SextSound ==
  ASSUME NEW a \in RangeValue, NEW x \in Concrete(a, Word)
  PROVE  x \in Word /\ Fold("sext", x) = x /\ x \in Concrete(evaluateCast("sext", a), Word)
<1>1. /\ a # Unknown /\ x \in Word
      /\ a = Infinity \/ (isConstant(a) /\ a.lvalue =< x /\ x =< a.rvalue)
  BY ConcreteIs
<1>2. CASE ~isConstant(a)
  BY <1>1, <1>2 DEF evaluateCast, Fold
<1>3. CASE isConstant(a)
  <2>1. a.lvalue \in Word /\ a.rvalue \in Word /\ a # Infinity
    BY <1>3, RangeShapes
  <2>2. NoInt \notin Ends(a)
    BY <2>1, WordIsInt DEF Ends
  <2>3. evaluateCast("sext", a) = makeRange(a.lvalue, a.rvalue)
    BY <1>3, <2>2 DEF evaluateCast, Fold
  <2>4. a.lvalue =< x /\ x =< a.rvalue
    BY <1>1, <2>1
  <2> QED
    BY <1>1, <2>1, <2>3, <2>4, RangeShapes, ConcreteIs DEF Fold
<1> QED
  BY <1>2, <1>3

-----------------------------------------------------------------------------
(* Values and the states that hold for them.  Constants may be keys of a state
   too, and must then have a range that is theirs. *)
Env == MapOf(Value, Word)
Fits(e, s) == \A v \in DOMAIN e : e[v] \in Concrete(Get(s, v, Unknown), Word)
Honest(s) == \A c \in ConstantInt \cap DOMAIN s : IntValue[c] \in Concrete(s[c], Word)
Val(e, v) == IF v \in ConstantInt THEN IntValue[v] ELSE e[v]

LEMMA FitsIs ==
  ASSUME NEW e, NEW s
  PROVE  Fits(e, s) <=> \A v \in DOMAIN e : v \in DOMAIN s /\ e[v] \in Concrete(s[v], Word)
<1>1. \A x : x \notin Concrete(Unknown, Word)
  BY RangeShapes DEF Concrete
<1> QED
  BY <1>1 DEF Fits, Get

LEMMA FitsExtends ==
  ASSUME NEW e, NEW s, NEW t, Fits(e, s), Extends(s, t)
  PROVE  Fits(e, t)
BY FitsIs DEF Extends

LEMMA FitsIncluded ==
  ASSUME NEW e, NEW s \in State, NEW t \in State, Fits(e, s), Included(s, t)
  PROVE  Fits(e, t)
<1>1. ASSUME NEW v \in DOMAIN e PROVE v \in DOMAIN t /\ e[v] \in Concrete(t[v], Word)
  <2>1. v \in DOMAIN s /\ e[v] \in Concrete(s[v], Word)
    BY FitsIs
  <2>2. v \in DOMAIN t /\ Below(s[v], t[v])
    BY <2>1 DEF Included
  <2>3. s[v] \in RangeValue /\ t[v] \in RangeValue
    BY <2>1, <2>2, MapIs DEF State
  <2> QED
    BY <2>1, <2>2, <2>3, ConcreteGrows
<1> QED
  BY <1>1, FitsIs

LEMMA FitsSet ==
  ASSUME NEW e, NEW s, Fits(e, s), NEW k, NEW r, NEW x \in Concrete(r, Word)
  PROVE  Fits(Set(e, k, x), Set(s, k, r))
<1> DEFINE d == Set(e, k, x)
           t == Set(s, k, r)
<1>0. d = Set(e, k, x) /\ t = Set(s, k, r)
  OBVIOUS
<1> HIDE DEF d, t
<1>1. /\ DOMAIN d = DOMAIN e \cup {k} /\ d[k] = x
      /\ \A v \in DOMAIN e : v # k => d[v] = e[v]
  BY <1>0 DEF Set
<1>2. /\ DOMAIN t = DOMAIN s \cup {k} /\ t[k] = r
      /\ \A v \in DOMAIN s : v # k => t[v] = s[v]
  BY <1>0 DEF Set
<1>3. ASSUME NEW v \in DOMAIN d PROVE v \in DOMAIN t /\ d[v] \in Concrete(t[v], Word)
  <2>1. CASE v = k
    BY <1>1, <1>2, <2>1
  <2>2. CASE v # k
    <3>1. v \in DOMAIN e /\ d[v] = e[v]
      BY <1>1, <1>3, <2>2
    <3>2. v \in DOMAIN s /\ e[v] \in Concrete(s[v], Word)
      BY <3>1, FitsIs
    <3> QED
      BY <1>2, <2>2, <3>1, <3>2
  <2> QED
    BY <2>1, <2>2
<1>4. Fits(d, t)
  BY <1>3, FitsIs
<1> QED
  BY <1>4 DEF d, t

LEMMA FitsWithout ==
  ASSUME NEW e, NEW s, Fits(e, s), NEW k, NEW r
  PROVE  Fits(Without(e, k), Set(s, k, r))
<1> DEFINE d == Without(e, k)
           t == Set(s, k, r)
<1>1. DOMAIN d = DOMAIN e \ {k} /\ \A v \in DOMAIN d : d[v] = e[v]
  BY DEF Without
<1>0. t = Set(s, k, r)
  OBVIOUS
<1> HIDE DEF d, t
<1>2. /\ DOMAIN t = DOMAIN s \cup {k}
      /\ \A v \in DOMAIN s : v # k => t[v] = s[v]
  BY <1>0 DEF Set
<1>3. ASSUME NEW v \in DOMAIN d PROVE v \in DOMAIN t /\ d[v] \in Concrete(t[v], Word)
  <2>1. v \in DOMAIN e /\ v # k /\ d[v] = e[v]
    BY <1>1, <1>3
  <2>2. v \in DOMAIN s /\ e[v] \in Concrete(s[v], Word)
    BY <2>1, FitsIs
  <2> QED
    BY <1>2, <2>1, <2>2
<1>4. Fits(d, t)
  BY <1>3, FitsIs
<1> QED
  BY <1>4 DEF d, t

(* Any word is fine where nothing is known to be wrong. *)
LEMMA FitsInfinity ==
  ASSUME NEW e \in Env, NEW s, Fits(e, s), NEW k
  PROVE  Fits(e, Set(s, k, Infinity))
<1> DEFINE t == Set(s, k, Infinity)
<1>0. t = Set(s, k, Infinity)
  OBVIOUS
<1> HIDE DEF t
<1>1. /\ DOMAIN t = DOMAIN s \cup {k} /\ t[k] = Infinity
      /\ \A v \in DOMAIN s : v # k => t[v] = s[v]
  BY <1>0 DEF Set
<1>2. ASSUME NEW v \in DOMAIN e PROVE v \in DOMAIN t /\ e[v] \in Concrete(t[v], Word)
  <2>1. v \in DOMAIN s /\ e[v] \in Concrete(s[v], Word) /\ e[v] \in Word
    BY FitsIs, MapIs DEF Env
  <2>2. CASE v = k
    BY <1>1, <2>1, <2>2, RangeShapes, ConcreteIs
  <2>3. CASE v # k
    BY <1>1, <2>1, <2>3
  <2> QED
    BY <2>2, <2>3
<1>3. Fits(e, t)
  BY <1>2, FitsIs
<1> QED
  BY <1>3 DEF t

LEMMA ConstantHolds ==
  ASSUME NEW c \in ConstantInt, NEW s
  PROVE  /\ getRangeFor(c, s) \in RangeValue
         /\ IntValue[c] \in Word /\ IntValue[c] \in Concrete(getRangeFor(c, s), Word)
<1>1. IntValue[c] \in Word
  BY ConstantAssumption
<1>2. getRangeFor(c, s) = makeRange(IntValue[c], IntValue[c])
  BY DEF getRangeFor
<1>3. /\ makeRange(IntValue[c], IntValue[c]) \in RangeValue
      /\ isConstant(makeRange(IntValue[c], IntValue[c]))
      /\ makeRange(IntValue[c], IntValue[c]).lvalue = IntValue[c]
      /\ makeRange(IntValue[c], IntValue[c]).rvalue = IntValue[c]
  BY <1>1, RangeShapes
<1>4. IntValue[c] \in Int
  BY <1>1, WordIsInt
<1> QED
  BY <1>1, <1>2, <1>3, <1>4, ConcreteIs, RangeShapes

(* Putting a range into a state keeps it honest, unless it is another one for a
   constant. *)
LEMMA HonestSet ==
  ASSUME NEW s, Honest(s), NEW k, NEW r,
         k \in ConstantInt => IntValue[k] \in Concrete(r, Word)
  PROVE  Honest(Set(s, k, r))
<1> DEFINE t == Set(s, k, r)
<1>0. t = Set(s, k, r)
  OBVIOUS
<1> HIDE DEF t
<1>1. /\ DOMAIN t = DOMAIN s \cup {k} /\ t[k] = r
      /\ \A v \in DOMAIN s : v # k => t[v] = s[v]
  BY <1>0 DEF Set
<1>2. Honest(t)
  BY <1>1 DEF Honest
<1> QED
  BY <1>2 DEF t

LEMMA HonestTouch ==
  ASSUME NEW s, Honest(s), NEW k, k \notin ConstantInt, NEW d
  PROVE  Honest(Touch(s, k, d))
BY HonestSet DEF Touch

LEMMA HonestLooked ==
  ASSUME NEW v, NEW s, Honest(s)
  PROVE  Honest(Looked(v, s))
BY HonestTouch DEF Looked

LEMMA HonestTransfer ==
  ASSUME NEW i, i.id \notin ConstantInt, NEW s, Honest(s)
  PROVE  Honest(transfer(i, s))
<1>1. Honest(LookedUp(i, s))
  <2>1. Honest(Looked(i.args[1], s))
    BY HonestLooked
  <2>2. Honest(Looked(i.args[2], Looked(i.args[1], s)))
    BY <2>1, HonestLooked
  <2> QED
    BY <2>1, <2>2 DEF LookedUp
<1> QED
  BY <1>1, HonestSet DEF transfer

(* Joined ranges hold what either held. *)
LEMMA HonestMerge ==
  ASSUME NEW s \in State, NEW t \in State, Honest(s), Honest(t)
  PROVE  Honest(Merge(s, t))
<1>1. /\ Merge(s, t) \in State /\ DOMAIN Merge(s, t) = DOMAIN s \cup DOMAIN t
      /\ Included(s, Merge(s, t)) /\ Included(t, Merge(s, t))
  BY MergeStates
<1> DEFINE u == Merge(s, t)
<1> HIDE DEF u
<1>2. ASSUME NEW c \in ConstantInt \cap DOMAIN u PROVE IntValue[c] \in Concrete(u[c], Word)
  <2>1. u[c] \in RangeValue
    BY <1>1, MapIs DEF State, u
  <2>2. CASE c \in DOMAIN s
    <3>1. s[c] \in RangeValue /\ Below(s[c], u[c]) /\ IntValue[c] \in Concrete(s[c], Word)
      BY <1>1, <2>2, MapIs DEF State, Included, Honest, u
    <3> QED
      BY <2>1, <3>1, ConcreteGrows
  <2>3. CASE c \in DOMAIN t
    <3>1. t[c] \in RangeValue /\ Below(t[c], u[c]) /\ IntValue[c] \in Concrete(t[c], Word)
      BY <1>1, <2>3, MapIs DEF State, Included, Honest, u
    <3> QED
      BY <2>1, <3>1, ConcreteGrows
  <2> QED
    BY <1>1, <2>2, <2>3 DEF u
<1> QED
  BY <1>2 DEF Honest, u

(* An operand has the range that its value is in, once it has been asked for. *)
LEMMA OperandHonest ==
  ASSUME mod \in Modules, NEW f \in DOMAIN mod.functions, NEW v \in Value, NEW s, Honest(s)
  PROVE  Honest(WithOperand(f, v, s))
<1>1. CASE v \in DOMAIN s
  BY <1>1 DEF WithOperand
<1>2. CASE v \notin DOMAIN s /\ v \in ConstantInt
  <2>1. WithOperand(f, v, s) = Set(s, v, getRangeFor(v, s))
    BY <1>2 DEF WithOperand, transferOperand
  <2> QED
    BY <1>2, <2>1, ConstantHolds, HonestSet
<1>3. CASE /\ v \notin DOMAIN s /\ v \notin ConstantInt
           /\ \E i \in Instructions(f) : i.id = v
  <2> DEFINE j == CHOOSE i \in Instructions(f) : i.id = v
  <2>1. j.id = v
    BY <1>3
  <2>2. WithOperand(f, v, s) = transfer(j, s)
    BY <1>3 DEF WithOperand, transferOperand
  <2> HIDE DEF j
  <2> QED
    BY <1>3, <2>1, <2>2, HonestTransfer
<1>4. CASE /\ v \notin DOMAIN s /\ v \notin ConstantInt
           /\ ~\E i \in Instructions(f) : i.id = v
  <2>1. WithOperand(f, v, s) = Set(s, v, Infinity)
    BY <1>4 DEF WithOperand, transferOperand
  <2> QED
    BY <1>4, <2>1, HonestSet
<1> QED
  BY <1>1, <1>2, <1>3, <1>4

LEMMA OperandHolds ==
  ASSUME NEW f, NEW v, NEW s, Honest(s), NEW e, Fits(e, s),
         v \in ConstantInt \cup DOMAIN e
  PROVE  Val(e, v) \in Concrete(WithOperand(f, v, s)[v], Word)
<1>1. CASE v \in ConstantInt /\ v \in DOMAIN s
  BY <1>1 DEF Val, Honest, WithOperand
<1>2. CASE v \in ConstantInt /\ v \notin DOMAIN s
  <2> DEFINE r == getRangeFor(v, s)
             t == WithOperand(f, v, s)
  <2>1. t = Set(s, v, r)
    BY <1>2 DEF WithOperand, transferOperand
  <2>2. Val(e, v) \in Concrete(r, Word)
    BY <1>2, ConstantHolds DEF Val
  <2> HIDE DEF r, t
  <2>3. t[v] = r
    BY <2>1 DEF Set
  <2> QED
    BY <2>2, <2>3 DEF t
<1>3. CASE v \notin ConstantInt
  <2>1. v \in DOMAIN s /\ e[v] \in Concrete(s[v], Word)
    BY <1>3, FitsIs
  <2> QED
    BY <1>3, <2>1 DEF Val, WithOperand
<1> QED
  BY <1>1, <1>2, <1>3

LEMMA OperandsHold ==
  ASSUME mod \in Modules, NEW f \in DOMAIN mod.functions, NEW args \in Seq(Value),
         NEW s \in Draft, Honest(s), NEW u, u = OperandStates(f, args, s)[Len(args)]
  PROVE  /\ Honest(u) /\ Extends(s, u)
         /\ \A e : Fits(e, s) =>
              \A k \in 1..Len(args) : args[k] \in ConstantInt \cup DOMAIN e =>
                Val(e, args[k]) \in Concrete(u[args[k]], Word)
<1> DEFINE n == Len(args)
           w == OperandStates(f, args, s)
<1>1. n \in Nat /\ \A k \in 1..n : args[k] \in Value
  OBVIOUS
<1>2. /\ w \in [0..n -> Draft] /\ w[0] = s
      /\ \A k \in 1..n : w[k] = WithOperand(f, args[k], w[k - 1])
  BY OperandStatesAre
<1>3. /\ \A k \in 0..n : Extends(w[k], w[n])
      /\ \A k \in 1..n : args[k] \in DOMAIN w[k] /\ args[k] \in DOMAIN w[n]
  BY OperandsStay
<1>4. u = w[n]
  OBVIOUS
<1> HIDE DEF w, n
<1> DEFINE S == {k \in 0..n : Honest(w[k]) /\ Extends(s, w[k])}
<1>5. 0 \in S
  BY <1>1, <1>2 DEF Extends
<1>6. ASSUME NEW k \in 1..n, k - 1 \in S PROVE k \in S
  <2>1. k \in 0..n /\ k - 1 \in 0..n /\ args[k] \in Value /\ w[k] = WithOperand(f, args[k], w[k - 1])
    BY <1>1, <1>2
  <2>2. w[k - 1] \in Draft /\ Honest(w[k - 1]) /\ Extends(s, w[k - 1])
    BY <1>2, <1>6, <2>1
  <2>3. Honest(w[k])
    BY <2>1, <2>2, OperandHonest
  <2>4. Extends(w[k - 1], w[k])
    BY <2>1, <2>2, OperandIs
  <2> QED
    BY <2>1, <2>2, <2>3, <2>4, ExtendsExtends
<1>7. 0..n \subseteq S
  <2> HIDE DEF S
  <2> QED
    BY <1>1, <1>5, <1>6, UpTo
<1>8. ASSUME NEW e, Fits(e, s), NEW k \in 1..n, args[k] \in ConstantInt \cup DOMAIN e
      PROVE  Val(e, args[k]) \in Concrete(u[args[k]], Word)
  <2>1. k \in 0..n /\ k - 1 \in 0..n /\ w[k] = WithOperand(f, args[k], w[k - 1])
    BY <1>1, <1>2
  <2>2. Honest(w[k - 1]) /\ Extends(s, w[k - 1])
    BY <1>7, <2>1
  <2>3. Fits(e, w[k - 1])
    BY <1>8, <2>2, FitsExtends
  <2>4. Val(e, args[k]) \in Concrete(w[k][args[k]], Word)
    BY <1>8, <2>1, <2>2, <2>3, OperandHolds
  <2>5. u[args[k]] = w[k][args[k]]
    BY <1>3, <1>4, <2>1 DEF Extends
  <2> QED
    BY <2>4, <2>5
<1>9. n \in 0..n
  BY <1>1
<1> QED
  BY <1>4, <1>7, <1>8, <1>9 DEF n

LEMMA RangeHolds ==
  ASSUME NEW v \in Value, NEW s \in State, NEW e, Fits(e, s), v \in ConstantInt \cup DOMAIN e
  PROVE  getRangeFor(v, s) \in RangeValue /\ Val(e, v) \in Concrete(getRangeFor(v, s), Word)
<1>1. CASE v \in ConstantInt
  BY <1>1, ConstantHolds DEF Val
<1>2. CASE v \notin ConstantInt
  <2>1. v \in DOMAIN s /\ e[v] \in Concrete(s[v], Word) /\ s[v] \in RangeValue
    BY <1>2, FitsIs, MapIs DEF State
  <2> QED
    BY <1>2, <2>1 DEF Val, getRangeFor, Get
<1> QED
  BY <1>1, <1>2

-----------------------------------------------------------------------------
(* What an instruction computes is in the range that it is given. *)
LEMMA OpcodesApart ==
  /\ BinaryOp \cap {"trunc", "sext", "zext", "phi", "call", "access", "opaque", "br", "ret"} = {}
  /\ WordCast = {"trunc", "sext", "zext"}
  /\ Opcode = BinaryOp \cup {"trunc", "sext", "zext"}
                \cup {"phi", "call", "access", "opaque", "br", "ret"}
  /\ ExactOp \cap WordCast = {"sext"}
BY DEF BinaryOp, WordCast, CastOp, Opcode, ExactOp

LEMMA ArgumentsIn ==
  ASSUME mod \in Modules, NEW f \in DOMAIN mod.functions, NEW i \in Instructions(f), NEW x,
         Operands(x, i) \subseteq ConstantInt \cup DOMAIN x.env
  PROVE  /\ i.args \in Seq(Value) /\ i.op \in Opcode /\ i.id \in Value /\ i.id \notin ConstantInt
         /\ i.op \in BinaryOp => \A k \in {1, 2} : i.args[k] \in Value
                                   /\ i.args[k] \in ConstantInt \cup DOMAIN x.env
         /\ i.op = "sext" => i.args[1] \in Value /\ i.args[1] \in ConstantInt \cup DOMAIN x.env
         /\ i.op = "phi" => \A k \in 1..Len(i.args) :
              i.from[k] = x.prev => i.args[k] \in ConstantInt \cup DOMAIN x.env
<1>1. /\ i \in Instruction
      /\ i.op \in BinaryOp => Len(i.args) = 2
      /\ i.op \in WordCast => Len(i.args) = 1
  BY InstructionIs
<1>2. i.args \in Seq(Value) /\ i.op \in Opcode /\ i.id \in Value
  BY <1>1 DEF Instruction
<1>3. i.id \notin ConstantInt
  BY ModuleAssumption DEF WellFormed, Instructions, Blocks, Code, Fn
<1>4. i.op # "phi" => \A k \in 1..Len(i.args) : i.args[k] \in ConstantInt \cup DOMAIN x.env
  BY <1>2 DEF Operands, Range
<1>5. i.op = "phi" => \A k \in 1..Len(i.args) :
        i.from[k] = x.prev => i.args[k] \in ConstantInt \cup DOMAIN x.env
  BY <1>2 DEF Operands
<1>6. i.op \in BinaryOp => \A k \in {1, 2} : i.args[k] \in Value
                             /\ i.args[k] \in ConstantInt \cup DOMAIN x.env
  <2> SUFFICES ASSUME i.op \in BinaryOp, NEW k \in {1, 2}
               PROVE  i.args[k] \in Value /\ i.args[k] \in ConstantInt \cup DOMAIN x.env
    OBVIOUS
  <2>1. Len(i.args) = 2
    BY <1>1
  <2>2. k \in 1..Len(i.args)
    BY <2>1
  <2>3. i.op # "phi"
    BY OpcodesApart
  <2> QED
    BY <1>2, <1>4, <2>2, <2>3
<1>7. i.op = "sext" => i.args[1] \in Value /\ i.args[1] \in ConstantInt \cup DOMAIN x.env
  BY <1>1, <1>2, <1>4, OpcodesApart
<1> QED
  BY <1>2, <1>3, <1>5, <1>6, <1>7

LEMMA OutcomesAre ==
  ASSUME NEW x, NEW i, i.op \in ExactOp, NEW z \in Outcomes(x, i)
  PROVE  /\ i.op \in BinaryOp => z \in Result(i.op, Val(x.env, i.args[1]), Val(x.env, i.args[2]))
         /\ i.op = "sext" => z = Fold("sext", Val(x.env, i.args[1]))
         /\ i.op = "phi" => \E k \in DOMAIN i.args : i.from[k] = x.prev /\ z = Val(x.env, i.args[k])
         /\ i.op \notin BinaryOp \cup {"sext", "phi"} => z \in Word
<1>1. \A v : Of(x, v) = Val(x.env, v)
  BY DEF Of, Val
<1>2. CASE i.op \in BinaryOp
  BY <1>1, <1>2, OpcodesApart DEF Outcomes
<1>3. CASE i.op = "sext"
  BY <1>1, <1>3, OpcodesApart DEF Outcomes
<1>4. CASE i.op = "phi"
  BY <1>1, <1>4, OpcodesApart DEF Outcomes
<1>5. CASE i.op \notin BinaryOp \cup {"sext", "phi"}
  <2>1. i.op \notin BinaryOp /\ i.op # "trunc" /\ i.op \notin {"sext", "zext"} /\ i.op # "phi"
    BY <1>5 DEF ExactOp
  <2> QED
    BY <1>5, <2>1 DEF Outcomes
<1> QED
  BY <1>2, <1>3, <1>4, <1>5, OpcodesApart

LEMMA ValIsWord ==
  ASSUME NEW e \in Env, NEW v \in ConstantInt \cup DOMAIN e
  PROVE  Val(e, v) \in Word
BY MapIs, ConstantAssumption DEF Env, Val

LEMMA OutcomeIsWord ==
  ASSUME mod \in Modules, NEW f \in DOMAIN mod.functions, NEW i \in Instructions(f),
         i.op \in ExactOp, NEW x, x.env \in Env,
         Operands(x, i) \subseteq ConstantInt \cup DOMAIN x.env, NEW z \in Outcomes(x, i)
  PROVE  z \in Word
<1>1. Infinity \in RangeValue /\ \A w \in Word : w \in Concrete(Infinity, Word)
  BY RangeShapes, ConcreteIs
<1>2. CASE i.op \in BinaryOp
  <2>1. Val(x.env, i.args[1]) \in Word /\ Val(x.env, i.args[2]) \in Word
    BY <1>2, ArgumentsIn, ValIsWord
  <2>2. z \in Result(i.op, Val(x.env, i.args[1]), Val(x.env, i.args[2]))
    BY <1>2, OutcomesAre
  <2> QED
    BY <1>1, <1>2, <2>1, <2>2, OperationSound
<1>3. CASE i.op = "sext"
  <2>1. Val(x.env, i.args[1]) \in Word
    BY <1>3, ArgumentsIn, ValIsWord
  <2>2. z = Fold("sext", Val(x.env, i.args[1]))
    BY <1>3, OutcomesAre
  <2> QED
    BY <1>1, <2>1, <2>2, SextSound
<1>4. CASE i.op = "phi"
  <2>1. PICK k \in DOMAIN i.args : i.from[k] = x.prev /\ z = Val(x.env, i.args[k])
    BY <1>4, OutcomesAre
  <2>2. k \in 1..Len(i.args)
    BY ArgumentsIn
  <2> QED
    BY <1>4, <2>1, <2>2, ArgumentsIn, ValIsWord
<1>5. CASE i.op \notin BinaryOp \cup {"sext", "phi"}
  BY <1>5, OutcomesAre
<1> QED
  BY <1>2, <1>3, <1>4, <1>5

(* The transfer function is sound: what the instruction computes from values
   that a state holds for is held for by the state it leaves. *)
LEMMA OutcomeHolds ==
  ASSUME mod \in Modules, NEW f \in DOMAIN mod.functions, NEW i \in Instructions(f),
         i.op \in ExactOp, NEW s \in State, Honest(s), ~Faulty(applyTransfer(f, i, s)),
         NEW x, Fits(x.env, s), Operands(x, i) \subseteq ConstantInt \cup DOMAIN x.env,
         NEW z \in Outcomes(x, i)
  PROVE  Fits(Set(x.env, i.id, z), applyTransfer(f, i, s))
<1>1. s \in Draft
  BY StateIs
<1>2. i.args \in Seq(Value)
  BY ArgumentsIn
<1>3. CASE i.op # "phi"
  <2> DEFINE u == LookedUp(i, s)
             r == Transferred(i, s)
  <2>1. applyTransfer(f, i, s) = Set(u, i.id, r)
    BY <1>3 DEF applyTransfer, transfer
  <2>2. Extends(s, u)
    BY <1>1, TransferIs DEF Asks
  <2>3. Fits(x.env, u)
    BY <2>2, FitsExtends
  <2>4. z \in Concrete(r, Word)
    <3>1. CASE i.op \in BinaryOp
      <4> DEFINE a == getRangeFor(i.args[1], s)
                 b == getRangeFor(i.args[2], s)
                 v == Val(x.env, i.args[1])
                 w == Val(x.env, i.args[2])
      <4>1. a \in RangeValue /\ v \in Concrete(a, Word)
        BY <3>1, ArgumentsIn, RangeHolds
      <4>2. b \in RangeValue /\ w \in Concrete(b, Word)
        BY <3>1, ArgumentsIn, RangeHolds
      <4>3. z \in Result(i.op, v, w)
        BY <3>1, OutcomesAre
      <4>4. r = evaluateBinOP(i.op, a, b)
        BY <3>1, OpcodesApart DEF Transferred
      <4> HIDE DEF a, b, v, w, r
      <4> QED
        BY <3>1, <4>1, <4>2, <4>3, <4>4, OperationSound
    <3>2. CASE i.op = "sext"
      <4> DEFINE a == getRangeFor(i.args[1], s)
                 v == Val(x.env, i.args[1])
      <4>1. a \in RangeValue /\ v \in Concrete(a, Word)
        BY <3>2, ArgumentsIn, RangeHolds
      <4>2. z = Fold("sext", v)
        BY <3>2, OutcomesAre
      <4>3. r = evaluateCast("sext", a)
        BY <3>2, OpcodesApart DEF Transferred
      <4> HIDE DEF a, v, r
      <4> QED
        BY <4>1, <4>2, <4>3, SextSound
    <3>3. CASE i.op \notin BinaryOp \cup {"sext", "phi"}
      <4>1. z \in Word
        BY <3>3, OutcomesAre
      <4>2. i.op \notin BinaryOp \cup WordCast
        BY <3>3, OpcodesApart
      <4>3. r = Infinity
        BY <1>1, <4>2, TransferIs
      <4> HIDE DEF r
      <4> QED
        BY <4>1, <4>3, RangeShapes, ConcreteIs
    <3> QED
      BY <1>3, <3>1, <3>2, <3>3
  <2> HIDE DEF u, r
  <2> QED
    BY <2>1, <2>3, <2>4, FitsSet
<1>4. CASE i.op = "phi"
  <2> DEFINE u == OperandStates(f, i.args, s)[Len(i.args)]
             t == applyTransfer(f, i, s)
  <2>1. /\ u \in Draft /\ Extends(s, u) /\ \A v \in DOMAIN u : u[v] \in RangeValue
        /\ t = Set(u, i.id, t[i.id]) /\ t[i.id] \in RangeValue
        /\ \A k \in 1..Len(i.args) : i.args[k] \in DOMAIN u /\ Below(u[i.args[k]], t[i.id])
    BY <1>4, PhiIs
  <2>2. PICK k \in DOMAIN i.args : i.from[k] = x.prev /\ z = Val(x.env, i.args[k])
    BY <1>4, OutcomesAre
  <2>3. k \in 1..Len(i.args) /\ i.args[k] \in ConstantInt \cup DOMAIN x.env
    BY <1>2, <1>4, <2>2, ArgumentsIn
  <2>4. Val(x.env, i.args[k]) \in Concrete(u[i.args[k]], Word)
    BY <1>1, <1>2, <2>3, OperandsHold
  <2> HIDE DEF u, t
  <2>5. u[i.args[k]] \in RangeValue
    BY <2>1, <2>3
  <2>6. z \in Concrete(t[i.id], Word)
    BY <2>1, <2>2, <2>3, <2>4, <2>5, ConcreteGrows
  <2>7. Fits(x.env, u)
    BY <2>1, FitsExtends
  <2>8. Fits(Set(x.env, i.id, z), t)
    BY <2>1, <2>6, <2>7, FitsSet
  <2> QED
    BY <2>8 DEF t
<1> QED
  BY <1>3, <1>4

LEMMA AppliedHonest ==
  ASSUME mod \in Modules, NEW f \in DOMAIN mod.functions, NEW i \in Instructions(f),
         NEW s \in State, Honest(s), ~Faulty(applyTransfer(f, i, s))
  PROVE  Honest(applyTransfer(f, i, s))
<1>1. s \in Draft
  BY StateIs
<1>2. i.id \notin ConstantInt
  BY ModuleAssumption DEF WellFormed, Instructions, Blocks, Code, Fn
<1>3. CASE i.op # "phi"
  <2>1. applyTransfer(f, i, s) = transfer(i, s)
    BY <1>3 DEF applyTransfer
  <2> QED
    BY <1>2, <2>1, HonestTransfer
<1>4. CASE i.op = "phi"
  <2> DEFINE u == OperandStates(f, i.args, s)[Len(i.args)]
             t == applyTransfer(f, i, s)
             r == t[i.id]
  <2>1. t = Set(u, i.id, r)
    BY <1>4, PhiIs
  <2>2. Honest(u)
    BY <1>1, OperandsHold, InstructionIs DEF Instruction
  <2> HIDE DEF u, r
  <2> QED
    BY <1>2, <2>1, <2>2, HonestSet
<1> QED
  BY <1>3, <1>4

(* Accesses and terminators leave values alone. *)
LEMMA LeftAloneHolds ==
  ASSUME mod \in Modules, NEW f \in DOMAIN mod.functions, NEW i \in Instructions(f),
         i.op \in {"access", "br", "ret"}, NEW s \in State, NEW e \in Env, Fits(e, s)
  PROVE  Fits(e, applyTransfer(f, i, s))
<1>1. applyTransfer(f, i, s) = Set(s, i.id, Infinity)
  BY OpcodesApart DEF applyTransfer, transfer, Transferred, LookedUp
<1> QED
  BY <1>1, FitsInfinity

-----------------------------------------------------------------------------
(* What the analysed program can do.  x is an activation: a point of a function,
   the arguments it was called with and the values it has. *)
Universe ==
  {x \in [fn : DOMAIN mod.functions, args : Env, bb : Block, pc : Nat,
          prev : Block \cup {NoBlock}, env : Env] :
     x.bb \in Blocks(x.fn) /\ x.pc \in 1..Len(Code(x.fn, x.bb))}
At(x)    == Code(x.fn, x.bb)[x.pc]
Ready(x) == Operands(x, At(x)) \subseteq ConstantInt \cup DOMAIN x.env

Begun(f, e) == [fn |-> f, args |-> e, bb |-> Head(Fn(f).blocks), pc |-> 1, prev |-> NoBlock,
                env |-> e]
Moved(x, e)  == [fn |-> x.fn, args |-> x.args, bb |-> x.bb, pc |-> x.pc + 1, prev |-> x.prev,
                 env |-> e]
Jumped(x, b) == [fn |-> x.fn, args |-> x.args, bb |-> b, pc |-> 1, prev |-> x.bb,
                 env |-> x.env]

Computed(x) == IF At(x).op = "access" THEN {x.env}
               ELSE {Set(x.env, At(x).id, z) : z \in Outcomes(x, At(x))}
Position(f, v) == CHOOSE k \in DOMAIN Params(f) : Params(f)[k] = v
Passed(x, i) ==
  [v \in Range(Params(i.callee)) |-> Val(x.env, i.args[Position(i.callee, v)])]
Returns(x, z) ==
  /\ At(x).op = "call" /\ Ready(x) /\ z.fn = At(x).callee /\ z.args = Passed(x, At(x))
  /\ At(z).op = "ret" /\ Ready(z)
Handed(x, z) == IF At(z).args = << >> THEN Without(x.env, At(x).id)
                ELSE Set(x.env, At(x).id, Val(z.env, At(z).args[1]))

(* Whatever functions are called with, every step is taken, and so are the
   returns to a call from the activations it leads to. *)
Closed(S) ==
  /\ \A f \in DOMAIN mod.functions : \A e \in [Range(Params(f)) -> Word] : Begun(f, e) \in S
  /\ \A x \in S : Ready(x) /\ At(x).op \notin {"call", "br", "ret"} =>
       \A e \in Computed(x) : Moved(x, e) \in S
  /\ \A x \in S : At(x).op = "br" => \A b \in Succs(x.fn, x.bb) : Jumped(x, b) \in S
  /\ \A x, z \in S : Returns(x, z) => Moved(x, Handed(x, z)) \in S
Reached == {x \in Universe : \A S \in SUBSET Universe : Closed(S) => x \in S}

ExactOperations == \A f \in DOMAIN mod.functions : \A i \in Instructions(f) : i.op \in ExactOp

LEMMA ReachedOnly ==
  ASSUME NEW S \in SUBSET Universe, Closed(S)
  PROVE  Reached \subseteq S
BY DEF Reached

LEMMA Terminators ==
  ASSUME mod \in Modules, NEW f \in DOMAIN mod.functions, NEW b \in Blocks(f),
         NEW j \in DOMAIN Code(f, b)
  PROVE  Code(f, b)[j].op \in {"br", "ret"} <=> j = Len(Code(f, b))
BY ModuleAssumption DEF WellFormed, Blocks, Code, Fn

LEMMA UniverseIs ==
  ASSUME mod \in Modules, NEW x \in Universe
  PROVE  /\ x.fn \in DOMAIN mod.functions /\ x.args \in Env /\ x.env \in Env
         /\ x.bb \in Blocks(x.fn) /\ x.pc \in 1..Len(Code(x.fn, x.bb))
         /\ At(x) \in Instructions(x.fn)
         /\ At(x).op \notin {"br", "ret"} => x.pc + 1 \in 1..Len(Code(x.fn, x.bb))
<1>1. /\ x.fn \in DOMAIN mod.functions /\ x.args \in Env /\ x.env \in Env
      /\ x.bb \in Blocks(x.fn) /\ x.pc \in 1..Len(Code(x.fn, x.bb))
  BY DEF Universe
<1>2. /\ Len(Code(x.fn, x.bb)) \in Nat /\ DOMAIN Code(x.fn, x.bb) = 1..Len(Code(x.fn, x.bb))
      /\ At(x) \in Instructions(x.fn)
  BY <1>1, AtIs DEF At
<1>3. At(x).op \in {"br", "ret"} <=> x.pc = Len(Code(x.fn, x.bb))
  BY <1>1, <1>2, Terminators DEF At
<1> QED
  BY <1>1, <1>2, <1>3

LEMMA PositionIs ==
  ASSUME mod \in Modules, NEW f \in DOMAIN mod.functions, NEW v \in Range(Params(f))
  PROVE  Position(f, v) \in 1..Len(Params(f)) /\ Params(f)[Position(f, v)] = v
<1>1. Params(f) \in Seq(Value)
  BY FnIs
<1>2. \E k \in DOMAIN Params(f) : Params(f)[k] = v
  BY DEF Range
<1>3. Position(f, v) \in DOMAIN Params(f) /\ Params(f)[Position(f, v)] = v
  BY <1>2 DEF Position
<1> QED
  BY <1>1, <1>3

LEMMA PassedIs ==
  ASSUME mod \in Modules, NEW x \in Universe, At(x).op = "call", Ready(x)
  PROVE  /\ At(x).callee \in DOMAIN mod.functions /\ At(x).args \in Seq(Value)
         /\ Passed(x, At(x)) \in [Range(Params(At(x).callee)) -> Word]
         /\ \A v \in Range(Params(At(x).callee)) :
              LET k == Position(At(x).callee, v)
              IN /\ k \in 1..Len(At(x).args)
                 /\ At(x).args[k] \in ConstantInt \cup DOMAIN x.env
                 /\ Passed(x, At(x))[v] = Val(x.env, At(x).args[k])
<1> DEFINE i == At(x)
           g == i.callee
<1>1. x.fn \in DOMAIN mod.functions /\ x.env \in Env /\ i \in Instructions(x.fn)
  BY UniverseIs
<1>2. i \in Instruction /\ g \in DOMAIN mod.functions /\ Len(i.args) = Len(Params(g))
  BY <1>1, InstructionIs
<1>3. i.args \in Seq(Value)
  BY <1>2 DEF Instruction
<1>4. Operands(x, i) = Range(i.args) /\ Operands(x, i) \subseteq ConstantInt \cup DOMAIN x.env
  BY DEF Operands, Ready
<1> DEFINE e == Passed(x, i)
<1>5. e = [v \in Range(Params(g)) |-> Val(x.env, i.args[Position(g, v)])]
  BY DEF Passed
<1> HIDE DEF i, e
<1>6. ASSUME NEW v \in Range(Params(g)), NEW k, k = Position(g, v)
      PROVE  /\ k \in 1..Len(i.args) /\ i.args[k] \in ConstantInt \cup DOMAIN x.env
             /\ e[v] = Val(x.env, i.args[k]) /\ e[v] \in Word
  <2>1. k \in 1..Len(i.args)
    BY <1>2, <1>6, PositionIs
  <2>2. i.args[k] \in ConstantInt \cup DOMAIN x.env
    BY <1>3, <1>4, <2>1 DEF Range
  <2>3. e[v] = Val(x.env, i.args[k])
    BY <1>5, <1>6
  <2>4. e[v] \in Word
    BY <1>1, <2>2, <2>3, ValIsWord
  <2> QED
    BY <2>1, <2>2, <2>3, <2>4
<1>7. e \in [Range(Params(g)) -> Word]
  BY <1>5, <1>6
<1> QED
  BY <1>2, <1>3, <1>6, <1>7 DEF i, e

LEMMA HandedIs ==
  ASSUME mod \in Modules, NEW x \in Universe, NEW z \in Universe, Returns(x, z)
  PROVE  /\ Handed(x, z) \in Env
         /\ At(z).args # << >> => At(z).args[1] \in ConstantInt \cup DOMAIN z.env
                                   /\ Val(z.env, At(z).args[1]) \in Word
<1>1. x.env \in Env /\ At(x) \in Instructions(x.fn) /\ x.fn \in DOMAIN mod.functions
  BY UniverseIs
<1>2. z.env \in Env /\ At(z) \in Instructions(z.fn) /\ z.fn \in DOMAIN mod.functions
  BY UniverseIs
<1>3. At(x).id \in Value
  BY <1>1, InstructionIs DEF Instruction
<1>4. At(z).args \in Seq(Value)
  BY <1>2, InstructionIs DEF Instruction
<1>5. Without(x.env, At(x).id) \in Env
  <2>1. DOMAIN x.env \subseteq Value /\ \A v \in DOMAIN x.env : x.env[v] \in Word
    BY <1>1, MapIs DEF Env
  <2> DEFINE D == DOMAIN x.env \ {At(x).id}
             e == Without(x.env, At(x).id)
  <2>2. e \in [D -> Word] /\ D \in SUBSET Value
    BY <2>1 DEF Without
  <2> HIDE DEF D, e
  <2>3. e \in Env
    BY <2>2, IsMap DEF Env
  <2> QED
    BY <2>3 DEF e
<1>6. ASSUME At(z).args # << >>
      PROVE  /\ At(z).args[1] \in ConstantInt \cup DOMAIN z.env
             /\ Val(z.env, At(z).args[1]) \in Word
  <2>1. At(z).op = "ret" /\ Operands(z, At(z)) \subseteq ConstantInt \cup DOMAIN z.env
    BY DEF Returns, Ready
  <2>2. At(z).args[1] \in Range(At(z).args)
    BY <1>4, <1>6 DEF Range
  <2>3. At(z).args[1] \in ConstantInt \cup DOMAIN z.env
    BY <2>1, <2>2 DEF Operands
  <2> QED
    BY <1>2, <2>3, ValIsWord
<1>7. ASSUME At(z).args # << >>
      PROVE  Set(x.env, At(x).id, Val(z.env, At(z).args[1])) \in Env
  BY <1>1, <1>3, <1>6, <1>7, SetMap DEF Env
<1> QED
  BY <1>5, <1>6, <1>7 DEF Handed

LEMMA BegunIs ==
  ASSUME mod \in Modules, NEW f \in DOMAIN mod.functions, NEW e \in [Range(Params(f)) -> Word]
  PROVE  e \in Env /\ Begun(f, e) \in Universe /\ Head(Fn(f).blocks) \in Blocks(f)
<1>1. /\ Params(f) \in Seq(Value) /\ Blocks(f) \subseteq Block
      /\ Fn(f).blocks \in Seq(Blocks(f))
      /\ \A b \in Blocks(f) : Code(f, b) \in Seq(Instruction) /\ Code(f, b) # << >>
  BY FnIs
<1>2. Fn(f).blocks # << >>
  BY ModuleAssumption DEF WellFormed, Fn
<1>3. Range(Params(f)) \in SUBSET Value
  BY <1>1 DEF Range
<1>4. e \in Env
  BY <1>3, IsMap DEF Env
<1>5. Head(Fn(f).blocks) \in Blocks(f)
  BY <1>1, <1>2
<1> DEFINE b == Head(Fn(f).blocks)
<1>6. 1 \in 1..Len(Code(f, b)) /\ b \in Block
  BY <1>1, <1>5
<1> HIDE DEF b
<1>7. Begun(f, e) = [fn |-> f, args |-> e, bb |-> b, pc |-> 1, prev |-> NoBlock, env |-> e]
  BY DEF Begun, b
<1>8. Begun(f, e) \in Universe
  BY <1>4, <1>5, <1>6, <1>7 DEF Universe, b
<1> QED
  BY <1>4, <1>5, <1>8

LEMMA MovedIs ==
  ASSUME mod \in Modules, NEW x \in Universe, At(x).op \notin {"br", "ret"}, NEW e \in Env
  PROVE  /\ Moved(x, e) \in Universe
         /\ Moved(x, e).fn = x.fn /\ Moved(x, e).bb = x.bb /\ Moved(x, e).pc = x.pc + 1
         /\ Moved(x, e).args = x.args /\ Moved(x, e).env = e
<1>1. x.pc + 1 \in 1..Len(Code(x.fn, x.bb)) /\ x.bb \in Blocks(x.fn)
  BY UniverseIs
<1>2. x \in [fn : DOMAIN mod.functions, args : Env, bb : Block, pc : Nat,
             prev : Block \cup {NoBlock}, env : Env]
  BY DEF Universe
<1> DEFINE m == Moved(x, e)
<1>3. m = [fn |-> x.fn, args |-> x.args, bb |-> x.bb, pc |-> x.pc + 1, prev |-> x.prev,
           env |-> e]
  BY <1>2 DEF Moved
<1> HIDE DEF m
<1>4. m.fn = x.fn /\ m.bb = x.bb /\ m.pc = x.pc + 1 /\ m.args = x.args /\ m.env = e
  BY <1>3
<1>5. m \in [fn : DOMAIN mod.functions, args : Env, bb : Block, pc : Nat,
             prev : Block \cup {NoBlock}, env : Env]
  BY <1>2, <1>3
<1>6. m \in Universe
  BY <1>1, <1>4, <1>5 DEF Universe
<1> QED
  BY <1>4, <1>6 DEF m

LEMMA JumpedIs ==
  ASSUME mod \in Modules, NEW x \in Universe, NEW b \in Succs(x.fn, x.bb)
  PROVE  /\ Jumped(x, b) \in Universe /\ b \in Blocks(x.fn) /\ x.bb \in Preds(x.fn, b)
         /\ Jumped(x, b).fn = x.fn /\ Jumped(x, b).bb = b /\ Jumped(x, b).pc = 1
         /\ Jumped(x, b).args = x.args /\ Jumped(x, b).env = x.env
<1>1. x.fn \in DOMAIN mod.functions /\ x.bb \in Blocks(x.fn)
  BY UniverseIs
<1>2. /\ Blocks(x.fn) \subseteq Block /\ Fn(x.fn).succ[x.bb] \in Seq(Blocks(x.fn))
      /\ \A c \in Blocks(x.fn) : Code(x.fn, c) \in Seq(Instruction) /\ Code(x.fn, c) # << >>
  BY <1>1, FnIs
<1>3. b \in Blocks(x.fn)
  BY <1>2 DEF Succs, Range
<1>4. 1 \in 1..Len(Code(x.fn, b)) /\ b \in Block
  BY <1>2, <1>3
<1>5. x.bb \in Preds(x.fn, b)
  BY <1>1 DEF Preds
<1> QED
  BY <1>2, <1>3, <1>4, <1>5, <1>1 DEF Jumped, Universe

LEMMA ComputedIs ==
  ASSUME mod \in Modules, ExactOperations, NEW x \in Universe, Ready(x),
         At(x).op \notin {"call", "br", "ret"}, NEW e \in Computed(x)
  PROVE  e \in Env
<1>1. /\ x.fn \in DOMAIN mod.functions /\ x.env \in Env /\ At(x) \in Instructions(x.fn)
  BY UniverseIs
<1>2. At(x).op \in ExactOp /\ At(x).id \in Value
  BY <1>1, InstructionIs DEF ExactOperations, Instruction
<1>3. CASE At(x).op = "access"
  BY <1>1, <1>3 DEF Computed
<1>4. CASE At(x).op # "access"
  <2>1. PICK z \in Outcomes(x, At(x)) : e = Set(x.env, At(x).id, z)
    BY <1>4 DEF Computed
  <2>2. z \in Word
    BY <1>1, <1>2, OutcomeIsWord DEF Ready
  <2> QED
    BY <1>1, <1>2, <2>1, <2>2, SetMap DEF Env
<1> QED
  BY <1>3, <1>4

LEMMA UniverseClosed ==
  ASSUME mod \in Modules, ExactOperations
  PROVE  Closed(Universe)
<1>1. \A f \in DOMAIN mod.functions : \A e \in [Range(Params(f)) -> Word] : Begun(f, e) \in Universe
  BY BegunIs
<1>2. ASSUME NEW x \in Universe, Ready(x), At(x).op \notin {"call", "br", "ret"},
             NEW e \in Computed(x)
      PROVE  Moved(x, e) \in Universe
  BY <1>2, ComputedIs, MovedIs
<1>3. \A x \in Universe : At(x).op = "br" => \A b \in Succs(x.fn, x.bb) : Jumped(x, b) \in Universe
  BY JumpedIs
<1>4. ASSUME NEW x \in Universe, NEW z \in Universe, Returns(x, z)
      PROVE  Moved(x, Handed(x, z)) \in Universe
  <2>1. At(x).op \notin {"br", "ret"} /\ Handed(x, z) \in Env
    BY <1>4, HandedIs DEF Returns
  <2> QED
    BY <2>1, MovedIs
<1> QED
  BY <1>1, <1>2, <1>3, <1>4 DEF Closed

LEMMA ReachedClosed ==
  ASSUME mod \in Modules, ExactOperations
  PROVE  Closed(Reached) /\ Reached \in SUBSET Universe
<1>1. Reached \in SUBSET Universe
  BY DEF Reached
<1>2. Closed(Universe)
  BY UniverseClosed
<1>3. ASSUME NEW y \in Universe, \A S \in SUBSET Universe : Closed(S) => y \in S
      PROVE  y \in Reached
  BY <1>3 DEF Reached
<1>4. ASSUME NEW S \in SUBSET Universe, Closed(S) PROVE Reached \subseteq S
  BY <1>4, ReachedOnly
<1>5. ASSUME NEW f \in DOMAIN mod.functions, NEW e \in [Range(Params(f)) -> Word]
      PROVE  Begun(f, e) \in Reached
  <2>1. \A S \in SUBSET Universe : Closed(S) => Begun(f, e) \in S
    BY DEF Closed
  <2> QED
    BY <1>2, <1>3, <2>1
<1>6. ASSUME NEW x \in Reached, Ready(x), At(x).op \notin {"call", "br", "ret"},
             NEW e \in Computed(x)
      PROVE  Moved(x, e) \in Reached
  <2>1. ASSUME NEW S \in SUBSET Universe, Closed(S) PROVE Moved(x, e) \in S
    BY <1>4, <1>6, <2>1 DEF Closed
  <2> QED
    BY <1>2, <1>3, <2>1
<1>7. ASSUME NEW x \in Reached, At(x).op = "br", NEW b \in Succs(x.fn, x.bb)
      PROVE  Jumped(x, b) \in Reached
  <2>1. ASSUME NEW S \in SUBSET Universe, Closed(S) PROVE Jumped(x, b) \in S
    BY <1>4, <1>7, <2>1 DEF Closed
  <2> QED
    BY <1>2, <1>3, <2>1
<1>8. ASSUME NEW x \in Reached, NEW z \in Reached, Returns(x, z)
      PROVE  Moved(x, Handed(x, z)) \in Reached
  <2>1. ASSUME NEW S \in SUBSET Universe, Closed(S) PROVE Moved(x, Handed(x, z)) \in S
    <3>1. x \in S /\ z \in S
      BY <1>4, <2>1
    <3> QED
      BY <1>8, <2>1, <3>1 DEF Closed
  <2> QED
    BY <1>2, <1>3, <2>1
<1>9. Closed(Reached)
  BY <1>5, <1>6, <1>7, <1>8 DEF Closed
<1> QED
  BY <1>1, <1>9

-----------------------------------------------------------------------------
(* The state at a point of a function, as results have it. *)
PointState(r, f, b, j) ==
  IF j = 1 THEN EntryState(r, b) ELSE Get(r, Code(f, b)[j - 1].id, Empty)

(* Wherever an instruction is reached with values its state allows, the values
   behind it are those the state behind it allows; and what is called is called
   with arguments its summary allows. *)
Target(q, i) == <<NewContext(q[1], i.id), i.callee>>
Effect(all, q, i, s, t) ==
  \A x \in Reached : x.fn = q[2] /\ At(x) = i /\ Fits(x.env, s) =>
    /\ i.op \notin {"call", "br", "ret"} /\ Ready(x) => \A e \in Computed(x) : Fits(e, t)
    /\ i.op \in {"br", "ret"} => Fits(x.env, t)
    /\ i.op = "call" /\ Ready(x) =>
         /\ Target(q, i) \in DOMAIN all /\ Fits(Passed(x, i), Summary(all, Target(q, i)))
         /\ \A z \in Reached : Returns(x, z) => Fits(Handed(x, z), t)
(* So far up to the mth instruction of a block. *)
Through(all, q, r, b, m) ==
  \A j \in 1..m : LET i == Code(q[2], b)[j] IN
    i.id \in DOMAIN r /\ Effect(all, q, i, PointState(r, q[2], b, j), Get(r, i.id, Empty))
(* What a block returns is known, when s is the state at its exit. *)
Returning(f, r, s, b) ==
  Exit(f, b).op = "ret" =>
    Below(ReturnValue(Exit(f, b), s), Get(Get(r, f, Empty), f, Unknown))

(* Arguments its summary allows are allowed at the entry of a block. *)
Admits(f, r, b) ==
  \A e \in [Range(Params(f)) -> Word] :
    Fits(e, Get(r, f, Empty)) => Fits(e, EntryState(r, b))

HonestResults(r) == \A k \in DOMAIN r : Honest(r[k])
SoundRecord(all, q, r) ==
  /\ HonestResults(r)
  /\ \A b \in Blocks(q[2]) :
       /\ Through(all, q, r, b, Len(Code(q[2], b)))
       /\ Admits(q[2], r, b)
       /\ Returning(q[2], r, ExitState(r, q[2], b), b)

LEMMA NextPoint ==
  ASSUME NEW r, NEW f, NEW b, NEW j \in Nat, j # 0
  PROVE  PointState(r, f, b, j + 1) = Get(r, Code(f, b)[j].id, Empty)
<1>1. j + 1 # 1 /\ (j + 1) - 1 = j
  OBVIOUS
<1> QED
  BY <1>1 DEF PointState

LEMMA EffectGrows ==
  ASSUME mod \in Modules, NEW all, GoodRecords(all), NEW more, GoodRecords(more),
         Grown(all, more), NEW q, NEW i, NEW s, NEW t, Effect(all, q, i, s, t)
  PROVE  Effect(more, q, i, s, t)
<1> DEFINE p == Target(q, i)
<1>1. ASSUME NEW x \in Reached, x.fn = q[2], At(x) = i, Fits(x.env, s), i.op = "call", Ready(x)
      PROVE  p \in DOMAIN more /\ Fits(Passed(x, i), Summary(more, p))
  <2>1. p \in DOMAIN all /\ Fits(Passed(x, i), Summary(all, p))
    BY <1>1 DEF Effect
  <2> HIDE DEF p
  <2>2. p \in Task
    BY <2>1, MapIs DEF GoodRecords
  <2>3. p \in DOMAIN more /\ Included(Fact(all, p, p[2]), Fact(more, p, p[2]))
    BY <2>1, <2>2 DEF Grown, FactKeys
  <2>4. Included(Summary(all, p), Summary(more, p))
    BY <2>3 DEF Fact, Summary
  <2>5. Summary(all, p) \in State /\ Summary(more, p) \in State
    BY SummaryIs
  <2> QED
    BY <2>1, <2>3, <2>4, <2>5, FitsIncluded
<1> HIDE DEF p
<1> QED
  BY <1>1 DEF Effect, p

LEMMA ThroughGrows ==
  ASSUME mod \in Modules, NEW all, GoodRecords(all), NEW more, GoodRecords(more),
         Grown(all, more), NEW q, NEW r, NEW b, NEW m, Through(all, q, r, b, m)
  PROVE  Through(more, q, r, b, m)
BY EffectGrows DEF Through

LEMMA ThroughSame ==
  ASSUME NEW all, NEW q, NEW r, NEW more, NEW b, NEW m \in Nat, Through(all, q, r, b, m),
         DOMAIN r \subseteq DOMAIN more, EntryState(more, b) = EntryState(r, b),
         \A j \in 1..m : Get(more, Code(q[2], b)[j].id, Empty) = Get(r, Code(q[2], b)[j].id, Empty)
  PROVE  Through(all, q, more, b, m)
<1> SUFFICES ASSUME NEW j \in 1..m, NEW i, i = Code(q[2], b)[j]
             PROVE  /\ i.id \in DOMAIN more
                    /\ Effect(all, q, i, PointState(more, q[2], b, j), Get(more, i.id, Empty))
  BY DEF Through
<1>1. i.id \in DOMAIN r /\ Effect(all, q, i, PointState(r, q[2], b, j), Get(r, i.id, Empty))
  BY DEF Through
<1>2. Get(more, i.id, Empty) = Get(r, i.id, Empty)
  OBVIOUS
<1>3. PointState(more, q[2], b, j) = PointState(r, q[2], b, j)
  <2>1. j = 1 \/ j - 1 \in 1..m
    OBVIOUS
  <2> QED
    BY <2>1 DEF PointState
<1> QED
  BY <1>1, <1>2, <1>3

(* What is recorded of a function covers all its activations, if it covers the
   arguments they have. *)
LEMMA RecordHolds ==
  ASSUME mod \in Modules, ExactOperations, NEW all, NEW q \in Task, NEW r \in Results,
         SoundRecord(all, q, r), Settled(q[2], r),
         NEW y \in Reached, y.fn = q[2], Fits(y.args, Get(r, q[2], Empty))
  PROVE  Fits(y.env, PointState(r, q[2], y.bb, y.pc))
<1> DEFINE f == q[2]
           a == Get(r, f, Empty)
           P(x) == x.fn = f /\ Fits(x.args, a) => Fits(x.env, PointState(r, f, x.bb, x.pc))
           S == {x \in Reached : P(x)}
<1>1. f \in DOMAIN mod.functions
  BY DEF Task
<1>2. Closed(Reached) /\ Reached \in SUBSET Universe
  BY ReachedClosed
<1>3. a \in State /\ \A k : Get(r, k, Empty) \in State
  BY EmptyIs, GetMap DEF Results
<1>4. \A x : x \in S <=> x \in Reached /\ P(x)
  OBVIOUS
<1> HIDE DEF S
<1>5. ASSUME NEW x \in Reached, x.fn = f
      PROVE  /\ x \in Universe /\ x.bb \in Blocks(f) /\ x.pc \in 1..Len(Code(f, x.bb))
             /\ At(x) \in Instructions(f) /\ At(x) = Code(f, x.bb)[x.pc] /\ x.env \in Env
             /\ x.pc \in Nat /\ x.pc # 0 /\ Len(Code(f, x.bb)) \in Nat
             /\ Effect(all, q, At(x), PointState(r, f, x.bb, x.pc), Get(r, At(x).id, Empty))
  <2>1. /\ x \in Universe /\ x.bb \in Blocks(f) /\ x.pc \in 1..Len(Code(f, x.bb))
        /\ At(x) \in Instructions(f) /\ x.env \in Env
    BY <1>2, <1>5, UniverseIs
  <2>2. At(x) = Code(f, x.bb)[x.pc]
    BY <1>5 DEF At
  <2>3. Len(Code(f, x.bb)) \in Nat
    BY <1>1, <2>1, AtIs
  <2>4. x.pc \in Nat /\ x.pc # 0
    BY <2>1, <2>3
  <2>5. Through(all, q, r, x.bb, Len(Code(f, x.bb)))
    BY <2>1 DEF SoundRecord
  <2>6. Effect(all, q, At(x), PointState(r, f, x.bb, x.pc), Get(r, At(x).id, Empty))
    BY <2>1, <2>2, <2>5 DEF Through
  <2> QED
    BY <2>1, <2>2, <2>3, <2>4, <2>6
<1>6. ASSUME NEW x \in Reached, P(x), At(x).op \notin {"br", "ret"}, NEW e \in Env,
             Moved(x, e) \in Reached,
             x.fn = f /\ Fits(x.args, a) => Fits(e, Get(r, At(x).id, Empty))
      PROVE  Moved(x, e) \in S
  <2> DEFINE y1 == Moved(x, e)
  <2>1. y1.fn = x.fn /\ y1.bb = x.bb /\ y1.pc = x.pc + 1 /\ y1.args = x.args /\ y1.env = e
    BY DEF Moved
  <2> HIDE DEF y1
  <2>2. ASSUME x.fn = f, Fits(x.args, a)
        PROVE  Fits(e, PointState(r, f, x.bb, x.pc + 1))
    <3>1. PointState(r, f, x.bb, x.pc + 1) = Get(r, At(x).id, Empty)
      BY <1>5, <2>2, NextPoint
    <3> QED
      BY <1>6, <2>2, <3>1
  <2>3. P(y1)
    BY <2>1, <2>2
  <2>4. y1 \in Reached
    BY <1>6 DEF y1
  <2> HIDE DEF P
  <2> QED
    BY <1>4, <2>3, <2>4 DEF y1
<1>7. ASSUME NEW g \in DOMAIN mod.functions, NEW e \in [Range(Params(g)) -> Word]
      PROVE  Begun(g, e) \in S
  <2> DEFINE b == Head(Fn(g).blocks)
             x == Begun(g, e)
  <2>1. x.fn = g /\ x.args = e /\ x.bb = b /\ x.pc = 1 /\ x.env = e
    BY DEF Begun
  <2>2. x \in Reached
    BY <1>2 DEF Closed
  <2>3. b \in Blocks(g)
    BY BegunIs
  <2> HIDE DEF b, x
  <2>4. ASSUME g = f, Fits(e, a) PROVE Fits(e, PointState(r, f, b, 1))
    <3>1. Fits(e, EntryState(r, b))
      BY <2>3, <2>4 DEF SoundRecord, Admits
    <3> QED
      BY <3>1 DEF PointState
  <2>5. P(x)
    BY <2>1, <2>4
  <2> HIDE DEF P
  <2> QED
    BY <1>4, <2>2, <2>5 DEF x
<1>8. ASSUME NEW x \in S, Ready(x), At(x).op \notin {"call", "br", "ret"}, NEW e \in Computed(x)
      PROVE  Moved(x, e) \in S
  <2>1. x \in Reached /\ P(x)
    BY <1>4
  <2>2. Moved(x, e) \in Reached /\ e \in Env
    BY <1>2, <1>8, <2>1, ComputedIs DEF Closed
  <2>3. ASSUME x.fn = f, Fits(x.args, a)
        PROVE  Fits(e, Get(r, At(x).id, Empty))
    <3>1. Fits(x.env, PointState(r, f, x.bb, x.pc))
      BY <2>1, <2>3
    <3>2. Effect(all, q, At(x), PointState(r, f, x.bb, x.pc), Get(r, At(x).id, Empty))
      BY <1>5, <2>1, <2>3
    <3> QED
      BY <1>8, <2>1, <2>3, <3>1, <3>2 DEF Effect
  <2> HIDE DEF P
  <2> QED
    BY <1>6, <1>8, <2>1, <2>2, <2>3
<1>9. ASSUME NEW x \in S, At(x).op = "br", NEW b \in Succs(x.fn, x.bb)
      PROVE  Jumped(x, b) \in S
  <2>1. x \in Reached /\ P(x)
    BY <1>4
  <2> DEFINE z == Jumped(x, b)
  <2>2. /\ z \in Reached /\ b \in Blocks(x.fn) /\ x.bb \in Preds(x.fn, b) /\ x \in Universe
        /\ z.fn = x.fn /\ z.bb = b /\ z.pc = 1 /\ z.args = x.args /\ z.env = x.env
    BY <1>2, <1>9, <2>1, JumpedIs DEF Closed
  <2> HIDE DEF z
  <2>3. ASSUME x.fn = f, Fits(x.args, a)
        PROVE  Fits(x.env, PointState(r, f, b, 1))
    <3>1. Fits(x.env, PointState(r, f, x.bb, x.pc))
      BY <2>1, <2>3
    <3>2. /\ Effect(all, q, At(x), PointState(r, f, x.bb, x.pc), Get(r, At(x).id, Empty))
          /\ At(x) = Code(f, x.bb)[x.pc] /\ x.bb \in Blocks(f)
          /\ x.pc \in 1..Len(Code(f, x.bb)) /\ DOMAIN Code(f, x.bb) = 1..Len(Code(f, x.bb))
      BY <1>1, <1>5, <2>1, <2>3, AtIs
    <3>3. Fits(x.env, Get(r, At(x).id, Empty))
      BY <1>9, <2>1, <2>3, <3>1, <3>2 DEF Effect
    <3>4. x.pc = Len(Code(f, x.bb))
      BY <1>1, <1>9, <3>2, Terminators
    <3>5. Get(r, At(x).id, Empty) = ExitState(r, f, x.bb)
      BY <3>2, <3>4 DEF ExitState, Exit
    <3>6. Included(ExitState(r, f, x.bb), EntryState(r, b))
      BY <2>2, <2>3 DEF Settled
    <3>7. ExitState(r, f, x.bb) \in State /\ EntryState(r, b) \in State
      BY <1>3 DEF ExitState, EntryState
    <3>8. Fits(x.env, EntryState(r, b))
      BY <3>3, <3>5, <3>6, <3>7, FitsIncluded
    <3> QED
      BY <3>8 DEF PointState
  <2>4. P(z)
    BY <2>2, <2>3
  <2> HIDE DEF P
  <2> QED
    BY <1>4, <2>2, <2>4 DEF z
<1>10. ASSUME NEW x \in S, NEW z \in S, Returns(x, z)
       PROVE  Moved(x, Handed(x, z)) \in S
  <2>1. x \in Reached /\ P(x) /\ z \in Reached
    BY <1>4
  <2>2. Moved(x, Handed(x, z)) \in Reached /\ Handed(x, z) \in Env
    BY <1>2, <1>10, <2>1, HandedIs DEF Closed
  <2>3. At(x).op = "call" /\ Ready(x)
    BY <1>10 DEF Returns
  <2>4. ASSUME x.fn = f, Fits(x.args, a)
        PROVE  Fits(Handed(x, z), Get(r, At(x).id, Empty))
    <3>1. Fits(x.env, PointState(r, f, x.bb, x.pc))
      BY <2>1, <2>4
    <3>2. Effect(all, q, At(x), PointState(r, f, x.bb, x.pc), Get(r, At(x).id, Empty))
      BY <1>5, <2>1, <2>4
    <3> QED
      BY <1>10, <2>1, <2>3, <2>4, <3>1, <3>2 DEF Effect
  <2> HIDE DEF P
  <2> QED
    BY <1>6, <2>1, <2>2, <2>3, <2>4
<1>11. Closed(S)
  <2> HIDE DEF P
  <2> QED
    BY <1>7, <1>8, <1>9, <1>10 DEF Closed
<1>12. S \in SUBSET Universe
  BY <1>2, <1>4
<1>13. y \in S
  BY <1>11, <1>12, ReachedOnly
<1> QED
  BY <1>4, <1>13

(* What is returned is in the range recorded of the returned value. *)
NoConstantReturned ==
  \A f \in DOMAIN mod.functions : \A i \in Instructions(f) :
    i.op = "ret" => Range(i.args) \cap ConstantInt = {}

LEMMA ReturnHolds ==
  ASSUME mod \in Modules, ExactOperations, NoConstantReturned, NEW all, NEW q \in Task,
         NEW r \in Results, SoundRecord(all, q, r), Settled(q[2], r),
         NEW z \in Reached, z.fn = q[2], Fits(z.args, Get(r, q[2], Empty)),
         At(z).op = "ret", Ready(z), At(z).args # << >>
  PROVE  Val(z.env, At(z).args[1]) \in Concrete(Get(Get(r, q[2], Empty), q[2], Unknown), Word)
<1> DEFINE f == q[2]
           i == At(z)
           v == i.args[1]
           w == ExitState(r, f, z.bb)
           known == Get(Get(r, f, Empty), f, Unknown)
<1>1. f \in DOMAIN mod.functions
  BY DEF Task
<1>2. z \in Universe
  BY DEF Reached
<1>3. /\ z.bb \in Blocks(f) /\ z.pc \in 1..Len(Code(f, z.bb)) /\ i \in Instructions(f)
      /\ i = Code(f, z.bb)[z.pc] /\ DOMAIN Code(f, z.bb) = 1..Len(Code(f, z.bb))
  BY <1>1, <1>2, UniverseIs, AtIs DEF At
<1>4. z.pc = Len(Code(f, z.bb))
  BY <1>1, <1>3, Terminators
<1>5. i = Exit(f, z.bb) /\ i.op = "ret"
  BY <1>3, <1>4 DEF Exit
<1>6. i.args \in Seq(Value)
  BY <1>1, <1>3, InstructionIs DEF Instruction
<1>7. v \in Range(i.args)
  BY <1>6 DEF Range
<1>8. v \notin ConstantInt
  BY <1>1, <1>3, <1>5, <1>7 DEF NoConstantReturned
<1>9. v \in DOMAIN z.env
  BY <1>5, <1>7, <1>8 DEF Ready, Operands
<1>10. Fits(z.env, PointState(r, f, z.bb, z.pc))
  BY RecordHolds
<1>11. Through(all, q, r, z.bb, Len(Code(f, z.bb))) /\ Returning(f, r, w, z.bb)
  BY <1>3 DEF SoundRecord
<1>12. Effect(all, q, i, PointState(r, f, z.bb, z.pc), Get(r, i.id, Empty))
  BY <1>3, <1>11 DEF Through
<1>13. Get(r, i.id, Empty) = w
  BY <1>5 DEF ExitState
<1> HIDE DEF i, w
<1>14. Fits(z.env, w)
  BY <1>5, <1>10, <1>12, <1>13 DEF Effect, i
<1>15. v \in DOMAIN w /\ z.env[v] \in Concrete(w[v], Word)
  BY <1>9, <1>14, FitsIs
<1>16. ReturnValue(Exit(f, z.bb), w) = w[v]
  BY <1>5, <1>15 DEF ReturnValue, Get, i
<1>17. Below(w[v], known)
  BY <1>5, <1>11, <1>16 DEF Returning
<1>18. w \in State /\ known \in RangeValue
  BY EmptyIs, GetMap, RangeShapes DEF Results, State, w, ExitState
<1>19. w[v] \in RangeValue
  BY <1>15, <1>18, MapIs DEF State
<1> HIDE DEF known
<1>20. z.env[v] \in Concrete(known, Word)
  BY <1>15, <1>17, <1>18, <1>19, ConcreteGrows
<1> QED
  BY <1>8, <1>20 DEF Val, known, i

(* So behind a call the values are as the state says that is given to it, once
   the callee's summary covers the arguments. *)
Asked(f, i, s) == OperandStates(f, i.args, s)[Len(i.args)]
Covered(i, u, summary) ==
  \A v \in Range(Params(i.callee)) :
    Below(u[i.args[Position(i.callee, v)]], Get(summary, v, Unknown))

LEMMA CallEffect ==
  ASSUME mod \in Modules, ExactOperations, NoConstantReturned, NEW all, GoodRecords(all),
         NEW q \in Task, NEW i \in Instructions(q[2]), i.op = "call",
         NEW s \in State, Honest(s), NEW u \in State, u = Asked(q[2], i, s),
         NEW p, p = Target(q, i), p \in DOMAIN all, SoundRecord(all, p, all[p]),
         Covered(i, u, Summary(all, p)),
         NEW t, t = Set(u, i.id, Get(Summary(all, p), i.callee, Unknown))
  PROVE  Effect(all, q, i, s, t)
<1> DEFINE known == Get(Summary(all, p), i.callee, Unknown)
           r == all[p]
<1>1. q[2] \in DOMAIN mod.functions
  BY DEF Task
<1>2. i \in Instruction /\ i.args \in Seq(Value) /\ i.callee \in DOMAIN mod.functions
  BY <1>1, InstructionIs DEF Instruction
<1>3. p[2] = i.callee
  BY DEF Target
<1>4. p \in Task /\ r \in Results /\ Settled(p[2], r)
  BY MapIs DEF GoodRecords
<1>5. Summary(all, p) = Get(r, p[2], Empty) /\ Summary(all, p) \in State
  BY SummaryIs DEF Summary, Get
<1>6. s \in Draft
  BY StateIs
<1>7. /\ Extends(s, u)
      /\ \A e : Fits(e, s) =>
           \A k \in 1..Len(i.args) : i.args[k] \in ConstantInt \cup DOMAIN e =>
             Val(e, i.args[k]) \in Concrete(u[i.args[k]], Word)
  BY <1>1, <1>2, <1>6, OperandsHold DEF Asked
<1>8. \A k \in 1..Len(i.args) : i.args[k] \in DOMAIN u
  BY <1>1, <1>2, <1>6, OperandsStay DEF Asked
<1>9. \A v \in DOMAIN u : u[v] \in RangeValue
  BY MapIs DEF State
<1> HIDE DEF r
<1>10. ASSUME NEW x \in Reached, x.fn = q[2], At(x) = i, Fits(x.env, s), Ready(x)
       PROVE  Fits(Passed(x, i), Summary(all, p))
  <2>1. x \in Universe
    BY DEF Reached
  <2>2. /\ Passed(x, i) \in [Range(Params(i.callee)) -> Word]
        /\ \A v \in Range(Params(i.callee)) :
             LET k == Position(i.callee, v)
             IN /\ k \in 1..Len(i.args) /\ i.args[k] \in ConstantInt \cup DOMAIN x.env
                /\ Passed(x, i)[v] = Val(x.env, i.args[k])
    BY <1>10, <2>1, PassedIs
  <2>3. ASSUME NEW v \in Range(Params(i.callee))
        PROVE  Passed(x, i)[v] \in Concrete(Get(Summary(all, p), v, Unknown), Word)
    <3> DEFINE k == Position(i.callee, v)
    <3>1. /\ k \in 1..Len(i.args) /\ i.args[k] \in ConstantInt \cup DOMAIN x.env
          /\ Passed(x, i)[v] = Val(x.env, i.args[k])
      BY <2>2
    <3>2. Below(u[i.args[k]], Get(Summary(all, p), v, Unknown))
      BY DEF Covered
    <3> HIDE DEF k
    <3>3. Passed(x, i)[v] \in Concrete(u[i.args[k]], Word)
      BY <1>7, <1>10, <3>1
    <3>4. u[i.args[k]] \in RangeValue
      BY <1>8, <1>9, <3>1
    <3>5. Get(Summary(all, p), v, Unknown) \in RangeValue
      BY <1>5, RangeShapes, GetMap DEF State
    <3> QED
      BY <3>2, <3>3, <3>4, <3>5, ConcreteGrows
  <2> QED
    BY <2>2, <2>3 DEF Fits
<1>11. ASSUME NEW x \in Reached, x.fn = q[2], At(x) = i, Fits(x.env, s), Ready(x),
              NEW z \in Reached, Returns(x, z)
       PROVE  Fits(Handed(x, z), t)
  <2>1. Fits(x.env, u)
    BY <1>7, <1>11, FitsExtends
  <2>2. CASE At(z).args = << >>
    <3>1. Handed(x, z) = Without(x.env, i.id)
      BY <1>11, <2>2 DEF Handed
    <3> QED
      BY <2>1, <3>1, FitsWithout
  <2>3. CASE At(z).args # << >>
    <3>1. z.fn = p[2] /\ z.args = Passed(x, i) /\ At(z).op = "ret" /\ Ready(z)
      BY <1>3, <1>11 DEF Returns
    <3>2. Fits(z.args, Get(r, p[2], Empty))
      BY <1>5, <1>10, <1>11, <3>1
    <3>3. SoundRecord(all, p, r)
      BY DEF r
    <3>4. Val(z.env, At(z).args[1]) \in Concrete(Get(Get(r, p[2], Empty), p[2], Unknown), Word)
      BY <1>4, <2>3, <3>1, <3>2, <3>3, ReturnHolds
    <3>5. Val(z.env, At(z).args[1]) \in Concrete(known, Word)
      BY <1>3, <1>5, <3>4
    <3>6. Handed(x, z) = Set(x.env, i.id, Val(z.env, At(z).args[1]))
      BY <1>11, <2>3 DEF Handed
    <3> HIDE DEF known
    <3> QED
      BY <2>1, <3>5, <3>6, FitsSet DEF known
  <2> QED
    BY <2>2, <2>3
<1> QED
  BY <1>10, <1>11 DEF Effect

(* So is it behind any other instruction. *)
LEMMA TransferEffect ==
  ASSUME mod \in Modules, ExactOperations, NEW all, NEW q \in Task,
         NEW i \in Instructions(q[2]), i.op # "call", NEW s \in State, Honest(s),
         NEW t, t = applyTransfer(q[2], i, s), ~Faulty(t)
  PROVE  Effect(all, q, i, s, t)
<1>1. q[2] \in DOMAIN mod.functions
  BY DEF Task
<1>2. i.op \in ExactOp
  BY <1>1 DEF ExactOperations
<1> SUFFICES ASSUME NEW x \in Reached, x.fn = q[2], At(x) = i, Fits(x.env, s)
             PROVE  /\ i.op \notin {"br", "ret"} /\ Ready(x) => \A e \in Computed(x) : Fits(e, t)
                    /\ i.op \in {"br", "ret"} => Fits(x.env, t)
  BY DEF Effect
<1>3. x.env \in Env
  BY UniverseIs DEF Reached
<1>4. i.op \in {"access", "br", "ret"} => Fits(x.env, t)
  BY <1>1, <1>3, LeftAloneHolds
<1>5. ASSUME i.op \notin {"br", "ret"}, Ready(x), NEW e \in Computed(x)
      PROVE  Fits(e, t)
  <2>1. CASE i.op = "access"
    BY <1>4, <1>5, <2>1 DEF Computed
  <2>2. CASE i.op # "access"
    <3>1. PICK z \in Outcomes(x, i) : e = Set(x.env, i.id, z)
      BY <1>5, <2>2 DEF Computed
    <3>2. Operands(x, i) \subseteq ConstantInt \cup DOMAIN x.env
      BY <1>5 DEF Ready
    <3> QED
      BY <1>1, <1>2, <3>1, <3>2, OutcomeHolds
  <2> QED
    BY <2>1, <2>2
<1> QED
  BY <1>4, <1>5

-----------------------------------------------------------------------------
(* Activations of the analysis.  The blocks that are not on the list, and those
   that have been visited before, have been gone through with the entry they
   have; the block being visited as far as the visit is. *)
Visiting(fr, b) == b = fr.bb /\ fr.pc # 0
Visited(fr, b) ==
  /\ ~Visiting(fr, b)
  /\ (b \notin Range(fr.work) /\ b # fr.bb) \/ DOMAIN EntryState(fr.results, b) # {}
SoundFrame(all, fr) ==
  /\ HonestResults(fr.results) /\ Honest(fr.state)
  /\ \A b \in Blocks(fr.fn) : Visited(fr, b) =>
       Through(all, Pair(fr), fr.results, b, Len(Code(fr.fn, b)))
  /\ fr.bb # NoBlock /\ fr.pc # 0 => Through(all, Pair(fr), fr.results, fr.bb, fr.pc - 1)
  /\ \A b \in Blocks(fr.fn) : Returning(fr.fn, fr.results, ExitOf(fr, b), b)
(* The innermost activation's state is that of its point; those of the others
   have the operands of their call, which their callee was told. *)
PointOf(fr) == PointState(fr.results, fr.fn, fr.bb, fr.pc)
Here(fr) == fr.bb # NoBlock /\ fr.pc # 0 => fr.state = PointOf(fr)
Waiting(all, fr) ==
  LET p == ToCall(fr, Site(fr))
  IN /\ fr.state = Asked(fr.fn, Site(fr), PointOf(fr))
     /\ p \in DOMAIN all /\ Covered(Site(fr), fr.state, Summary(all, p))

LEMMA HonestGet ==
  ASSUME NEW r, HonestResults(r), NEW k
  PROVE  Honest(Get(r, k, Empty))
BY EmptyIs DEF HonestResults, Get, Honest

LEMMA HonestSetResults ==
  ASSUME NEW r, HonestResults(r), NEW k, NEW s, Honest(s)
  PROVE  HonestResults(Set(r, k, s))
<1> DEFINE t == Set(r, k, s)
<1>0. t = Set(r, k, s)
  OBVIOUS
<1> HIDE DEF t
<1>1. DOMAIN t = DOMAIN r \cup {k} /\ t[k] = s /\ \A x \in DOMAIN r : x # k => t[x] = r[x]
  BY <1>0 DEF Set
<1>2. HonestResults(t)
  BY <1>1 DEF HonestResults
<1> QED
  BY <1>2 DEF t

LEMMA HonestTouchResults ==
  ASSUME NEW r, HonestResults(r), NEW k
  PROVE  HonestResults(Touch(r, k, Empty))
BY HonestGet, HonestSetResults DEF Touch

(* Nothing is known of the keys of a function's instructions before others are. *)
LEMMA FrameKeys ==
  ASSUME mod \in Modules, NEW f \in DOMAIN mod.functions, NEW b \in Blocks(f)
  PROVE  /\ Len(Code(f, b)) \in Nat /\ Exit(f, b) \in Instructions(f)
         /\ \A j \in 1..Len(Code(f, b)) :
              /\ Code(f, b)[j].id \in Value
              /\ Code(f, b)[j].id # f /\ \A c \in Blocks(f) : Code(f, b)[j].id # c
         /\ Exit(f, b).id \in Value /\ Exit(f, b).id # f
         /\ \A c \in Blocks(f) : Exit(f, b).id # c /\ c # f
BY AtIs, KeysApart

(* What is not changed. *)
LEMMA SoundSame ==
  ASSUME mod \in Modules, NEW all, NEW fr, SoundFrame(all, fr), fr.fn \in DOMAIN mod.functions,
         NEW g, g.fn = fr.fn, g.context = fr.context, DOMAIN fr.results \subseteq DOMAIN g.results,
         NEW c \in Blocks(fr.fn), Visited(fr, c),
         EntryState(g.results, c) = EntryState(fr.results, c),
         \A j \in 1..Len(Code(fr.fn, c)) :
           Get(g.results, Code(fr.fn, c)[j].id, Empty) = Get(fr.results, Code(fr.fn, c)[j].id, Empty)
  PROVE  Through(all, Pair(g), g.results, c, Len(Code(g.fn, c)))
<1> DEFINE q == Pair(fr)
           m == Len(Code(fr.fn, c))
<1>1. q[2] = fr.fn /\ Pair(g) = q
  BY DEF Pair
<1>2. Through(all, q, fr.results, c, m) /\ m \in Nat
  BY FrameKeys DEF SoundFrame
<1> HIDE DEF q, m
<1>3. Through(all, q, g.results, c, m)
  BY <1>1, <1>2, ThroughSame DEF m
<1> QED
  BY <1>1, <1>3 DEF m

LEMMA TakeSound ==
  ASSUME mod \in Modules, NEW all, NEW fr, FrameInv(fr), SoundFrame(all, fr),
         fr.bb = NoBlock, fr.work # << >>, NEW b, b = Head(fr.work),
         NEW x, x = Exit(fr.fn, b).id, NEW r, r = Touch(Touch(fr.results, b, Empty), x, Empty),
         NEW g, g.context = fr.context, g.fn = fr.fn, g.results = r, g.work = Tail(fr.work),
         g.bb = b, g.pc = 0, g.state = r[b], g.oldExitState = r[x]
  PROVE  SoundFrame(all, g) /\ Here(g)
<1>1. fr \in FrameSet /\ fr.fn \in DOMAIN mod.functions /\ fr.work \in Seq(Blocks(fr.fn))
  BY DEF FrameInv, FrameOK
<1>2. b \in Blocks(fr.fn) /\ Range(fr.work) \subseteq {b} \cup Range(Tail(fr.work))
  <2>1. b \in Blocks(fr.fn)
    BY <1>1
  <2>2. \A k \in 1..Len(fr.work) : fr.work[k] = b \/ fr.work[k] \in Range(Tail(fr.work))
    <3>1. ASSUME NEW k \in 1..Len(fr.work), k # 1 PROVE fr.work[k] \in Range(Tail(fr.work))
      <4>1. k - 1 \in 1..Len(Tail(fr.work)) /\ Tail(fr.work)[k - 1] = fr.work[k]
        BY <1>1, <3>1
      <4>2. DOMAIN Tail(fr.work) = 1..Len(Tail(fr.work))
        BY <1>1
      <4> QED
        BY <4>1, <4>2 DEF Range
    <3>2. b = fr.work[1]
      BY <1>1
    <3> QED
      BY <3>1, <3>2
  <2>3. DOMAIN fr.work = 1..Len(fr.work)
    BY <1>1
  <2> QED
    BY <2>1, <2>2, <2>3 DEF Range
<1>3. NoBlock \notin Blocks(fr.fn)
  BY <1>1, FnIs
<1>4. b \in Keys /\ x \in Keys /\ fr.results \in Results
  BY <1>1, <1>2, StatesAre, KeysApart, FrameKeys
<1>5. /\ DOMAIN fr.results \subseteq DOMAIN r /\ b \in DOMAIN r /\ x \in DOMAIN r
      /\ \A k : Get(r, k, Empty) = Get(fr.results, k, Empty)
  <2> DEFINE t == Touch(fr.results, b, Empty)
  <2>1. DOMAIN t = DOMAIN fr.results \cup {b}
    BY DomTouch
  <2>2. r = Touch(t, x, Empty)
    OBVIOUS
  <2> HIDE DEF t
  <2>3. DOMAIN Touch(t, x, Empty) = DOMAIN t \cup {x}
    BY DomTouch
  <2>4. \A k : Get(r, k, Empty) = Get(fr.results, k, Empty)
    BY <1>4, TouchedTwice
  <2> QED
    BY <2>1, <2>2, <2>3, <2>4
<1>6. HonestResults(r) /\ Honest(r[b])
  BY <1>5, HonestTouchResults DEF SoundFrame, HonestResults
<1>7. ASSUME NEW c \in Blocks(fr.fn), Visited(g, c)
      PROVE  Through(all, Pair(g), g.results, c, Len(Code(g.fn, c)))
  <2>1. EntryState(r, c) = EntryState(fr.results, c)
    BY <1>5 DEF EntryState
  <2>2. Visited(fr, c)
    <3>1. ~Visiting(fr, c) /\ c # fr.bb
      BY <1>3 DEF Visiting
    <3>2. (c \notin Range(Tail(fr.work)) /\ c # b) \/ DOMAIN EntryState(fr.results, c) # {}
      BY <1>7, <2>1 DEF Visited
    <3> QED
      BY <1>2, <3>1, <3>2 DEF Visited
  <2> QED
    BY <1>1, <1>5, <2>1, <2>2, SoundSame
<1>8. ASSUME NEW c \in Blocks(fr.fn)
      PROVE  Returning(g.fn, g.results, ExitOf(g, c), c)
  <2>1. Returning(fr.fn, fr.results, ExitOf(fr, c), c)
    BY DEF SoundFrame
  <2>2. ExitOf(fr, c) = ExitState(fr.results, fr.fn, c)
    BY <1>3 DEF ExitOf
  <2>3. r[x] = Get(r, x, Empty)
    BY <1>5 DEF Get
  <2>4. ExitOf(g, c) = ExitState(fr.results, fr.fn, c)
    BY <1>5, <2>3 DEF ExitOf, ExitState
  <2> QED
    BY <1>5, <2>1, <2>2, <2>4 DEF Returning
<1> QED
  BY <1>6, <1>7, <1>8 DEF SoundFrame, Here

LEMMA MergeSound ==
  ASSUME mod \in Modules, NEW all, NEW fr, FrameInv(fr), SoundFrame(all, fr), NEW p \in fr.toMerge,
         NEW g, g.context = fr.context, g.fn = fr.fn, g.results = fr.results, g.work = fr.work,
         g.bb = fr.bb, g.pc = fr.pc, g.oldExitState = fr.oldExitState,
         g.state = Merge(fr.state, Get(fr.results, Exit(fr.fn, p).id, Empty))
  PROVE  SoundFrame(all, g) /\ Here(g)
<1>1. fr \in FrameSet /\ fr.pc = 0
  BY DEF FrameInv, FrameOK, Kept
<1>2. Honest(g.state)
  BY <1>1, HonestGet, HonestMerge, StatesAre DEF SoundFrame
<1>3. /\ Pair(g) = Pair(fr) /\ \A c : ExitOf(g, c) = ExitOf(fr, c)
      /\ \A c : Visited(g, c) <=> Visited(fr, c)
  BY DEF Pair, ExitOf, Visited, Visiting
<1> QED
  BY <1>1, <1>2, <1>3 DEF SoundFrame, Here

LEMMA EnterSound ==
  ASSUME mod \in Modules, NEW all, NEW fr, FrameInv(fr), SoundFrame(all, fr),
         fr.bb # NoBlock, fr.pc = 0, fr.toMerge = {},
         NEW r, r = Touch(fr.results, fr.fn, Empty), NEW s, s = Entered(fr),
         NEW g, g.context = fr.context, g.fn = fr.fn, g.work = fr.work,
         g.oldExitState = fr.oldExitState,
         \/ SameEntry(fr) /\ g.bb = NoBlock /\ g.pc = 0 /\ g.results = r /\ g.state = fr.state
         \/ g.bb = fr.bb /\ g.pc = 1 /\ g.results = Set(r, fr.bb, s) /\ g.state = s
  PROVE  SoundFrame(all, g) /\ Here(g)
<1>1. /\ fr \in FrameSet /\ fr.fn \in DOMAIN mod.functions /\ fr.bb \in Blocks(fr.fn)
      /\ fr.oldEntryState = EntryState(fr.results, fr.bb) /\ s \in State
      /\ \A p : ExitOf(fr, p) = ExitState(fr.results, fr.fn, p)
  BY EnteringIs
<1>2. NoBlock \notin Blocks(fr.fn)
  BY <1>1, FnIs
<1>3. HonestResults(r) /\ DOMAIN fr.results \subseteq DOMAIN r
      /\ \A k : Get(r, k, Empty) = Get(fr.results, k, Empty)
  <2>1. HonestResults(r)
    BY HonestTouchResults DEF SoundFrame
  <2>2. DOMAIN r = DOMAIN fr.results \cup {fr.fn}
    BY DomTouch
  <2>3. \A k : Get(r, k, Empty) = Get(fr.results, k, Empty)
    BY GetTouch
  <2> QED
    BY <2>1, <2>2, <2>3
<1>4. Honest(s)
  BY <1>1, HonestGet, HonestMerge, StatesAre DEF SoundFrame, Entered
<1>5. CASE SameEntry(fr) /\ g.bb = NoBlock /\ g.pc = 0 /\ g.results = r /\ g.state = fr.state
  <2>1. ASSUME NEW c \in Blocks(fr.fn), Visited(g, c)
        PROVE  Through(all, Pair(g), g.results, c, Len(Code(g.fn, c)))
    <3>1. EntryState(r, c) = EntryState(fr.results, c)
      BY <1>3 DEF EntryState
    <3>2. ~Visiting(fr, c)
      BY DEF Visiting
    <3>3. CASE c = fr.bb
      <4>1. DOMAIN EntryState(fr.results, c) # {}
        BY <1>1, <1>5, <3>3 DEF SameEntry
      <4>2. Visited(fr, c)
        BY <3>2, <4>1 DEF Visited
      <4> QED
        BY <1>1, <1>3, <1>5, <3>1, <4>2, SoundSame
    <3>4. CASE c # fr.bb
      <4>1. Visited(fr, c)
        BY <1>5, <2>1, <3>1, <3>2, <3>4 DEF Visited
      <4> QED
        BY <1>1, <1>3, <1>5, <3>1, <4>1, SoundSame
    <3> QED
      BY <3>3, <3>4
  <2>2. ASSUME NEW c \in Blocks(fr.fn)
        PROVE  Returning(g.fn, g.results, ExitOf(g, c), c)
    <3>1. Returning(fr.fn, fr.results, ExitState(fr.results, fr.fn, c), c)
      BY <1>1 DEF SoundFrame
    <3>2. ExitOf(g, c) = ExitState(fr.results, fr.fn, c)
      BY <1>2, <1>3, <1>5 DEF ExitOf, ExitState
    <3> QED
      BY <1>3, <1>5, <3>1, <3>2 DEF Returning
  <2> QED
    BY <1>3, <1>5, <2>1, <2>2 DEF SoundFrame, Here
<1>6. CASE g.bb = fr.bb /\ g.pc = 1 /\ g.results = Set(r, fr.bb, s) /\ g.state = s
  <2> DEFINE t == Set(r, fr.bb, s)
  <2>1. /\ DOMAIN r \subseteq DOMAIN t /\ Get(t, fr.bb, Empty) = s
        /\ \A k : k # fr.bb => Get(t, k, Empty) = Get(fr.results, k, Empty)
    <3>1. t = Set(r, fr.bb, s)
      OBVIOUS
    <3> HIDE DEF t
    <3>2. DOMAIN t = DOMAIN r \cup {fr.bb}
      BY <3>1 DEF Set
    <3>3. Get(t, fr.bb, Empty) = s
      BY <3>1, GetSet
    <3>4. \A k : k # fr.bb => Get(t, k, Empty) = Get(r, k, Empty)
      BY <3>1, GetSet
    <3> QED
      BY <1>3, <3>2, <3>3, <3>4
  <2>2. HonestResults(t)
    BY <1>3, <1>4, HonestSetResults
  <2> HIDE DEF t
  <2>3. ASSUME NEW c \in Blocks(fr.fn), Visited(g, c)
        PROVE  Through(all, Pair(g), g.results, c, Len(Code(g.fn, c)))
    <3>1. c # fr.bb
      BY <1>6, <2>3 DEF Visited, Visiting
    <3>2. EntryState(t, c) = EntryState(fr.results, c)
      BY <2>1, <3>1 DEF EntryState
    <3>3. Visited(fr, c)
      BY <1>6, <2>3, <3>1, <3>2 DEF Visited, Visiting, t
    <3>4. \A j \in 1..Len(Code(fr.fn, c)) :
            Get(t, Code(fr.fn, c)[j].id, Empty) = Get(fr.results, Code(fr.fn, c)[j].id, Empty)
      BY <1>1, <2>1, FrameKeys
    <3>5. g.results = t
      BY <1>6 DEF t
    <3> QED
      BY <1>1, <1>3, <2>1, <3>2, <3>3, <3>4, <3>5, SoundSame
  <2>4. Through(all, Pair(g), g.results, g.bb, g.pc - 1)
    BY <1>6 DEF Through
  <2>5. ASSUME NEW c \in Blocks(fr.fn)
        PROVE  Returning(g.fn, g.results, ExitOf(g, c), c)
    <3>1. Returning(fr.fn, fr.results, ExitOf(fr, c), c)
      BY DEF SoundFrame
    <3>2. Exit(fr.fn, c).id # fr.bb /\ fr.fn # fr.bb
      BY <1>1, FrameKeys
    <3>3. ExitOf(g, c) = ExitOf(fr, c)
      BY <1>6, <2>1, <3>2 DEF ExitOf, ExitState, t
    <3>4. Get(g.results, fr.fn, Empty) = Get(fr.results, fr.fn, Empty)
      BY <1>6, <2>1, <3>2 DEF t
    <3> QED
      BY <3>1, <3>3, <3>4 DEF Returning
  <2>6. Here(g)
    BY <1>6, <2>1 DEF Here, PointOf, PointState, EntryState, t
  <2> QED
    BY <1>4, <1>6, <2>2, <2>3, <2>4, <2>5, <2>6 DEF SoundFrame, t
<1> QED
  BY <1>5, <1>6

LEMMA IncludedGet ==
  ASSUME NEW s \in State, NEW t \in State, Included(s, t), NEW k
  PROVE  /\ Get(s, k, Unknown) \in RangeValue /\ Get(t, k, Unknown) \in RangeValue
         /\ Below(Get(s, k, Unknown), Get(t, k, Unknown))
<1>1. Get(s, k, Unknown) \in RangeValue /\ Get(t, k, Unknown) \in RangeValue
  BY RangeShapes, GetMap DEF State
<1>2. Below(Get(s, k, Unknown), Get(t, k, Unknown))
  BY DEF Included, Get, Below
<1> QED
  BY <1>1, <1>2

LEMMA ReturnValueIs ==
  ASSUME NEW i, NEW s \in State
  PROVE  ReturnValue(i, s) \in RangeValue
<1>1. Unknown \in RangeValue /\ Get(s, i.args[1], Unknown) \in RangeValue
  BY RangeShapes, GetMap DEF State
<1> QED
  BY <1>1 DEF ReturnValue

(* What is known of the returned value grows. *)
LEMMA ReturningGrows ==
  ASSUME NEW f, NEW r \in Results, NEW more \in Results,
         Included(Get(r, f, Empty), Get(more, f, Empty)),
         NEW s \in State, NEW b, Returning(f, r, s, b)
  PROVE  Returning(f, more, s, b)
<1> DEFINE a == Get(Get(r, f, Empty), f, Unknown)
           c == Get(Get(more, f, Empty), f, Unknown)
           v == ReturnValue(Exit(f, b), s)
<1>1. Get(r, f, Empty) \in State /\ Get(more, f, Empty) \in State
  BY EmptyIs, GetMap DEF Results
<1>2. a \in RangeValue /\ c \in RangeValue /\ Below(a, c)
  BY <1>1, IncludedGet
<1>3. v \in RangeValue
  BY ReturnValueIs
<1> HIDE DEF a, c, v
<1>4. Below(v, a) => Below(v, c)
  BY <1>2, <1>3, BelowBelow
<1> QED
  BY <1>4 DEF Returning, a, c, v

LEMMA AfterIs ==
  ASSUME NEW fr \in FrameSet, NEW i, NEW s, NEW g, g = After(fr, i, s)
  PROVE  /\ g.context = fr.context /\ g.fn = fr.fn /\ g.work = fr.work /\ g.bb = fr.bb
         /\ g.pc = fr.pc + 1 /\ g.results = Set(fr.results, i.id, s) /\ g.state = s
         /\ g.oldExitState = fr.oldExitState
BY DEF After, FrameSet

LEMMA AfterSound ==
  ASSUME mod \in Modules, NEW all, NEW fr, FrameInv(fr), SoundFrame(all, fr),
         fr.bb # NoBlock, fr.pc \in 1..Len(Code(fr.fn, fr.bb)),
         NEW i, i = Code(fr.fn, fr.bb)[fr.pc], NEW s, Honest(s),
         Effect(all, Pair(fr), i, PointOf(fr), s),
         NEW g, g.context = fr.context, g.fn = fr.fn, g.work = fr.work, g.bb = fr.bb,
         g.pc = fr.pc + 1, g.results = Set(fr.results, i.id, s), g.state = s,
         g.oldExitState = fr.oldExitState
  PROVE  SoundFrame(all, g) /\ Here(g)
<1> DEFINE f == fr.fn
           t == Set(fr.results, i.id, s)
           q == Pair(fr)
<1>1. f \in DOMAIN mod.functions /\ fr.bb \in Blocks(f) /\ fr.results \in Results
  BY StatesAre DEF FrameInv, FrameOK
<1>2. q[2] = f /\ Pair(g) = q
  BY DEF Pair
<1>3. /\ DOMAIN fr.results \subseteq DOMAIN t /\ i.id \in DOMAIN t /\ Get(t, i.id, Empty) = s
      /\ \A k : k # i.id => Get(t, k, Empty) = Get(fr.results, k, Empty)
  <2>1. t = Set(fr.results, i.id, s)
    OBVIOUS
  <2> HIDE DEF t
  <2>2. DOMAIN t = DOMAIN fr.results \cup {i.id}
    BY <2>1 DEF Set
  <2>3. Get(t, i.id, Empty) = s
    BY <2>1, GetSet
  <2>4. \A k : k # i.id => Get(t, k, Empty) = Get(fr.results, k, Empty)
    BY <2>1, GetSet
  <2> QED
    BY <2>2, <2>3, <2>4
<1>4. HonestResults(t)
  BY HonestSetResults DEF SoundFrame
<1>5. /\ Len(Code(f, fr.bb)) \in Nat /\ DOMAIN Code(f, fr.bb) = 1..Len(Code(f, fr.bb))
      /\ i.id # f /\ \A c \in Blocks(f) : i.id # c
  BY <1>1, FrameKeys, AtIs
<1>6. fr.pc \in Nat /\ fr.pc # 0 /\ g.pc - 1 = fr.pc /\ g.pc # 0 /\ g.pc # 1
  BY <1>5
<1>7. ASSUME NEW c \in Blocks(f), NEW j \in 1..Len(Code(f, c)), c # fr.bb \/ j # fr.pc
      PROVE  Code(f, c)[j].id # i.id
  <2>1. DOMAIN Code(f, c) = 1..Len(Code(f, c))
    BY <1>1, AtIs
  <2> QED
    BY <1>1, <1>5, <1>7, <2>1, OnePlace
<1>8. g.results = t
  OBVIOUS
<1> HIDE DEF t, q, f
<1>9. ASSUME NEW c \in Blocks(f), Visited(g, c)
      PROVE  Through(all, Pair(g), g.results, c, Len(Code(g.fn, c)))
  <2>1. c # fr.bb
    BY <1>6, <1>9 DEF Visited, Visiting
  <2>2. EntryState(t, c) = EntryState(fr.results, c)
    BY <1>3, <1>5 DEF EntryState
  <2>3. Visited(fr, c)
    BY <1>8, <1>9, <2>1, <2>2 DEF Visited, Visiting
  <2>4. \A j \in 1..Len(Code(f, c)) :
          Get(t, Code(f, c)[j].id, Empty) = Get(fr.results, Code(f, c)[j].id, Empty)
    BY <1>3, <1>7, <2>1
  <2> QED
    BY <1>1, <1>3, <1>8, <2>2, <2>3, <2>4, SoundSame DEF f
<1>10. Through(all, q, t, fr.bb, fr.pc)
  <2>1. Through(all, q, fr.results, fr.bb, fr.pc - 1) /\ fr.pc - 1 \in Nat
    BY <1>6 DEF SoundFrame, q
  <2>2. EntryState(t, fr.bb) = EntryState(fr.results, fr.bb)
    BY <1>1, <1>3, <1>5 DEF EntryState
  <2>3. \A j \in 1..(fr.pc - 1) :
          Get(t, Code(f, fr.bb)[j].id, Empty) = Get(fr.results, Code(f, fr.bb)[j].id, Empty)
    <3>1. \A j \in 1..(fr.pc - 1) : j \in 1..Len(Code(f, fr.bb)) /\ j # fr.pc
      BY <1>5, <1>6 DEF f
    <3> QED
      BY <1>1, <1>3, <1>7, <3>1
  <2>4. Through(all, q, t, fr.bb, fr.pc - 1)
    BY <1>2, <1>3, <2>1, <2>2, <2>3, ThroughSame
  <2>5. PointState(t, f, fr.bb, fr.pc) = PointOf(fr)
    <3>1. fr.pc = 1 \/ fr.pc - 1 \in 1..(fr.pc - 1)
      BY <1>6
    <3> QED
      BY <2>2, <2>3, <3>1 DEF PointState, PointOf, f
  <2>6. Effect(all, q, i, PointState(t, f, fr.bb, fr.pc), Get(t, i.id, Empty))
    BY <1>3, <2>5 DEF q
  <2>7. \A j \in 1..fr.pc : j \in 1..(fr.pc - 1) \/ j = fr.pc
    BY <1>6
  <2>8. i = Code(f, fr.bb)[fr.pc]
    BY DEF f
  <2> QED
    BY <1>2, <1>3, <2>4, <2>6, <2>7, <2>8 DEF Through
<1>11. ASSUME NEW c \in Blocks(f)
       PROVE  Returning(g.fn, g.results, ExitOf(g, c), c)
  <2>1. Returning(f, fr.results, ExitOf(fr, c), c)
    BY DEF SoundFrame, f
  <2>2. Get(t, f, Empty) = Get(fr.results, f, Empty)
    BY <1>3, <1>5
  <2>3. ExitOf(g, c) = ExitOf(fr, c)
    <3>1. CASE c = fr.bb
      BY <3>1 DEF ExitOf
    <3>2. CASE c # fr.bb
      <4>1. Len(Code(f, c)) \in 1..Len(Code(f, c))
        BY <1>1, AtIs
      <4>2. Exit(f, c).id # i.id
        BY <1>7, <3>2, <4>1 DEF Exit
      <4> QED
        BY <1>3, <1>8, <3>2, <4>2 DEF ExitOf, ExitState, f
    <3> QED
      BY <3>1, <3>2
  <2> QED
    BY <1>8, <2>1, <2>2, <2>3 DEF Returning, f
<1>12. Here(g)
  BY <1>3, <1>6, <1>8 DEF Here, PointOf, PointState, f
<1> QED
  BY <1>2, <1>4, <1>6, <1>8, <1>9, <1>10, <1>11, <1>12 DEF SoundFrame, f

LEMMA LeaveSound ==
  ASSUME mod \in Modules, NEW all, NEW fr, FrameInv(fr), SoundFrame(all, fr), fr.bb # NoBlock,
         fr.pc = Len(Code(fr.fn, fr.bb)) + 1, NEW last, last = Exit(fr.fn, fr.bb),
         NEW g, g.context = fr.context, g.fn = fr.fn, g.bb = NoBlock, g.state = fr.state,
         Range(fr.work) \subseteq Range(g.work),
         \/ fr.state = fr.oldExitState /\ g.results = fr.results
         \/ g.results = IF last.op = "ret" THEN WithReturn(fr, last) ELSE fr.results
  PROVE  SoundFrame(all, g) /\ Here(g)
<1> DEFINE f == fr.fn
           t == g.results
           q == Pair(fr)
<1>1. /\ f \in DOMAIN mod.functions /\ fr.bb \in Blocks(f) /\ fr \in FrameSet
      /\ fr.results \in Results /\ fr.state \in State
      /\ fr.state = ExitState(fr.results, f, fr.bb)
  BY StatesAre DEF FrameInv, FrameOK, Kept
<1>2. q[2] = f /\ Pair(g) = q
  BY DEF Pair
<1>3. /\ Len(Code(f, fr.bb)) \in Nat /\ last \in Instructions(f)
      /\ \A c \in Blocks(f) : c # f
      /\ \A c \in Blocks(f) : Exit(f, c).id # f
      /\ \A c \in Blocks(f) : \A j \in 1..Len(Code(f, c)) : Code(f, c)[j].id # f
  BY <1>1, FrameKeys
<1>4. NoBlock \notin Blocks(f)
  BY <1>1, FnIs
<1>5. t = fr.results \/ (last.op = "ret" /\ t = WithReturn(fr, last))
  OBVIOUS
<1>6. /\ t \in Results /\ DOMAIN fr.results \subseteq DOMAIN t /\ HonestResults(t)
      /\ \A k : k # f => Get(t, k, Empty) = Get(fr.results, k, Empty)
      /\ Included(Get(fr.results, f, Empty), Get(t, f, Empty))
  <2>1. CASE t = fr.results
    <3>1. Get(fr.results, f, Empty) \in State
      BY <1>1, StatesAre
    <3> QED
      BY <1>1, <2>1, <3>1, IncludedSelf DEF SoundFrame
  <2>2. CASE t = WithReturn(fr, last)
    <3>1. /\ t \in Results /\ \A k : k # f => Get(t, k, Empty) = Get(fr.results, k, Empty)
      BY <1>1, <1>3, <2>2, ReturnIs
    <3>2. Included(Get(fr.results, f, Empty), Get(t, f, Empty))
      BY <1>1, <1>3, <2>2, ReturnGrows
    <3> DEFINE a == Get(fr.results, f, Empty)
               v == Join(Get(a, f, Unknown), ReturnValue(last, fr.state))
    <3>3. t = Set(fr.results, f, Set(a, f, v))
      BY <2>2 DEF WithReturn
    <3>4. f \notin ConstantInt
      BY <1>1, KeysApart, ConstantAssumption
    <3>5. Honest(a)
      BY HonestGet DEF SoundFrame
    <3> HIDE DEF v, a
    <3>6. Honest(Set(a, f, v))
      BY <3>4, <3>5, HonestSet
    <3>7. HonestResults(t)
      BY <3>3, <3>6, HonestSetResults DEF SoundFrame
    <3>8. DOMAIN t = DOMAIN fr.results \cup {f}
      BY <3>3 DEF Set
    <3> QED
      BY <3>1, <3>2, <3>7, <3>8
  <2> QED
    BY <1>5, <2>1, <2>2
<1> HIDE DEF f, t, q
<1>7. ASSUME NEW c \in Blocks(f)
      PROVE  /\ EntryState(t, c) = EntryState(fr.results, c)
             /\ ExitState(t, f, c) = ExitState(fr.results, f, c)
             /\ \A j \in 1..Len(Code(f, c)) :
                  Get(t, Code(f, c)[j].id, Empty) = Get(fr.results, Code(f, c)[j].id, Empty)
  BY <1>3, <1>6 DEF EntryState, ExitState
<1>8. ASSUME NEW c \in Blocks(f), Visited(g, c)
      PROVE  Through(all, Pair(g), g.results, c, Len(Code(g.fn, c)))
  <2>1. CASE c = fr.bb
    <3>1. fr.pc # 0 /\ fr.pc - 1 = Len(Code(f, c))
      BY <1>3, <2>1 DEF f
    <3>2. Through(all, q, fr.results, c, Len(Code(f, c)))
      BY <2>1, <3>1 DEF SoundFrame, q
    <3>3. Through(all, q, t, c, Len(Code(f, c)))
      BY <1>2, <1>3, <1>6, <1>7, <2>1, <3>2, ThroughSame
    <3> QED
      BY <1>2, <3>3 DEF t, f
  <2>2. CASE c # fr.bb
    <3>1. Visited(fr, c)
      <4>1. ~Visiting(fr, c)
        BY <2>2 DEF Visiting
      <4>2. c \notin Range(fr.work) \/ DOMAIN EntryState(fr.results, c) # {}
        BY <1>7, <1>8 DEF Visited, t
      <4> QED
        BY <2>2, <4>1, <4>2 DEF Visited
    <3> QED
      BY <1>1, <1>6, <1>7, <3>1, SoundSame DEF t, f
  <2> QED
    BY <2>1, <2>2
<1>9. ASSUME NEW c \in Blocks(f)
      PROVE  Returning(f, t, ExitState(fr.results, f, c), c)
  <2>1. ExitState(fr.results, f, c) \in State
    BY <1>1, StatesAre
  <2>2. CASE c = fr.bb /\ fr.state # fr.oldExitState
    <3>1. CASE last.op # "ret"
      BY <2>2, <3>1 DEF Returning, f
    <3>2. CASE last.op = "ret"
      <4> DEFINE old == Get(Get(fr.results, f, Empty), f, Unknown)
                 new == Join(old, ReturnValue(last, fr.state))
      <4>1. t = WithReturn(fr, last)
        BY <2>2, <3>2 DEF t
      <4>2. /\ Get(t, f, Empty) = Set(Get(fr.results, f, Empty), f, new)
            /\ old \in RangeValue /\ ReturnValue(last, fr.state) \in RangeValue
        BY <1>1, <1>3, <4>1, ReturnGrows DEF f
      <4> HIDE DEF old
      <4>3. Below(ReturnValue(last, fr.state), new)
        BY <4>2, JoinAbove
      <4> HIDE DEF new
      <4>4. Get(Get(t, f, Empty), f, Unknown) = new
        BY <4>2, GetSet
      <4> QED
        BY <1>1, <2>2, <4>3, <4>4 DEF Returning, f
    <3> QED
      BY <3>1, <3>2
  <2>3. CASE ~(c = fr.bb /\ fr.state # fr.oldExitState)
    <3>1. ExitOf(fr, c) = ExitState(fr.results, f, c)
      BY <1>1, <2>3 DEF ExitOf, f
    <3>2. Returning(f, fr.results, ExitState(fr.results, f, c), c)
      BY <3>1 DEF SoundFrame, f
    <3> QED
      BY <1>1, <1>6, <2>1, <3>2, ReturningGrows
  <2> QED
    BY <2>2, <2>3
<1>10. ASSUME NEW c \in Blocks(f)
       PROVE  Returning(g.fn, g.results, ExitOf(g, c), c)
  <2>1. ExitOf(g, c) = ExitState(fr.results, f, c)
    BY <1>4, <1>7 DEF ExitOf, t, f
  <2> QED
    BY <1>9, <2>1 DEF t, f
<1> QED
  BY <1>6, <1>8, <1>10 DEF SoundFrame, Here, t, f

LEMMA CallingSound ==
  ASSUME NEW all, NEW fr, SoundFrame(all, fr), NEW s, Honest(s),
         NEW g, g.context = fr.context, g.fn = fr.fn, g.results = fr.results, g.work = fr.work,
         g.bb = fr.bb, g.pc = fr.pc, g.oldExitState = fr.oldExitState, g.state = s
  PROVE  SoundFrame(all, g)
<1>1. /\ Pair(g) = Pair(fr) /\ \A c : ExitOf(g, c) = ExitOf(fr, c)
      /\ \A c : Visited(g, c) <=> Visited(fr, c)
  BY DEF Pair, ExitOf, Visited, Visiting
<1> QED
  BY <1>1 DEF SoundFrame

LEMMA FrameGrows ==
  ASSUME mod \in Modules, NEW all, GoodRecords(all), NEW more, GoodRecords(more),
         Grown(all, more), NEW fr, SoundFrame(all, fr)
  PROVE  SoundFrame(more, fr)
BY ThroughGrows DEF SoundFrame

LEMMA RecordGrows ==
  ASSUME mod \in Modules, NEW all, GoodRecords(all), NEW more, GoodRecords(more),
         Grown(all, more), NEW q, NEW r, SoundRecord(all, q, r)
  PROVE  SoundRecord(more, q, r)
BY ThroughGrows DEF SoundRecord

LEMMA ArgumentsAdmitted ==
  ASSUME mod \in Modules, NEW f \in DOMAIN mod.functions, NEW r \in Results, NEW b,
         Included(Without(Get(r, f, Empty), f), EntryState(r, b))
  PROVE  Admits(f, r, b)
<1> DEFINE a == Get(r, f, Empty)
           s == EntryState(r, b)
<1>1. a \in State /\ s \in State
  BY EmptyIs, GetMap DEF Results, EntryState
<1>2. /\ \A v \in DOMAIN a : a[v] \in RangeValue
      /\ \A v \in DOMAIN s : s[v] \in RangeValue
  BY <1>1, MapIs DEF State
<1>3. Params(f) \in Seq(Value) /\ f \notin Value
  BY FnIs, KeysApart
<1> SUFFICES ASSUME NEW e \in [Range(Params(f)) -> Word], Fits(e, a)
             PROVE  Fits(e, s)
  BY DEF Admits
<1>4. \A v \in DOMAIN e : v # f
  BY <1>3 DEF Range
<1>5. \A v \in DOMAIN e : v \in DOMAIN a /\ e[v] \in Concrete(a[v], Word)
  BY FitsIs
<1>6. \A v \in DOMAIN e : v \in DOMAIN Without(a, f) /\ Without(a, f)[v] = a[v]
  BY <1>4, <1>5 DEF Without
<1>7. ASSUME NEW v \in DOMAIN e
      PROVE  v \in DOMAIN s /\ e[v] \in Concrete(s[v], Word)
  <2>1. v \in DOMAIN s /\ Below(a[v], s[v])
    BY <1>6 DEF Included
  <2> QED
    BY <1>2, <1>5, <2>1, ConcreteGrows
<1> HIDE DEF a, s
<1> QED
  BY <1>7, FitsIs

(* An activation with nothing left to do has gone through all its blocks. *)
LEMMA FinishedSound ==
  ASSUME mod \in Modules, NEW all, NEW fr, FrameInv(fr), SoundFrame(all, fr),
         fr.bb = NoBlock, fr.work = << >>
  PROVE  SoundRecord(all, Pair(fr), fr.results)
<1>1. Pair(fr)[2] = fr.fn /\ fr.fn \in DOMAIN mod.functions /\ Range(fr.work) = {}
  BY DEF Pair, FrameInv, FrameOK, Range
<1>2. NoBlock \notin Blocks(fr.fn)
  BY <1>1, FnIs
<1>3. ASSUME NEW b \in Blocks(fr.fn)
      PROVE  /\ Through(all, Pair(fr), fr.results, b, Len(Code(fr.fn, b)))
             /\ Admits(fr.fn, fr.results, b)
             /\ Returning(fr.fn, fr.results, ExitState(fr.results, fr.fn, b), b)
  <2>1. b # fr.bb
    BY <1>2
  <2>2. Visited(fr, b)
    BY <1>1, <2>1 DEF Visited, Visiting
  <2>3. Through(all, Pair(fr), fr.results, b, Len(Code(fr.fn, b)))
    BY <2>2 DEF SoundFrame
  <2>4. ~Entering(fr, b) /\ EntryOf(fr, b) = EntryState(fr.results, b)
    BY <2>1 DEF Entering, EntryOf
  <2>5. Included(ArgsOf(fr), EntryOf(fr, b))
    BY <1>1, <2>4, KnowsIs DEF FrameInv
  <2>6. Returning(fr.fn, fr.results, ExitOf(fr, b), b)
    BY DEF SoundFrame
  <2>7. fr.results \in Results
    BY StatesAre DEF FrameInv, FrameOK
  <2>8. Admits(fr.fn, fr.results, b)
    BY <1>1, <2>4, <2>5, <2>7, ArgumentsAdmitted DEF ArgsOf
  <2> QED
    BY <2>1, <2>3, <2>6, <2>8 DEF ExitOf
<1> QED
  BY <1>1, <1>3 DEF SoundRecord, SoundFrame

(* Where an analysis may start again: what it has been through before holds. *)
Resumable(all, q, r) ==
  /\ HonestResults(r)
  /\ \A b \in Blocks(q[2]) :
       /\ DOMAIN EntryState(r, b) # {} => Through(all, q, r, b, Len(Code(q[2], b)))
       /\ Returning(q[2], r, ExitState(r, q[2], b), b)

LEMMA RecordResumable ==
  ASSUME NEW all, NEW q, NEW r, SoundRecord(all, q, r)
  PROVE  Resumable(all, q, r)
BY DEF SoundRecord, Resumable

LEMMA NothingResumable ==
  ASSUME NEW all, NEW q
  PROVE  Resumable(all, q, NoResults)
<1>1. \A k : Get(NoResults, k, Empty) = Empty
  BY EmptyIs DEF Get
<1>2. \A i : ReturnValue(i, Empty) = Unknown
  BY EmptyIs DEF ReturnValue, Get
<1> QED
  BY <1>1, <1>2, EmptyIs DEF Resumable, HonestResults, EntryState, ExitState, Returning, Below

LEMMA ResumableGrows ==
  ASSUME mod \in Modules, NEW all, GoodRecords(all), NEW more, GoodRecords(more),
         Grown(all, more), NEW q, NEW r, Resumable(all, q, r)
  PROVE  Resumable(more, q, r)
BY ThroughGrows DEF Resumable

(* It may with more arguments. *)
LEMMA SummaryResumable ==
  ASSUME mod \in Modules, NEW all, NEW q \in Task, NEW r \in Results, Resumable(all, q, r),
         NEW s \in State, Honest(s), Included(Get(r, q[2], Empty), s)
  PROVE  Resumable(all, q, Set(r, q[2], s))
<1> DEFINE f == q[2]
           t == Set(r, f, s)
<1>1. f \in DOMAIN mod.functions /\ f \in Keys
  BY KeysApart DEF Task
<1>2. /\ DOMAIN r \subseteq DOMAIN t /\ Get(t, f, Empty) = s /\ t \in Results
      /\ \A k : k # f => Get(t, k, Empty) = Get(r, k, Empty)
  <2>1. t = Set(r, f, s)
    OBVIOUS
  <2> HIDE DEF t
  <2>2. DOMAIN t = DOMAIN r \cup {f}
    BY <2>1 DEF Set
  <2>3. Get(t, f, Empty) = s
    BY <2>1, GetSet
  <2>4. \A k : k # f => Get(t, k, Empty) = Get(r, k, Empty)
    BY <2>1, GetSet
  <2>5. t \in Results
    BY <1>1, <2>1, SetMap DEF Results
  <2> QED
    BY <2>2, <2>3, <2>4, <2>5
<1>3. HonestResults(t)
  BY HonestSetResults DEF Resumable
<1> HIDE DEF t
<1>4. ASSUME NEW b \in Blocks(f)
      PROVE  /\ DOMAIN EntryState(t, b) # {} => Through(all, q, t, b, Len(Code(f, b)))
             /\ Returning(f, t, ExitState(t, f, b), b)
  <2>1. /\ Len(Code(f, b)) \in Nat /\ b # f /\ Exit(f, b).id # f
        /\ \A j \in 1..Len(Code(f, b)) : Code(f, b)[j].id # f
    BY <1>1, FrameKeys
  <2>2. EntryState(t, b) = EntryState(r, b) /\ ExitState(t, f, b) = ExitState(r, f, b)
    BY <1>2, <2>1 DEF EntryState, ExitState
  <2>3. ASSUME DOMAIN EntryState(t, b) # {} PROVE Through(all, q, t, b, Len(Code(f, b)))
    <3>1. Through(all, q, r, b, Len(Code(f, b)))
      BY <2>2, <2>3 DEF Resumable
    <3> QED
      BY <1>2, <2>1, <2>2, <3>1, ThroughSame
  <2>4. Returning(f, r, ExitState(r, f, b), b)
    BY DEF Resumable
  <2>5. ExitState(r, f, b) \in State
    BY EmptyIs, GetMap DEF Results, ExitState
  <2> QED
    BY <1>2, <2>2, <2>3, <2>4, <2>5, ReturningGrows
<1> QED
  BY <1>3, <1>4 DEF Resumable, t

(* A summary that reads the same leaves a record as good as it was. *)
LEMMA SameRecord ==
  ASSUME mod \in Modules, NEW all, NEW q \in Task, NEW r \in Results, SoundRecord(all, q, r),
         NEW s \in State, Honest(s), Included(Get(r, q[2], Empty), s),
         \A v : Get(s, v, Unknown) = Get(Get(r, q[2], Empty), v, Unknown)
  PROVE  SoundRecord(all, q, Set(r, q[2], s))
<1> DEFINE f == q[2]
           t == Set(r, f, s)
<1>1. f \in DOMAIN mod.functions
  BY DEF Task
<1>2. Resumable(all, q, t)
  BY RecordResumable, SummaryResumable
<1>3. /\ DOMAIN r \subseteq DOMAIN t /\ Get(t, f, Empty) = s
      /\ \A k : k # f => Get(t, k, Empty) = Get(r, k, Empty)
  <2>1. t = Set(r, f, s)
    OBVIOUS
  <2> HIDE DEF t
  <2>2. DOMAIN t = DOMAIN r \cup {f}
    BY <2>1 DEF Set
  <2>3. Get(t, f, Empty) = s
    BY <2>1, GetSet
  <2>4. \A k : k # f => Get(t, k, Empty) = Get(r, k, Empty)
    BY <2>1, GetSet
  <2> QED
    BY <2>2, <2>3, <2>4
<1> HIDE DEF t
<1>4. \A e : Fits(e, s) => Fits(e, Get(r, f, Empty))
  BY DEF Fits
<1>5. ASSUME NEW b \in Blocks(f)
      PROVE  Through(all, q, t, b, Len(Code(f, b))) /\ Admits(f, t, b)
  <2>1. /\ Len(Code(f, b)) \in Nat /\ b # f
        /\ \A j \in 1..Len(Code(f, b)) : Code(f, b)[j].id # f
    BY <1>1, FrameKeys
  <2>2. EntryState(t, b) = EntryState(r, b)
    BY <1>3, <2>1 DEF EntryState
  <2>3. Through(all, q, r, b, Len(Code(f, b))) /\ Admits(f, r, b)
    BY DEF SoundRecord
  <2>4. Through(all, q, t, b, Len(Code(f, b)))
    BY <1>3, <2>1, <2>2, <2>3, ThroughSame
  <2>5. Admits(f, t, b)
    BY <1>3, <1>4, <2>2, <2>3 DEF Admits
  <2> QED
    BY <2>4, <2>5
<1> QED
  BY <1>2, <1>5 DEF Resumable, SoundRecord, t

LEMMA FreshSound ==
  ASSUME mod \in Modules, NEW all, NEW p \in Task, NEW r \in Results, Resumable(all, p, r),
         NEW h, h = Frame(p[1], p[2], r)
  PROVE  SoundFrame(all, h) /\ Here(h)
<1> DEFINE f == p[2]
<1>1. p = <<p[1], p[2]>> /\ f \in DOMAIN mod.functions
  BY DEF Task
<1>2. /\ h.context = p[1] /\ h.fn = f /\ h.bb = NoBlock /\ h.pc = 0 /\ h.state = Empty
      /\ h.work = Fn(f).blocks
      /\ h.results = IF f \in DOMAIN r THEN r
                     ELSE [k \in DOMAIN r \cup {i.id : i \in Instructions(f)} |-> Get(r, k, Empty)]
  BY DEF Frame
<1>3. Pair(h) = p
  BY <1>1, <1>2 DEF Pair
<1>4. /\ DOMAIN r \subseteq DOMAIN h.results
      /\ \A x : Get(h.results, x, Empty) = Get(r, x, Empty)
      /\ HonestResults(h.results)
  <2> DEFINE D == DOMAIN r \cup {i.id : i \in Instructions(f)}
             w == [k \in D |-> Get(r, k, Empty)]
  <2>1. h.results = r \/ h.results = w
    BY <1>2
  <2>2. HonestResults(r)
    BY DEF Resumable
  <2>3. DOMAIN r \subseteq D
    OBVIOUS
  <2> HIDE DEF D
  <2>4. DOMAIN w = D /\ \A k \in D : w[k] = Get(r, k, Empty)
    OBVIOUS
  <2> HIDE DEF w
  <2>5. HonestResults(w)
    BY <2>2, <2>4, HonestGet DEF HonestResults
  <2>6. \A x : Get(w, x, Empty) = Get(r, x, Empty)
    BY <2>3, <2>4 DEF Get
  <2> QED
    BY <2>1, <2>2, <2>3, <2>4, <2>5, <2>6
<1> HIDE DEF f
<1>5. NoBlock \notin Blocks(f) /\ Range(h.work) = Blocks(f)
  BY <1>1, <1>2, FnIs DEF Blocks, f
<1>6. ASSUME NEW b \in Blocks(f)
      PROVE  /\ Visited(h, b) => Through(all, p, h.results, b, Len(Code(f, b)))
             /\ Returning(f, h.results, ExitOf(h, b), b)
  <2>1. EntryState(h.results, b) = EntryState(r, b) /\ ExitOf(h, b) = ExitState(r, f, b)
    BY <1>2, <1>4, <1>5 DEF EntryState, ExitState, ExitOf
  <2>2. /\ DOMAIN EntryState(r, b) # {} => Through(all, p, r, b, Len(Code(f, b)))
        /\ Returning(f, r, ExitState(r, f, b), b)
    BY DEF Resumable, f
  <2>3. Len(Code(f, b)) \in Nat
    BY <1>1, FrameKeys DEF f
  <2>4. Visited(h, b) => DOMAIN EntryState(r, b) # {}
    BY <1>5, <2>1 DEF Visited
  <2>5. Visited(h, b) => Through(all, p, h.results, b, Len(Code(f, b)))
    BY <1>4, <2>1, <2>2, <2>3, <2>4, ThroughSame DEF f
  <2> QED
    BY <1>4, <2>1, <2>2, <2>5 DEF Returning
<1>7. Honest(Empty)
  BY EmptyIs DEF Honest
<1> QED
  BY <1>2, <1>3, <1>4, <1>6, <1>7 DEF SoundFrame, Here

-----------------------------------------------------------------------------
(* Calls. *)
LEMMA NoConstantId ==
  ASSUME mod \in Modules, NEW f \in DOMAIN mod.functions, NEW i \in Instructions(f)
  PROVE  i.id \notin ConstantInt
BY ModuleAssumption DEF WellFormed, Instructions, Blocks, Code, Fn

LEMMA PointIs ==
  ASSUME NEW fr \in FrameSet, HonestResults(fr.results)
  PROVE  PointOf(fr) \in State /\ Honest(PointOf(fr))
<1>1. \A k : Get(fr.results, k, Empty) \in State /\ Honest(Get(fr.results, k, Empty))
  BY StatesAre, HonestGet
<1> QED
  BY <1>1 DEF PointOf, PointState, EntryState

LEMMA AskedIs ==
  ASSUME mod \in Modules, NEW f \in DOMAIN mod.functions, NEW i \in Instructions(f),
         NEW s \in State, Honest(s), NEW u, u = Asked(f, i, s)
  PROVE  /\ u \in Draft /\ Honest(u) /\ Extends(s, u)
         /\ \A k \in 1..Len(i.args) : i.args[k] \in DOMAIN u
<1>1. i.args \in Seq(Value) /\ s \in Draft
  BY InstructionIs, StateIs DEF Instruction
<1>2. Honest(u) /\ Extends(s, u)
  BY <1>1, OperandsHold DEF Asked
<1>3. u \in Draft /\ \A k \in 1..Len(i.args) : i.args[k] \in DOMAIN u
  BY <1>1, OperandsStay DEF Asked
<1> QED
  BY <1>2, <1>3

(* The state a call is made in covers nothing but ranges. *)
LEMMA ArgumentAt ==
  ASSUME mod \in Modules, NEW f \in DOMAIN mod.functions, NEW i \in Instructions(f),
         i.op = "call", NEW u \in State, \A k \in 1..Len(i.args) : i.args[k] \in DOMAIN u,
         NEW v \in Range(Params(i.callee))
  PROVE  u[i.args[Position(i.callee, v)]] \in RangeValue
<1>1. i.callee \in DOMAIN mod.functions /\ Len(i.args) = Len(Params(i.callee))
  BY InstructionIs
<1>2. Position(i.callee, v) \in 1..Len(i.args)
  BY <1>1, PositionIs
<1> QED
  BY <1>2, MapIs DEF State

LEMMA CoveredGrows ==
  ASSUME mod \in Modules, NEW f \in DOMAIN mod.functions, NEW i \in Instructions(f),
         i.op = "call", NEW u \in State, \A k \in 1..Len(i.args) : i.args[k] \in DOMAIN u,
         NEW s \in State, NEW t \in State, Included(s, t), Covered(i, u, s)
  PROVE  Covered(i, u, t)
<1> SUFFICES ASSUME NEW v \in Range(Params(i.callee))
             PROVE  Below(u[i.args[Position(i.callee, v)]], Get(t, v, Unknown))
  BY DEF Covered
<1>1. u[i.args[Position(i.callee, v)]] \in RangeValue
  BY ArgumentAt
<1>2. Below(u[i.args[Position(i.callee, v)]], Get(s, v, Unknown))
  BY DEF Covered
<1>3. /\ Get(s, v, Unknown) \in RangeValue /\ Get(t, v, Unknown) \in RangeValue
      /\ Below(Get(s, v, Unknown), Get(t, v, Unknown))
  BY IncludedGet
<1> QED
  BY <1>1, <1>2, <1>3, BelowBelow

(* What a call tells its callee covers its arguments. *)
LEMMA ToldCovers ==
  ASSUME mod \in Modules, NEW f \in DOMAIN mod.functions, NEW i \in Instructions(f),
         i.op = "call", NEW u \in State, \A k \in 1..Len(i.args) : i.args[k] \in DOMAIN u,
         NEW s \in State, NEW a, a = Arguments(i, u, s), NEW t, t = WithArguments(s, a)
  PROVE  /\ Covered(i, u, t)
         /\ Honest(s) => Honest(t)
         /\ ~NeedsUpdate(s, a) => \A v : Get(t, v, Unknown) = Get(s, v, Unknown)
<1>1. i.callee \in DOMAIN mod.functions
  BY InstructionIs
<1>2. a = [v \in Range(Params(i.callee)) |->
             Join(u[i.args[Position(i.callee, v)]], Get(s, v, Unknown))]
  BY DEF Arguments, Position
<1>3. DOMAIN a = Range(Params(i.callee))
  BY <1>2
<1>4. /\ DOMAIN t = DOMAIN s \cup DOMAIN a
      /\ \A v \in DOMAIN a : t[v] = a[v]
      /\ \A v \in DOMAIN s : v \notin DOMAIN a => t[v] = s[v]
  BY DEF WithArguments
<1>5. ASSUME NEW v \in Range(Params(i.callee))
      PROVE  Below(u[i.args[Position(i.callee, v)]], Get(t, v, Unknown))
  <2>1. u[i.args[Position(i.callee, v)]] \in RangeValue
    BY ArgumentAt
  <2>2. Get(s, v, Unknown) \in RangeValue
    BY RangeShapes, GetMap DEF State
  <2>3. a[v] = Join(u[i.args[Position(i.callee, v)]], Get(s, v, Unknown))
    BY <1>2
  <2>4. Below(u[i.args[Position(i.callee, v)]], a[v])
    BY <2>1, <2>2, <2>3, JoinAbove
  <2>5. Get(t, v, Unknown) = a[v]
    BY <1>3, <1>4 DEF Get
  <2> QED
    BY <2>4, <2>5
<1>6. ASSUME Honest(s) PROVE Honest(t)
  <2>1. Range(Params(i.callee)) \cap ConstantInt = {}
    BY <1>1, ModuleAssumption DEF WellFormed, Params, Fn
  <2> QED
    BY <1>3, <1>4, <1>6, <2>1 DEF Honest
<1>7. ASSUME ~NeedsUpdate(s, a), NEW v PROVE Get(t, v, Unknown) = Get(s, v, Unknown)
  <2>1. \A w \in DOMAIN a : a[w] = Get(s, w, Unknown)
    BY <1>7 DEF NeedsUpdate
  <2> QED
    BY <1>4, <2>1 DEF Get
<1> QED
  BY <1>5, <1>6, <1>7 DEF Covered

LEMMA PairIs ==
  ASSUME NEW fr, FrameInv(fr)
  PROVE  /\ Pair(fr) \in Task /\ Pair(fr)[1] = fr.context /\ Pair(fr)[2] = fr.fn
         /\ \A i : ToCall(fr, i) = Target(Pair(fr), i)
BY DEF Pair, Task, FrameInv, FrameOK, FrameSet, ToCall, Target

LEMMA WaitingGrows ==
  ASSUME mod \in Modules, NEW all, GoodRecords(all), NEW more, GoodRecords(more),
         Grown(all, more), NEW fr, FrameInv(fr), Calling(fr), HonestResults(fr.results),
         Waiting(all, fr)
  PROVE  Waiting(more, fr)
<1> DEFINE i == Site(fr)
           p == ToCall(fr, i)
<1>1. /\ i \in Instructions(fr.fn) /\ i.op = "call" /\ fr.fn \in DOMAIN mod.functions
      /\ fr \in FrameSet
  BY CallsSite DEF FrameInv, FrameOK
<1>2. fr.state = Asked(fr.fn, i, PointOf(fr)) /\ p \in DOMAIN all
      /\ Covered(i, fr.state, Summary(all, p))
  BY DEF Waiting
<1> HIDE DEF i, p
<1>3. p \in Task /\ p \in DOMAIN more
  BY <1>2, MapIs DEF Grown, GoodRecords
<1>4. Included(Summary(all, p), Summary(more, p))
  BY <1>3 DEF Grown, FactKeys, Fact, Summary
<1>5. Summary(all, p) \in State /\ Summary(more, p) \in State
  BY SummaryIs
<1>6. fr.state \in State /\ \A k \in 1..Len(i.args) : i.args[k] \in DOMAIN fr.state
  BY <1>1, <1>2, PointIs, StatesAre, AskedIs
<1>7. Covered(i, fr.state, Summary(more, p))
  BY <1>1, <1>2, <1>4, <1>5, <1>6, CoveredGrows
<1> QED
  BY <1>2, <1>3, <1>7 DEF Waiting, i, p

(* The call returns, with what its callee was found to return. *)
LEMMA CompleteSound ==
  ASSUME mod \in Modules, ExactOperations, NoConstantReturned, NEW all, GoodRecords(all),
         NEW fr, FrameInv(fr), Calling(fr), SoundFrame(all, fr), Waiting(all, fr),
         NEW i, i = Site(fr), NEW p, p = ToCall(fr, i), SoundRecord(all, p, all[p]),
         NEW c, c = Complete(fr, i, all)
  PROVE  /\ SoundFrame(c.all, c.frame) /\ Here(c.frame) /\ Pair(c.frame) = Pair(fr)
         /\ SoundRecord(c.all, p, c.all[p])
         /\ \A q \in DOMAIN c.all : q # p => q \in DOMAIN all /\ c.all[q] = all[q]
<1> DEFINE q == Pair(fr)
           returned == Get(Summary(all, p), i.callee, Unknown)
           t == Set(fr.state, i.id, returned)
           r == all[p]
           a == Summary(all, p)
           s == Touch(a, i.callee, Unknown)
<1>1. /\ i \in Instructions(fr.fn) /\ i.op = "call" /\ fr.fn \in DOMAIN mod.functions
      /\ i.callee \in DOMAIN mod.functions /\ fr \in FrameSet
  BY CallsSite DEF FrameInv, FrameOK
<1>2. q \in Task /\ q[2] = fr.fn /\ p = Target(q, i) /\ p[2] = i.callee
  BY PairIs DEF Target
<1>3. /\ fr.state = Asked(fr.fn, i, PointOf(fr)) /\ p \in DOMAIN all
      /\ Covered(i, fr.state, Summary(all, p))
  BY DEF Waiting
<1>4. p \in Task /\ r \in Results
  BY <1>3, MapIs DEF GoodRecords
<1>5. PointOf(fr) \in State /\ Honest(PointOf(fr)) /\ fr.state \in State /\ Honest(fr.state)
  BY <1>1, PointIs, StatesAre DEF SoundFrame
<1>6. Effect(all, q, i, PointOf(fr), t)
  BY <1>1, <1>2, <1>3, <1>5, CallEffect
<1>7. Honest(t)
  BY <1>1, <1>5, NoConstantId, HonestSet
<1>8. c.frame = After(fr, i, t) /\ c.all = WithSummary(all, p, s)
  BY DEF Complete
<1>9. fr.bb # NoBlock /\ fr.pc \in 1..Len(Code(fr.fn, fr.bb)) /\ i = Code(fr.fn, fr.bb)[fr.pc]
  BY DEF Calling, Site
<1>10. Grown(all, c.all) /\ GoodRecords(c.all)
  BY <1>9, CompleteGrows, CompleteIs
<1>11. a = Get(r, p[2], Empty) /\ a \in State
  BY <1>3, SummaryIs DEF Summary, Get
<1> HIDE DEF t, q, r, a
<1>12. SoundFrame(all, c.frame) /\ Here(c.frame) /\ Pair(c.frame) = q
  <2> DEFINE g == c.frame
  <2>1. /\ g.context = fr.context /\ g.fn = fr.fn /\ g.work = fr.work /\ g.bb = fr.bb
        /\ g.pc = fr.pc + 1 /\ g.results = Set(fr.results, i.id, t) /\ g.state = t
        /\ g.oldExitState = fr.oldExitState
    BY <1>1, <1>8, AfterIs
  <2> HIDE DEF g
  <2>2. SoundFrame(all, g) /\ Here(g)
    BY <1>6, <1>7, <1>9, <2>1, AfterSound DEF q
  <2> QED
    BY <2>1, <2>2 DEF g, Pair, q
<1>13. SoundFrame(c.all, c.frame)
  BY <1>10, <1>12, FrameGrows
<1>14. /\ Honest(a) /\ s \in State /\ Honest(s) /\ Included(a, s)
       /\ \A v : Get(s, v, Unknown) = Get(a, v, Unknown)
  <2>1. i.callee \in StateKey /\ i.callee \notin ConstantInt
    BY <1>1, KeysApart, ConstantAssumption
  <2>2. Honest(a)
    BY <1>11, HonestGet DEF SoundRecord, r
  <2>3. Honest(s)
    BY <2>1, <2>2, HonestTouch
  <2>4. s \in State
    BY <1>11, <2>1, TouchMap, RangeShapes DEF State
  <2>5. Included(a, s)
    BY <1>11, TouchIncluded
  <2>6. \A v : Get(s, v, Unknown) = Get(a, v, Unknown)
    BY GetTouch
  <2> QED
    BY <2>2, <2>3, <2>4, <2>5, <2>6
<1> HIDE DEF s
<1>15. c.all = Set(all, p, Set(r, p[2], s))
  BY <1>3, <1>8 DEF WithSummary, Get, r
<1>16. SoundRecord(all, p, Set(r, p[2], s))
  <2>1. SoundRecord(all, p, r)
    BY DEF r
  <2> QED
    BY <1>4, <1>11, <1>14, <2>1, SameRecord
<1>17. c.all[p] = Set(r, p[2], s) /\ \A x \in DOMAIN c.all : x # p => x \in DOMAIN all /\ c.all[x] = all[x]
  <2> DEFINE w == Set(r, p[2], s)
             more == Set(all, p, w)
  <2>1. more = Set(all, p, w)
    OBVIOUS
  <2> HIDE DEF w, more
  <2>2. more[p] = w /\ \A x \in DOMAIN more : x # p => x \in DOMAIN all /\ more[x] = all[x]
    BY <2>1 DEF Set
  <2> QED
    BY <1>15, <2>2 DEF w, more
<1>18. SoundRecord(c.all, p, c.all[p])
  BY <1>10, <1>16, <1>17, RecordGrows
<1> QED
  BY <1>12, <1>13, <1>17, <1>18 DEF q

-----------------------------------------------------------------------------
(* All activations, and what is recorded of functions that are not being
   analysed. *)
Sane == NoRecursion /\ NoConstantReturned /\ ExactOperations
Active(st) == {Pair(st[k]) : k \in 1..Len(st)}
SoundRecords(all, st) == \A q \in DOMAIN all : q \notin Active(st) => SoundRecord(all, q, all[q])
SoundStack(all, st) ==
  /\ SoundRecords(all, st)
  /\ \A k \in 1..Len(st) : SoundFrame(all, st[k])
  /\ \A k \in 1..(Len(st) - 1) : Waiting(all, st[k])
  /\ st # << >> => Here(st[Len(st)])

(* The activations below the innermost are left alone. *)
LEMMA BelowTop ==
  ASSUME mod \in Modules, GoodRecords(allResults), GoodStack(stack),
         SoundStack(allResults, stack), NEW more, GoodRecords(more), Grown(allResults, more),
         NEW k \in 1..Len(stack)
  PROVE  /\ SoundFrame(more, stack[k])
         /\ k < Len(stack) => Waiting(more, stack[k])
<1>1. Len(stack) \in Nat /\ stack \in Seq(FrameSet) /\ stack[k] \in Range(stack)
  BY DEF GoodStack, Range
<1>2. FrameInv(stack[k])
  BY <1>1 DEF GoodStack
<1>3. SoundFrame(allResults, stack[k])
  BY DEF SoundStack
<1>4. SoundFrame(more, stack[k])
  BY <1>3, FrameGrows
<1>5. ASSUME k < Len(stack) PROVE Waiting(more, stack[k])
  <2>1. k \in 1..(Len(stack) - 1)
    BY <1>1, <1>5
  <2>2. Calling(stack[k]) /\ Waiting(allResults, stack[k])
    BY <2>1 DEF GoodStack, SoundStack
  <2> QED
    BY <1>2, <1>3, <2>2, WaitingGrows DEF SoundFrame
<1> QED
  BY <1>4, <1>5

LEMMA SoundTop ==
  ASSUME mod \in Modules, GoodRecords(allResults), GoodStack(stack), stack # << >>,
         SoundStack(allResults, stack), NEW more, GoodRecords(more), Grown(allResults, more),
         SoundRecords(more, stack), NEW g, Pair(g) = Pair(Top), SoundFrame(more, g), Here(g)
  PROVE  SoundStack(more, WithTop(g))
<1> DEFINE st == WithTop(g)
           n == Len(stack)
<1>1. n \in Nat /\ n > 0 /\ Top = stack[n] /\ stack \in Seq(FrameSet)
  BY TopIs DEF Top, GoodStack
<1>2. Len(st) = n /\ st[n] = g /\ \A k \in 1..n : k # n => st[k] = stack[k]
  BY <1>1 DEF WithTop
<1>3. \A k \in 1..n : SoundFrame(more, stack[k]) /\ (k < n => Waiting(more, stack[k]))
  BY BelowTop
<1> HIDE DEF st, n
<1>4. \A k \in 1..n : Pair(st[k]) = Pair(stack[k])
  BY <1>1, <1>2
<1>5. Active(st) = Active(stack)
  BY <1>2, <1>4 DEF Active, n
<1>6. SoundRecords(more, st)
  BY <1>5 DEF SoundRecords
<1>7. \A k \in 1..n : SoundFrame(more, st[k])
  BY <1>2, <1>3
<1>8. \A k \in 1..(n - 1) : Waiting(more, st[k])
  <2>1. \A k \in 1..(n - 1) : k \in 1..n /\ k # n /\ k < n
    BY <1>1
  <2> QED
    BY <1>2, <1>3, <2>1
<1>9. SoundStack(more, st)
  BY <1>2, <1>6, <1>7, <1>8 DEF SoundStack
<1> QED
  BY <1>9 DEF st

(* A callee is analysed. *)
LEMMA SoundPush ==
  ASSUME mod \in Modules, GoodRecords(allResults), GoodStack(stack), stack # << >>,
         SoundStack(allResults, stack), NEW more, GoodRecords(more), Grown(allResults, more),
         NEW g, Pair(g) = Pair(Top), SoundFrame(more, g), Waiting(more, g),
         NEW h, SoundFrame(more, h), Here(h),
         \A q \in DOMAIN more : q \notin Active(stack) \cup {Pair(h)} =>
           SoundRecord(more, q, more[q])
  PROVE  SoundStack(more, Append(WithTop(g), h))
<1> DEFINE w == WithTop(g)
           st == Append(w, h)
           n == Len(stack)
<1>1. n \in Nat /\ n > 0 /\ Top = stack[n] /\ stack \in Seq(FrameSet)
  BY TopIs DEF Top, GoodStack
<1>2. Len(w) = n /\ w[n] = g /\ \A k \in 1..n : k # n => w[k] = stack[k]
  BY <1>1 DEF WithTop
<1>3. w = [k \in 1..n |-> IF k = n THEN g ELSE stack[k]]
  BY <1>1 DEF WithTop
<1>4. \A k \in 1..n : SoundFrame(more, stack[k]) /\ (k < n => Waiting(more, stack[k]))
  BY BelowTop
<1> HIDE DEF w, n
<1>5. Len(st) = n + 1 /\ st[n + 1] = h /\ \A k \in 1..n : st[k] = w[k]
  BY <1>1, <1>2, <1>3
<1> HIDE DEF st
<1>6. \A k \in 1..n : Pair(st[k]) = Pair(stack[k])
  BY <1>1, <1>2, <1>5
<1>7. Active(stack) \cup {Pair(h)} \subseteq Active(st)
  <2>1. n + 1 \in 1..(n + 1) /\ \A k \in 1..n : k \in 1..(n + 1)
    BY <1>1
  <2> QED
    BY <1>5, <1>6, <2>1 DEF Active, n
<1>8. SoundRecords(more, st)
  BY <1>7 DEF SoundRecords
<1>9. \A k \in 1..(n + 1) : k \in 1..n \/ k = n + 1
  BY <1>1
<1>10. \A k \in 1..(n + 1) : SoundFrame(more, st[k])
  BY <1>2, <1>4, <1>5, <1>9
<1>11. \A k \in 1..n : Waiting(more, st[k])
  <2>1. \A k \in 1..n : k = n \/ k < n
    BY <1>1
  <2> QED
    BY <1>2, <1>4, <1>5, <2>1
<1>12. (n + 1) - 1 = n
  BY <1>1
<1>13. SoundStack(more, st)
  BY <1>5, <1>8, <1>10, <1>11, <1>12 DEF SoundStack
<1> QED
  BY <1>13 DEF st, w

(* The innermost activation is over. *)
LEMMA SoundPop ==
  ASSUME mod \in Modules, GoodRecords(allResults), GoodStack(stack), Len(stack) > 1,
         SoundStack(allResults, stack), NEW more, GoodRecords(more), Grown(allResults, more),
         NEW g, Pair(g) = Pair(stack[Len(stack) - 1]), SoundFrame(more, g), Here(g),
         \A q \in DOMAIN more : q \notin Active(stack) \/ q = Pair(Top) =>
           SoundRecord(more, q, more[q])
  PROVE  SoundStack(more, Append(SubSeq(stack, 1, Len(stack) - 2), g))
<1> DEFINE w == SubSeq(stack, 1, Len(stack) - 2)
           st == Append(w, g)
           n == Len(stack)
<1>1. n \in Nat /\ n > 1 /\ Top = stack[n] /\ stack \in Seq(FrameSet)
  BY DEF Top, GoodStack
<1>2. \A k \in 1..n : SoundFrame(more, stack[k]) /\ (k < n => Waiting(more, stack[k]))
  BY BelowTop
<1> HIDE DEF n
<1>3. w = [k \in 1..(n - 2) |-> stack[k]] /\ n - 2 \in Nat
  BY <1>1 DEF n
<1> HIDE DEF w
<1>4. Len(st) = n - 1 /\ st[n - 1] = g /\ \A k \in 1..(n - 2) : st[k] = stack[k]
  BY <1>1, <1>3
<1> HIDE DEF st
<1>5. \A k \in 1..(n - 1) : k \in 1..n /\ k < n /\ (k \in 1..(n - 2) \/ k = n - 1)
  BY <1>1
<1>6. \A k \in 1..(n - 1) : Pair(st[k]) = Pair(stack[k])
  BY <1>4, <1>5 DEF n
<1>7. \A k \in 1..n : k \in 1..(n - 1) \/ k = n
  BY <1>1
<1>8. Active(stack) \subseteq Active(st) \cup {Pair(Top)}
  BY <1>1, <1>4, <1>6, <1>7 DEF Active, n
<1>9. SoundRecords(more, st)
  BY <1>8 DEF SoundRecords
<1>10. \A k \in 1..(n - 1) : SoundFrame(more, st[k])
  BY <1>2, <1>4, <1>5
<1>11. \A k \in 1..(n - 2) : Waiting(more, st[k])
  <2>1. \A k \in 1..(n - 2) : k \in 1..n /\ k < n
    BY <1>1
  <2> QED
    BY <1>2, <1>4, <2>1
<1>12. (n - 1) - 1 = n - 2
  BY <1>1
<1>13. SoundStack(more, st)
  BY <1>4, <1>9, <1>10, <1>11, <1>12 DEF SoundStack
<1> QED
  BY <1>13 DEF st, w

-----------------------------------------------------------------------------
(* The actions. *)
LEMMA StackSound ==
  ASSUME IInv, SoundStack(allResults, stack), UNCHANGED allResults, stack # << >>,
         NEW g, Pair(g) = Pair(Top), SoundFrame(allResults, g), Here(g), stack' = WithTop(g)
  PROVE  SoundStack(allResults', stack')
<1>1. mod \in Modules /\ GoodRecords(allResults) /\ GoodStack(stack)
  BY DEF IInv
<1>2. Grown(allResults, allResults) /\ SoundRecords(allResults, stack)
  BY <1>1, GrownSelf DEF SoundStack
<1>3. SoundStack(allResults, WithTop(g))
  BY <1>1, <1>2, SoundTop
<1> QED
  BY <1>3

LEMMA TopSound ==
  ASSUME IInv, SoundStack(allResults, stack), stack # << >>
  PROVE  /\ mod \in Modules /\ FrameInv(Top) /\ Top \in FrameSet
         /\ SoundFrame(allResults, Top) /\ Here(Top)
<1>1. mod \in Modules /\ GoodStack(stack)
  BY DEF IInv
<1>2. /\ Len(stack) \in 1..Len(stack) /\ Top = stack[Len(stack)]
      /\ FrameInv(Top) /\ Top \in FrameSet
  BY <1>1, TopIs DEF Top
<1> QED
  BY <1>1, <1>2 DEF SoundStack

LEMMA TakeBlockSound ==
  ASSUME IInv, SoundStack(allResults, stack), TakeBlock
  PROVE  SoundStack(allResults', stack')
<1> DEFINE b == Head(Top.work)
           x == Exit(Top.fn, b).id
           r == Touch(Touch(Top.results, b, Empty), x, Empty)
           g == [Top EXCEPT !.work = Tail(@), !.inList = @ \ {b},
                            !.bb = b, !.toMerge = Preds(Top.fn, b), !.pc = 0,
                            !.results = r, !.state = r[b],
                            !.oldEntryState = r[b], !.oldExitState = r[x]]
<1>1. /\ stack # << >> /\ Top.bb = NoBlock /\ Top.work # << >>
      /\ stack' = WithTop(g) /\ UNCHANGED allResults
  BY DEF TakeBlock
<1>2. mod \in Modules /\ FrameInv(Top) /\ Top \in FrameSet /\ SoundFrame(allResults, Top)
  BY <1>1, TopSound
<1>3. /\ g.context = Top.context /\ g.fn = Top.fn /\ g.results = r /\ g.work = Tail(Top.work)
      /\ g.bb = b /\ g.pc = 0 /\ g.state = r[b] /\ g.oldExitState = r[x]
  <2> HIDE DEF r, x, b
  <2> QED
    BY <1>2 DEF FrameSet
<1> HIDE DEF g
<1>4. SoundFrame(allResults, g) /\ Here(g)
  BY <1>1, <1>2, <1>3, TakeSound
<1>5. Pair(g) = Pair(Top)
  BY <1>3 DEF Pair
<1> QED
  BY <1>1, <1>4, <1>5, StackSound

LEMMA MergePredecessorSound ==
  ASSUME IInv, SoundStack(allResults, stack), NEW p, MergePredecessor(p)
  PROVE  SoundStack(allResults', stack')
<1> DEFINE s == Merge(Top.state, Get(Top.results, Exit(Top.fn, p).id, Empty))
           g == [Top EXCEPT !.toMerge = @ \ {p},
                            !.state = Merge(@, Get(Top.results, Exit(Top.fn, p).id, Empty))]
<1>1. /\ stack # << >> /\ p \in Top.toMerge /\ stack' = WithTop(g) /\ UNCHANGED allResults
  BY DEF MergePredecessor
<1>2. mod \in Modules /\ FrameInv(Top) /\ Top \in FrameSet /\ SoundFrame(allResults, Top)
  BY <1>1, TopSound
<1>3. /\ g.context = Top.context /\ g.fn = Top.fn /\ g.results = Top.results
      /\ g.work = Top.work /\ g.bb = Top.bb /\ g.pc = Top.pc
      /\ g.oldExitState = Top.oldExitState /\ g.state = s
  BY <1>2 DEF FrameSet
<1> HIDE DEF g
<1>4. SoundFrame(allResults, g) /\ Here(g)
  BY <1>1, <1>2, <1>3, MergeSound
<1>5. Pair(g) = Pair(Top)
  BY <1>3 DEF Pair
<1> QED
  BY <1>1, <1>4, <1>5, StackSound

LEMMA EnterBlockSound ==
  ASSUME IInv, SoundStack(allResults, stack), EnterBlock
  PROVE  SoundStack(allResults', stack')
<1> DEFINE r == Touch(Top.results, Top.fn, Empty)
           s == Entered(Top)
           u == Set(r, Top.bb, s)
           g == [Top EXCEPT !.bb = NoBlock, !.results = r]
           h == [Top EXCEPT !.pc = 1, !.state = s, !.results = u]
           k == IF SameEntry(Top) THEN g ELSE h
<1>1. /\ stack # << >> /\ Top.bb # NoBlock /\ Top.pc = 0 /\ Top.toMerge = {}
      /\ stack' = WithTop(k) /\ UNCHANGED allResults
  BY DEF EnterBlock
<1>2. mod \in Modules /\ FrameInv(Top) /\ Top \in FrameSet /\ SoundFrame(allResults, Top)
  BY <1>1, TopSound
<1>3. /\ g.context = Top.context /\ g.fn = Top.fn /\ g.work = Top.work /\ g.pc = Top.pc
      /\ g.oldExitState = Top.oldExitState /\ g.bb = NoBlock /\ g.results = r
      /\ g.state = Top.state
      /\ h.context = Top.context /\ h.fn = Top.fn /\ h.work = Top.work /\ h.pc = 1
      /\ h.oldExitState = Top.oldExitState /\ h.bb = Top.bb /\ h.results = u /\ h.state = s
  <2> HIDE DEF r, s, u
  <2> QED
    BY <1>2 DEF FrameSet
<1> HIDE DEF g, h
<1>4. SameEntry(Top) => SoundFrame(allResults, g) /\ Here(g)
  BY <1>1, <1>2, <1>3, EnterSound
<1>5. SoundFrame(allResults, h) /\ Here(h)
  BY <1>1, <1>2, <1>3, EnterSound
<1>6. Pair(k) = Pair(Top) /\ SoundFrame(allResults, k) /\ Here(k)
  BY <1>3, <1>4, <1>5 DEF Pair
<1> HIDE DEF k
<1> QED
  BY <1>1, <1>6, StackSound

LEMMA LeaveBlockSound ==
  ASSUME IInv, SoundStack(allResults, stack), LeaveBlock
  PROVE  SoundStack(allResults', stack')
<1> DEFINE last == Exit(Top.fn, Top.bb)
           w == WithSuccessors(Top)
           r == IF last.op = "ret" THEN WithReturn(Top, last) ELSE Top.results
           g == [Top EXCEPT !.bb = NoBlock]
           h == [Top EXCEPT !.bb = NoBlock, !.work = WithSuccessors(Top),
                            !.results = IF last.op = "ret" THEN WithReturn(Top, last) ELSE @]
           k == IF Top.state = Top.oldExitState THEN g ELSE h
<1>1. /\ stack # << >> /\ Top.bb # NoBlock /\ Top.pc = Len(Code(Top.fn, Top.bb)) + 1
      /\ stack' = WithTop(k) /\ UNCHANGED allResults
  BY DEF LeaveBlock
<1>2. mod \in Modules /\ FrameInv(Top) /\ Top \in FrameSet /\ SoundFrame(allResults, Top)
  BY <1>1, TopSound
<1>3. /\ g.context = Top.context /\ g.fn = Top.fn /\ g.bb = NoBlock /\ g.results = Top.results
      /\ g.state = Top.state /\ g.work = Top.work
      /\ h.context = Top.context /\ h.fn = Top.fn /\ h.bb = NoBlock /\ h.results = r
      /\ h.state = Top.state /\ h.work = w
  <2> HIDE DEF last, w
  <2> QED
    BY <1>2 DEF FrameSet, w
<1>4. Range(Top.work) \subseteq Range(w)
  BY <1>1, <1>2, SuccessorsAdded DEF FrameInv, FrameOK
<1> HIDE DEF g, h, w
<1>5. Top.state = Top.oldExitState => SoundFrame(allResults, g) /\ Here(g)
  <2> HIDE DEF last
  <2> QED
    BY <1>1, <1>2, <1>3, LeaveSound DEF last
<1>6. SoundFrame(allResults, h) /\ Here(h)
  BY <1>1, <1>2, <1>3, <1>4, LeaveSound
<1>7. Pair(k) = Pair(Top) /\ SoundFrame(allResults, k) /\ Here(k)
  BY <1>3, <1>5, <1>6 DEF Pair
<1> HIDE DEF k
<1> QED
  BY <1>1, <1>7, StackSound

LEMMA TransferSound ==
  ASSUME IInv, Sane, SoundStack(allResults, stack), Transfer
  PROVE  SoundStack(allResults', stack')
<1> DEFINE i == Current
           s == applyTransfer(Top.fn, i, Top.state)
           g == After(Top, i, s)
           q == Pair(Top)
<1>1. /\ stack # << >> /\ Top.bb # NoBlock /\ Top.pc \in 1..Len(Code(Top.fn, Top.bb))
      /\ UNCHANGED allResults /\ i = Code(Top.fn, Top.bb)[Top.pc] /\ i.op # "call"
  BY DEF Transfer, AtInstruction, Current
<1>2. \/ stack' = stack
      \/ ~Faulty(s) /\ stack' = WithTop(g)
  BY DEF Transfer
<1>3. /\ mod \in Modules /\ FrameInv(Top) /\ Top \in FrameSet
      /\ SoundFrame(allResults, Top) /\ Here(Top)
  BY <1>1, TopSound
<1>4. CASE stack' = stack
  BY <1>1, <1>4
<1>5. CASE ~Faulty(s) /\ stack' = WithTop(g)
  <2>1. Top.fn \in DOMAIN mod.functions /\ Top.bb \in Blocks(Top.fn)
    BY <1>1, <1>3 DEF FrameInv, FrameOK
  <2>2. i \in Instructions(Top.fn) /\ Top.state \in State /\ Honest(Top.state)
    BY <1>1, <1>3, <2>1, AtIs, StatesAre DEF SoundFrame
  <2>3. Top.pc # 0 /\ Top.state = PointOf(Top)
    BY <1>1, <1>3 DEF Here
  <2>4. q \in Task /\ q[2] = Top.fn
    BY <1>3, PairIs
  <2> HIDE DEF i, q
  <2>5. Honest(s)
    BY <1>3, <1>5, <2>1, <2>2, AppliedHonest
  <2>6. Effect(allResults, q, i, PointOf(Top), s)
    <3>1. ExactOperations
      BY DEF Sane
    <3> QED
      BY <1>1, <1>3, <1>5, <2>2, <2>3, <2>4, <3>1, TransferEffect
  <2> HIDE DEF s
  <2>7. /\ g.context = Top.context /\ g.fn = Top.fn /\ g.work = Top.work /\ g.bb = Top.bb
        /\ g.pc = Top.pc + 1 /\ g.results = Set(Top.results, i.id, s) /\ g.state = s
        /\ g.oldExitState = Top.oldExitState
    BY <1>3, AfterIs
  <2> HIDE DEF g
  <2>8. SoundFrame(allResults, g) /\ Here(g)
    BY <1>1, <1>3, <2>5, <2>6, <2>7, AfterSound DEF q
  <2>9. Pair(g) = Pair(Top)
    BY <2>7 DEF Pair
  <2> QED
    BY <1>1, <1>5, <2>8, <2>9, StackSound
<1> QED
  BY <1>2, <1>4, <1>5

(* The steps that record. *)
LEMMA OutsideResumable ==
  ASSUME NEW all, NEW st, SoundRecords(all, st), NEW p, p \notin Active(st)
  PROVE  Resumable(all, p, Get(all, p, NoResults))
<1>1. CASE p \in DOMAIN all
  <2>1. SoundRecord(all, p, all[p]) /\ Get(all, p, NoResults) = all[p]
    BY <1>1 DEF SoundRecords, Get
  <2> QED
    BY <2>1, RecordResumable
<1>2. CASE p \notin DOMAIN all
  <2>1. Get(all, p, NoResults) = NoResults
    BY <1>2 DEF Get
  <2> QED
    BY <2>1, NothingResumable
<1> QED
  BY <1>1, <1>2

LEMMA TakeContextSound ==
  ASSUME IInv, GrowInv, Sane, SoundStack(allResults, stack), TakeContext
  PROVE  SoundStack(allResults', stack')
<1> DEFINE w == contextWork
           p == Head(w)
           old == Get(allResults, p, NoResults)
           h == Frame(p[1], p[2], old)
           all == Set(allResults, p, old)
<1>1. /\ mod \in Modules /\ GoodRecords(allResults) /\ w \in Seq(Task) /\ w # << >>
      /\ allResults' = all /\ stack' = <<h>> /\ stack = << >>
  BY DEF IInv, TakeContext
<1>2. p \in Task
  <2> HIDE DEF w
  <2> QED
    BY <1>1
<1>3. old \in Results /\ Settled(p[2], old)
  BY <1>1, RecordsGet
<1>4. Active(stack) = {}
  BY <1>1 DEF Active
<1>5. Resumable(allResults, p, old)
  BY <1>4, OutsideResumable DEF SoundStack
<1>6. Grown(allResults, all)
  BY <1>1, TakeContextGrows DEF Growing, Sane
<1> HIDE DEF p, old
<1>7. DOMAIN all = DOMAIN allResults \cup {p} /\ \A q \in DOMAIN allResults : q # p => all[q] = allResults[q]
  <2>1. all = Set(allResults, p, old)
    OBVIOUS
  <2> HIDE DEF all
  <2> QED
    BY <2>1 DEF Set
<1>8. GoodRecords(all)
  BY <1>1, <1>2, <1>3, RecordsSet
<1> HIDE DEF all
<1>9. Resumable(all, p, old)
  BY <1>1, <1>5, <1>6, <1>8, ResumableGrows
<1>10. SoundFrame(all, h) /\ Here(h)
  BY <1>1, <1>2, <1>3, <1>9, FreshSound
<1>11. Pair(h) = p
  BY <1>2 DEF Pair, Frame, Task
<1> HIDE DEF h
<1>12. Active(<<h>>) = {p}
  BY <1>11 DEF Active
<1>13. SoundRecords(all, <<h>>)
  <2> SUFFICES ASSUME NEW q \in DOMAIN all, q # p PROVE SoundRecord(all, q, all[q])
    BY <1>12 DEF SoundRecords
  <2>1. q \in DOMAIN allResults /\ all[q] = allResults[q]
    BY <1>7
  <2>2. SoundRecord(allResults, q, allResults[q])
    BY <1>4, <2>1 DEF SoundStack, SoundRecords
  <2> QED
    BY <1>1, <1>6, <1>8, <2>1, <2>2, RecordGrows
<1>14. SoundStack(all, <<h>>)
  BY <1>10, <1>13 DEF SoundStack
<1> QED
  BY <1>1, <1>14

LEMMA FinishContextSound ==
  ASSUME IInv, GrowInv, Sane, SoundStack(allResults, stack), FinishContext
  PROVE  SoundStack(allResults', stack')
<1> DEFINE q == Pair(Top)
           r == Top.results
           all == Set(allResults, q, r)
<1>1. /\ mod \in Modules /\ GoodRecords(allResults) /\ GoodStack(stack) /\ stack # << >>
      /\ Len(stack) = 1 /\ stack' = << >> /\ allResults' = all /\ Finished
      /\ Top.bb = NoBlock /\ Top.work = << >>
  BY DEF IInv, FinishContext, Finished, Recorded, Pair
<1>2. Grown(allResults, all)
  BY <1>1, FinishContextGrows DEF Growing, Sane
<1>3. GoodRecords(all)
  BY <1>1, RecordedIs DEF Recorded, Pair
<1>4. /\ DOMAIN all = DOMAIN allResults \cup {q} /\ all[q] = r
      /\ \A x \in DOMAIN allResults : x # q => all[x] = allResults[x]
  <2>1. all = Set(allResults, q, r)
    OBVIOUS
  <2> HIDE DEF all, q, r
  <2> QED
    BY <2>1 DEF Set
<1>5. Active(stack) = {q}
  BY <1>1 DEF Active, Top
<1> HIDE DEF q, r, all
<1>6. SoundRecord(all, q, r)
  <2>1. FrameInv(Top) /\ SoundFrame(allResults, Top)
    BY <1>1, TopSound
  <2>2. SoundRecord(allResults, q, r)
    BY <1>1, <2>1, FinishedSound DEF q, r
  <2> QED
    BY <1>1, <1>2, <1>3, <2>2, RecordGrows
<1>7. SoundRecords(all, << >>)
  <2> SUFFICES ASSUME NEW x \in DOMAIN all, x # q PROVE SoundRecord(all, x, all[x])
    BY <1>4, <1>6 DEF SoundRecords
  <2>1. x \in DOMAIN allResults /\ all[x] = allResults[x]
    BY <1>4
  <2>2. SoundRecord(allResults, x, allResults[x])
    BY <1>5, <2>1 DEF SoundStack, SoundRecords
  <2> QED
    BY <1>1, <1>2, <1>3, <2>1, <2>2, RecordGrows
<1>8. SoundStack(all, << >>)
  BY <1>7 DEF SoundStack
<1> QED
  BY <1>1, <1>8

LEMMA FinishCallSound ==
  ASSUME IInv, GrowInv, Sane, SoundStack(allResults, stack), FinishCall
  PROVE  SoundStack(allResults', stack')
<1> DEFINE n == Len(stack)
           fr == stack[Len(stack) - 1]
           i == Site(fr)
           q == Pair(Top)
           r == Top.results
           all == Set(allResults, q, r)
           c == Complete(fr, i, all)
<1>1. /\ mod \in Modules /\ GoodStack(stack) /\ GoodRecords(allResults)
      /\ NoRecursion /\ NoConstantReturned /\ ExactOperations
      /\ Finished /\ n > 1 /\ stack # << >> /\ Recorded = all
      /\ Top.bb = NoBlock /\ Top.work = << >>
      /\ allResults' = c.all
      /\ stack' = Append(SubSeq(stack, 1, Len(stack) - 2), c.frame)
  BY DEF IInv, FinishCall, Finished, Recorded, Pair, Site, Sane
<1>2. GrowStack(allResults, stack)
  BY <1>1 DEF GrowInv
<1>3. /\ n \in Nat /\ Top = stack[n] /\ n - 1 \in 1..n /\ n \in 1..n /\ n - 1 \in 1..(n - 1)
      /\ \A k \in 1..n : FrameInv(stack[k])
  BY <1>1, TopIs DEF Top
<1>4. FrameInv(fr) /\ Calling(fr)
  BY <1>1, <1>3 DEF GoodStack
<1>5. q = ToCall(fr, i)
  <2>1. \A k \in 1..(n - 1) : ToCall(stack[k], Site(stack[k])) = Pair(stack[k + 1])
    BY <1>2 DEF GrowStack, Linked
  <2>2. ToCall(fr, Site(fr)) = Pair(stack[n - 1 + 1])
    BY <1>3, <2>1
  <2>3. n - 1 + 1 = n
    BY <1>3
  <2> QED
    BY <1>3, <1>4, <2>2, <2>3
<1>6. Remembers(allResults, Top)
  BY <1>2, <1>3 DEF GrowStack
<1>7. Grown(allResults, all) /\ GoodRecords(all)
  BY <1>1, <1>6, RecordedGrows, RecordedIs
<1> HIDE DEF q, r
<1>8. /\ DOMAIN all = DOMAIN allResults \cup {q} /\ all[q] = r
      /\ \A x \in DOMAIN allResults : x # q => all[x] = allResults[x]
  <2>1. all = Set(allResults, q, r)
    OBVIOUS
  <2> HIDE DEF all
  <2> QED
    BY <2>1 DEF Set
<1> HIDE DEF all
<1>9. SoundRecord(all, q, all[q])
  <2>1. FrameInv(Top) /\ SoundFrame(allResults, Top)
    BY <1>1, TopSound
  <2>2. SoundRecord(allResults, q, r)
    BY <1>1, <2>1, FinishedSound DEF q, r
  <2> QED
    BY <1>1, <1>7, <1>8, <2>2, RecordGrows
<1>10. SoundFrame(all, fr) /\ Waiting(all, fr)
  <2>1. \A k \in 1..Len(stack) : SoundFrame(all, stack[k]) /\ (k < Len(stack) => Waiting(all, stack[k]))
    BY <1>1, <1>7, BelowTop
  <2>2. Len(stack) - 1 \in 1..Len(stack) /\ Len(stack) - 1 < Len(stack)
    BY <1>3
  <2> QED
    BY <2>1, <2>2
<1>11. FrameInv(c.frame) /\ GoodRecords(c.all)
  BY <1>1, <1>4, <1>7, CompleteIs DEF Site
<1>12. Grown(all, c.all)
  BY <1>1, <1>4, <1>7, CompleteGrows
<1> HIDE DEF fr, i
<1>13. /\ SoundFrame(c.all, c.frame) /\ Here(c.frame) /\ Pair(c.frame) = Pair(fr)
       /\ SoundRecord(c.all, q, c.all[q])
       /\ \A x \in DOMAIN c.all : x # q => x \in DOMAIN all /\ c.all[x] = all[x]
  BY <1>1, <1>4, <1>5, <1>7, <1>9, <1>10, CompleteSound DEF i
<1> HIDE DEF c
<1>14. Grown(allResults, c.all)
  BY <1>1, <1>7, <1>11, <1>12, GrownIn
<1>15. ASSUME NEW x \in DOMAIN c.all, x \notin Active(stack) \/ x = q
       PROVE  SoundRecord(c.all, x, c.all[x])
  <2>1. CASE x = q
    BY <1>13, <2>1
  <2>2. CASE x # q
    <3>1. x \in DOMAIN allResults /\ c.all[x] = allResults[x]
      BY <1>8, <1>13, <2>2
    <3>2. SoundRecord(allResults, x, allResults[x])
      BY <1>15, <2>2, <3>1 DEF SoundStack, SoundRecords
    <3> QED
      BY <1>1, <1>11, <1>14, <3>1, <3>2, RecordGrows
  <2> QED
    BY <2>1, <2>2
<1>16. SoundStack(c.all, Append(SubSeq(stack, 1, Len(stack) - 2), c.frame))
  BY <1>1, <1>11, <1>13, <1>14, <1>15, SoundPop DEF fr, q
<1> QED
  BY <1>1, <1>16

LEMMA CallSound ==
  ASSUME IInv, GrowInv, Sane, SoundStack(allResults, stack), Call
  PROVE  SoundStack(allResults', stack')
<1> DEFINE i == Current
           p == ToCall(Top, i)
           s == OperandStates(Top.fn, i.args, Top.state)[Len(i.args)]
           summary == Summary(allResults, p)
           a == Arguments(i, s, summary)
           v == WithArguments(summary, a)
           all == WithSummary(allResults, p, v)
           fr == [Top EXCEPT !.state = s]
           c == Complete(fr, i, all)
           h == Frame(p[1], p[2], all[p])
           old == Get(allResults, p, NoResults)
<1>1. /\ mod \in Modules /\ GoodStack(stack) /\ GoodRecords(allResults)
      /\ NoRecursion /\ NoConstantReturned /\ ExactOperations
  BY DEF IInv, Sane
<1>2. /\ stack # << >> /\ Calling(Top) /\ i = Site(Top) /\ i.op = "call"
  BY DEF Call, AtInstruction, Current, Calling, Site
<1>3. \/ UNCHANGED <<allResults, stack>>
      \/ /\ ~Faulty(s)
         /\ \/ /\ allResults' = all
               /\ stack' = Append(WithTop(fr), h)
            \/ /\ ~(NeedsUpdate(summary, a) /\ p \notin active)
               /\ allResults' = c.all
               /\ stack' = WithTop(c.frame)
  BY DEF Call
<1>4. /\ FrameInv(Top) /\ Len(stack) > 0 /\ Len(stack) \in Nat
      /\ SoundFrame(allResults, Top) /\ Here(Top)
  BY <1>1, <1>2, TopIs, TopSound
<1>5. CASE UNCHANGED <<allResults, stack>>
  BY <1>5
<1>6. CASE ~Faulty(s) /\ ~UNCHANGED <<allResults, stack>>
  <2>1. GrowStack(allResults, stack)
    BY <1>1 DEF GrowInv
  <2>2. /\ Top \in FrameSet /\ Top.fn \in DOMAIN mod.functions /\ i \in Instructions(Top.fn)
        /\ i.args \in Seq(Value) /\ i.callee \in DOMAIN mod.functions
    BY <1>1, <1>2, <1>4, CallsSite, InstructionIs DEF FrameInv, FrameOK, Instruction
  <2>3. HonestResults(Top.results)
    BY <1>4 DEF SoundFrame
  <2>4. Top.state = PointOf(Top) /\ PointOf(Top) \in State /\ Honest(PointOf(Top))
    BY <1>2, <1>4, <2>2, <2>3, PointIs DEF Here, Calling
  <2>5. \A j \in 1..Len(stack) : Pair(stack[j]) # p
    <3>1. \A j \in 1..Len(stack) : stack[j].fn # i.callee
      BY <1>1, <1>2, <2>1, StackApart DEF GrowStack, Top
    <3> QED
      BY <3>1 DEF Pair, ToCall
  <2>6. p \notin Active(stack) /\ p \notin active
    <3>1. DOMAIN stack = 1..Len(stack)
      BY <1>1 DEF GoodStack
    <3> QED
      BY <2>5, <3>1 DEF Active, active, Pair
  <2>7. s = Asked(Top.fn, i, PointOf(Top))
    BY <2>4 DEF Asked
  <2> HIDE DEF i, s
  <2>8. s \in Draft /\ Honest(s) /\ \A k \in 1..Len(i.args) : i.args[k] \in DOMAIN s
    BY <1>1, <2>2, <2>4, <2>7, AskedIs
  <2>9. s \in State
    BY <1>6, <2>8, SoundDraft
  <2>10. FrameInv(fr) /\ Calling(fr)
    BY <1>1, <1>2, <1>4, <2>9, CallingStep
  <2>11. /\ fr.fn = Top.fn /\ fr.bb = Top.bb /\ fr.pc = Top.pc /\ fr.context = Top.context
         /\ fr.results = Top.results /\ fr.work = Top.work /\ fr.oldExitState = Top.oldExitState
         /\ fr.state = s
    BY <2>2 DEF FrameSet
  <2> HIDE DEF fr
  <2>12. /\ i = Site(fr) /\ p = ToCall(fr, i) /\ PointOf(fr) = PointOf(Top) /\ Pair(fr) = Pair(Top)
    BY <1>2, <2>11 DEF ToCall, Site, PointOf, Pair
  <2>13. p \in Task /\ p[2] = i.callee
    <3>1. p \in Task
      BY <1>1, <2>10, <2>12, CompleteIs DEF Site
    <3> QED
      BY <3>1 DEF ToCall
  <2>14. old \in Results /\ summary \in State /\ summary = Get(old, p[2], Empty)
    BY <1>1, SummaryIs, RecordsGet DEF Summary
  <2>15. SoundRecords(allResults, stack)
    BY DEF SoundStack
  <2> HIDE DEF p
  <2>16. Resumable(allResults, p, old)
    BY <2>6, <2>15, OutsideResumable
  <2>17. Honest(summary)
    BY <2>14, <2>16, HonestGet DEF Resumable
  <2> HIDE DEF summary, old
  <2>18. v \in State /\ Included(summary, v)
    BY <1>1, <1>2, <2>2, <2>8, <2>9, <2>14, ArgumentsAre, ArgumentsGrow
  <2>19. /\ Covered(i, s, v) /\ Honest(v)
         /\ ~NeedsUpdate(summary, a) => \A k : Get(v, k, Unknown) = Get(summary, k, Unknown)
    BY <1>1, <1>2, <2>2, <2>8, <2>9, <2>14, <2>17, ToldCovers
  <2> HIDE DEF a, v
  <2>20. GoodRecords(all) /\ all[p] \in Results /\ p \in DOMAIN all
    BY <1>1, <2>13, <2>18, WithSummaryIs
  <2>21. Grown(allResults, all)
    BY <1>1, <2>13, <2>18, SummaryGrown DEF summary
  <2>22. /\ DOMAIN all = DOMAIN allResults \cup {p} /\ all[p] = Set(old, p[2], v)
         /\ \A q \in DOMAIN allResults : q # p => all[q] = allResults[q]
    <3> DEFINE t == Set(old, p[2], v)
    <3>1. all = Set(allResults, p, t)
      BY DEF WithSummary, old
    <3> HIDE DEF all, t
    <3>2. /\ DOMAIN all = DOMAIN allResults \cup {p} /\ all[p] = t
          /\ \A q \in DOMAIN allResults : q # p => all[q] = allResults[q]
      BY <3>1 DEF Set
    <3> QED
      BY <3>2 DEF t
  <2>23. Summary(all, p) = v
    <3>1. Summary(all, p) = Get(Set(old, p[2], v), p[2], Empty)
      BY <2>20, <2>22 DEF Summary, Get
    <3> QED
      BY <3>1, GetSet
  <2> HIDE DEF all
  <2>24. SoundFrame(all, fr)
    <3>1. SoundFrame(allResults, fr)
      BY <1>4, <2>8, <2>11, CallingSound
    <3> QED
      BY <1>1, <2>20, <2>21, <3>1, FrameGrows
  <2>25. Waiting(all, fr)
    BY <2>7, <2>11, <2>12, <2>19, <2>20, <2>23 DEF Waiting
  <2>26. ASSUME NEW q \in DOMAIN all, q \notin Active(stack), q # p PROVE SoundRecord(all, q, all[q])
    <3>1. SoundRecord(allResults, q, all[q])
      BY <2>15, <2>22, <2>26 DEF SoundRecords
    <3> QED
      BY <1>1, <2>20, <2>21, <3>1, RecordGrows
  <2>27. CASE allResults' = all /\ stack' = Append(WithTop(fr), h)
    <3>1. Resumable(all, p, all[p])
      <4>1. Resumable(allResults, p, all[p])
        BY <1>1, <2>13, <2>14, <2>16, <2>18, <2>19, <2>22, SummaryResumable
      <4> QED
        BY <1>1, <2>20, <2>21, <4>1, ResumableGrows
    <3>2. SoundFrame(all, h) /\ Here(h)
      BY <1>1, <2>13, <2>20, <3>1, FreshSound
    <3>3. Pair(h) = p
      BY <2>13 DEF Pair, Frame, Task
    <3> HIDE DEF h
    <3>4. SoundStack(all, Append(WithTop(fr), h))
      BY <1>1, <1>2, <2>12, <2>20, <2>21, <2>24, <2>25, <2>26, <3>2, <3>3, SoundPush
    <3> QED
      BY <2>27, <3>4
  <2>28. CASE /\ ~(NeedsUpdate(summary, a) /\ p \notin active)
              /\ allResults' = c.all /\ stack' = WithTop(c.frame)
    <3>1. ~NeedsUpdate(summary, a)
      BY <2>6, <2>28
    <3>2. SoundRecord(all, p, all[p])
      <4>1. DOMAIN summary # {}
        BY <3>1 DEF NeedsUpdate
      <4>2. p \in DOMAIN allResults
        <5>1. CASE p \notin DOMAIN allResults
          <6>1. summary = Empty
            BY <2>14, <5>1, EmptyIs DEF Get, old
          <6> QED
            BY <4>1, <6>1, EmptyIs
        <5> QED
          BY <5>1
      <4>3. SoundRecord(allResults, p, old)
        BY <2>6, <2>15, <4>2 DEF SoundRecords, old, Get
      <4>4. \A k : Get(v, k, Unknown) = Get(summary, k, Unknown)
        BY <2>19, <3>1
      <4>5. SoundRecord(allResults, p, all[p])
        BY <1>1, <2>13, <2>14, <2>18, <2>19, <2>22, <4>3, <4>4, SameRecord
      <4> QED
        BY <1>1, <2>20, <2>21, <4>5, RecordGrows
    <3>3. GoodRecords(c.all)
      BY <1>1, <2>10, <2>12, <2>20, CompleteIs DEF Site
    <3>4. Grown(all, c.all)
      BY <1>1, <2>10, <2>12, <2>20, CompleteGrows
    <3>5. /\ SoundFrame(c.all, c.frame) /\ Here(c.frame) /\ Pair(c.frame) = Pair(fr)
          /\ SoundRecord(c.all, p, c.all[p])
          /\ \A q \in DOMAIN c.all : q # p => q \in DOMAIN all /\ c.all[q] = all[q]
      BY <1>1, <2>10, <2>12, <2>20, <2>24, <2>25, <3>2, CompleteSound
    <3> HIDE DEF c
    <3>6. Grown(allResults, c.all)
      BY <1>1, <2>20, <2>21, <3>3, <3>4, GrownIn
    <3>7. SoundRecords(c.all, stack)
      <4> SUFFICES ASSUME NEW q \in DOMAIN c.all, q \notin Active(stack)
                   PROVE  SoundRecord(c.all, q, c.all[q])
        BY DEF SoundRecords
      <4>1. CASE q = p
        BY <3>5, <4>1
      <4>2. CASE q # p
        <5>1. SoundRecord(all, q, c.all[q])
          BY <2>26, <3>5, <4>2
        <5> QED
          BY <1>1, <2>20, <3>3, <3>4, <5>1, RecordGrows
      <4> QED
        BY <4>1, <4>2
    <3>8. SoundStack(c.all, WithTop(c.frame))
      BY <1>1, <1>2, <2>12, <3>3, <3>5, <3>6, <3>7, SoundTop
    <3> QED
      BY <2>28, <3>8
  <2> QED
    BY <1>3, <1>6, <2>27, <2>28
<1> QED
  BY <1>3, <1>5, <1>6

(* The program does not change, nor what it reaches. *)
LEMMA ModAsks ==
  ASSUME mod' = mod, NEW f, NEW args, NEW s
  PROVE  OperandStates(f, args, s)' = OperandStates(f, args, s)
<1>1. \A g : Fn(g)' = Fn(g)
  BY DEF Fn
<1>2. /\ \A g : Blocks(g)' = Blocks(g)
      /\ \A g, b : Code(g, b)' = Code(g, b)
  BY <1>1 DEF Blocks, Code
<1>3. Instructions(f)' = Instructions(f)
  BY <1>2 DEF Instructions
<1>4. \A v, t : transferOperand(f, v, t)' = transferOperand(f, v, t)
  BY <1>3 DEF transferOperand
<1>5. \A v, t : WithOperand(f, v, t)' = WithOperand(f, v, t)
  BY <1>4 DEF WithOperand
<1> QED
  BY <1>5 DEF OperandStates

LEMMA ModReaches ==
  ASSUME mod' = mod
  PROVE  /\ Reached' = Reached /\ (ExactOperations' <=> ExactOperations)
         /\ (NoConstantReturned' <=> NoConstantReturned) /\ (NoRecursion' <=> NoRecursion)
         /\ \A f : Blocks(f)' = Blocks(f)
         /\ \A f, b : Code(f, b)' = Code(f, b)
         /\ \A f, b : Exit(f, b)' = Exit(f, b)
         /\ \A f : Params(f)' = Params(f)
         /\ \A x : At(x)' = At(x)
         /\ \A x : Ready(x)' <=> Ready(x)
         /\ \A x : Computed(x)' = Computed(x)
         /\ \A x, i : Passed(x, i)' = Passed(x, i)
         /\ \A x, z : Returns(x, z)' <=> Returns(x, z)
         /\ \A x, z : Handed(x, z)' = Handed(x, z)
<1>1. \A f : Fn(f)' = Fn(f)
  BY DEF Fn
<1>2. /\ \A f : Blocks(f)' = Blocks(f)
      /\ \A f, b : Code(f, b)' = Code(f, b)
      /\ \A f, b : Succs(f, b)' = Succs(f, b)
      /\ \A f : Params(f)' = Params(f)
  BY <1>1 DEF Blocks, Code, Succs, Params
<1>3. /\ \A f, b : Exit(f, b)' = Exit(f, b)
      /\ \A f : Instructions(f)' = Instructions(f)
      /\ \A x : At(x)' = At(x)
  BY <1>2 DEF Exit, Instructions, At
<1>4. /\ \A x : Ready(x)' <=> Ready(x)
      /\ \A x : Computed(x)' = Computed(x)
  BY <1>3 DEF Ready, Computed
<1>5. \A f, v : Position(f, v)' = Position(f, v)
  BY <1>2 DEF Position
<1>6. \A x, i : Passed(x, i)' = Passed(x, i)
  BY <1>2, <1>5 DEF Passed
<1>7. \A x, z : Returns(x, z)' <=> Returns(x, z)
  BY <1>3, <1>4, <1>6 DEF Returns
<1>8. \A x, z : Handed(x, z)' = Handed(x, z)
  BY <1>3 DEF Handed
<1>9. \A f, e : Begun(f, e)' = Begun(f, e)
  BY <1>1 DEF Begun
<1>10. Universe' = Universe
  BY <1>2 DEF Universe
<1>11. \A S : Closed(S)' <=> Closed(S)
  BY <1>2, <1>3, <1>4, <1>7, <1>8, <1>9 DEF Closed
<1>12. Reached' = Reached
  BY <1>10, <1>11 DEF Reached
<1>13. /\ (ExactOperations' <=> ExactOperations) /\ (NoConstantReturned' <=> NoConstantReturned)
  BY <1>3 DEF ExactOperations, NoConstantReturned
<1>14. NoRecursion' <=> NoRecursion
  BY <1>3 DEF NoRecursion, Calls
<1> QED
  BY <1>2, <1>3, <1>4, <1>6, <1>7, <1>8, <1>12, <1>13, <1>14

LEMMA ModSound ==
  ASSUME mod' = mod
  PROVE  /\ Sane' <=> Sane
         /\ \A all, q, r : SoundRecord(all, q, r)' <=> SoundRecord(all, q, r)
         /\ \A all, st : SoundStack(all, st)' <=> SoundStack(all, st)
<1>1. /\ Reached' = Reached /\ (ExactOperations' <=> ExactOperations)
      /\ (NoConstantReturned' <=> NoConstantReturned) /\ (NoRecursion' <=> NoRecursion)
  BY ModReaches
<1>2. /\ \A f : Blocks(f)' = Blocks(f)
      /\ \A f, b : Code(f, b)' = Code(f, b)
      /\ \A f, b : Exit(f, b)' = Exit(f, b)
      /\ \A f : Params(f)' = Params(f)
      /\ \A x : At(x)' = At(x)
  BY ModReaches
<1>3. /\ \A x : Ready(x)' <=> Ready(x)
      /\ \A x : Computed(x)' = Computed(x)
      /\ \A x, i : Passed(x, i)' = Passed(x, i)
      /\ \A x, z : Returns(x, z)' <=> Returns(x, z)
      /\ \A x, z : Handed(x, z)' = Handed(x, z)
  BY ModReaches
<1>4. \A all, q, i, s, t : Effect(all, q, i, s, t)' <=> Effect(all, q, i, s, t)
  BY <1>1, <1>2, <1>3 DEF Effect
<1>5. \A r, f, b, j : PointState(r, f, b, j)' = PointState(r, f, b, j)
  BY <1>2 DEF PointState
<1>6. \A all, q, r, b, m : Through(all, q, r, b, m)' <=> Through(all, q, r, b, m)
  BY <1>2, <1>4, <1>5 DEF Through
<1>7. /\ \A f, r, s, b : Returning(f, r, s, b)' <=> Returning(f, r, s, b)
      /\ \A f, r, b : Admits(f, r, b)' <=> Admits(f, r, b)
      /\ \A r, f, b : ExitState(r, f, b)' = ExitState(r, f, b)
  BY <1>2 DEF Returning, Admits, ExitState
<1>8. \A all, q, r : SoundRecord(all, q, r)' <=> SoundRecord(all, q, r)
  BY <1>2, <1>6, <1>7 DEF SoundRecord
<1>9. \A fr, b : ExitOf(fr, b)' = ExitOf(fr, b)
  BY <1>7 DEF ExitOf
<1>10. \A all, fr : SoundFrame(all, fr)' <=> SoundFrame(all, fr)
  BY <1>2, <1>6, <1>7, <1>9 DEF SoundFrame
<1>11. /\ \A fr : PointOf(fr)' = PointOf(fr)
       /\ \A fr : Here(fr)' <=> Here(fr)
  BY <1>5 DEF PointOf, Here
<1>12. \A f, i, s : Asked(f, i, s)' = Asked(f, i, s)
  <2>1. \A f, args, s : OperandStates(f, args, s)' = OperandStates(f, args, s)
    BY ModAsks
  <2> QED
    BY <2>1 DEF Asked
<1>13. \A f, v : Position(f, v)' = Position(f, v)
  BY <1>2 DEF Position
<1>14. \A i, u, s : Covered(i, u, s)' <=> Covered(i, u, s)
  BY <1>2, <1>13 DEF Covered
<1>15. \A all, fr : Waiting(all, fr)' <=> Waiting(all, fr)
  BY <1>2, <1>11, <1>12, <1>14 DEF Waiting, Site
<1>16. \A all, st : SoundStack(all, st)' <=> SoundStack(all, st)
  BY <1>8, <1>10, <1>11, <1>15 DEF SoundStack, SoundRecords
<1>17. Sane' <=> Sane
  BY <1>1 DEF Sane
<1> QED
  BY <1>8, <1>16, <1>17

LEMMA NextSound ==
  ASSUME IInv, GrowInv, Sane, SoundStack(allResults, stack), [VNext]_allVars
  PROVE  SoundStack(allResults', stack')
<1>1. CASE Next
  <2>1. CASE TakeContext
    BY <2>1, TakeContextSound
  <2>2. CASE TakeBlock
    BY <2>2, TakeBlockSound
  <2>3. CASE EnterBlock
    BY <2>3, EnterBlockSound
  <2>4. CASE Transfer
    BY <2>4, TransferSound
  <2>5. CASE Call
    BY <2>5, CallSound
  <2>6. CASE LeaveBlock
    BY <2>6, LeaveBlockSound
  <2>7. CASE FinishContext
    BY <2>7, FinishContextSound
  <2>8. CASE FinishCall
    BY <2>8, FinishCallSound
  <2>9. CASE \E p \in Block : MergePredecessor(p)
    BY <2>9, MergePredecessorSound
  <2> QED
    BY <1>1, <2>1, <2>2, <2>3, <2>4, <2>5, <2>6, <2>7, <2>8, <2>9 DEF Next
<1>2. CASE UNCHANGED <<allResults, stack>>
  BY <1>2
<1>3. Next \/ UNCHANGED <<allResults, stack>>
  BY DEF VNext, Analyse, Terminating, valueRangeAnalysis, Execute, Start, Compute, Access, Branch,
     Invoke, Return, Stop, Moving, vars, allVars
<1> QED
  BY <1>1, <1>2, <1>3

(* What the main function is called with is analysed or waits to be. *)
Main   == <<[k \in 1..ContextSize |-> NoSite], mod.main>>
Rooted == Main \in DOMAIN allResults \cup Range(contextWork)

LEMMA HeadOrTail ==
  ASSUME NEW S, NEW w \in Seq(S), w # << >>
  PROVE  Range(w) \subseteq {Head(w)} \cup Range(Tail(w))
<1> SUFFICES ASSUME NEW k \in DOMAIN w, k # 1 PROVE w[k] \in Range(Tail(w))
  BY DEF Range
<1>1. k - 1 \in DOMAIN Tail(w) /\ Tail(w)[k - 1] = w[k]
  OBVIOUS
<1> QED
  BY <1>1 DEF Range

LEMMA RootedStays ==
  ASSUME IInv, GrowInv, NoRecursion, Rooted, [VNext]_allVars
  PROVE  Rooted'
<1>1. mod' = mod /\ contextWork \in Seq(Task) /\ contextWork' \in Seq(Task')
  <2>1. IInv'
    BY NextInv
  <2> QED
    BY <2>1 DEF IInv, VNext, Analyse, Next, TakeContext, TakeBlock, EnterBlock, Transfer, Call, LeaveBlock,
       FinishContext, FinishCall, MergePredecessor, Terminating, valueRangeAnalysis, Execute,
       Start, Compute, Access, Branch, Invoke, Return, Stop, Moving, vars, allVars
<1>2. Main' = Main /\ DOMAIN allResults \subseteq DOMAIN allResults'
  <2>1. Grown(allResults, allResults')
    BY NextGrows DEF Growing
  <2> QED
    BY <1>1, <2>1 DEF Main, Grown
<1> SUFFICES ASSUME Main \in Range(contextWork)
             PROVE  Main \in DOMAIN allResults' \cup Range(contextWork')
  BY <1>2 DEF Rooted
<1>3. CASE TakeContext
  <2> DEFINE p == Head(contextWork)
  <2>1. /\ contextWork # << >> /\ contextWork' = Tail(contextWork)
        /\ allResults' = Set(allResults, p, Get(allResults, p, NoResults))
    BY <1>3 DEF TakeContext
  <2>2. p \in DOMAIN allResults'
    BY <2>1 DEF Set
  <2>3. Range(contextWork) \subseteq {p} \cup Range(contextWork')
    BY <1>1, <2>1, HeadOrTail
  <2> QED
    BY <2>2, <2>3
<1>4. CASE contextWork' = contextWork
  BY <1>4
<1>5. CASE QueueCallers
  BY <1>5, QueueKept DEF IInv
<1>6. TakeContext \/ UNCHANGED contextWork \/ QueueCallers
  BY DEF VNext, Analyse, Next, TakeBlock, EnterBlock, Transfer, Call, LeaveBlock,
     FinishContext, FinishCall, MergePredecessor, Terminating, valueRangeAnalysis, Execute,
     Start, Compute, Access, Branch, Invoke, Return, Stop, Moving, vars, allVars
<1> QED
  BY <1>3, <1>4, <1>5, <1>6

SoundInv == Sane => SoundStack(allResults, stack) /\ Rooted

LEMMA InitSound == VInit => SoundInv
<1> SUFFICES ASSUME VInit PROVE SoundStack(allResults, stack) /\ Rooted
  BY DEF SoundInv
<1>1. stack = << >> /\ DOMAIN allResults = {} /\ contextWork = <<Main>>
  BY DEF VInit, Init, Main
<1>2. SoundStack(allResults, stack)
  BY <1>1 DEF SoundStack, SoundRecords
<1>3. Rooted
  <2> HIDE DEF Main
  <2> QED
    BY <1>1 DEF Rooted, Range
<1> QED
  BY <1>2, <1>3

LEMMA NextKeepsSound ==
  ASSUME IInv, GrowInv, SoundInv, [VNext]_allVars
  PROVE  SoundInv'
<1>1. mod' = mod
  BY DEF VNext, Analyse, Next, TakeContext, TakeBlock, EnterBlock, Transfer, Call, LeaveBlock,
     FinishContext, FinishCall, MergePredecessor, Terminating, valueRangeAnalysis, Execute,
     Start, Compute, Access, Branch, Invoke, Return, Stop, Moving, vars, allVars
<1>2. /\ Sane' <=> Sane
      /\ \A all, st : SoundStack(all, st)' <=> SoundStack(all, st)
  BY <1>1, ModSound
<1> SUFFICES ASSUME Sane PROVE SoundStack(allResults, stack)' /\ Rooted'
  BY <1>2 DEF SoundInv
<1>3. SoundStack(allResults', stack') /\ Rooted'
  BY NextSound, RootedStays DEF SoundInv, Sane
<1>4. SoundStack(allResults, stack)'
  BY <1>1, <1>3, ModSound
<1> QED
  BY <1>3, <1>4

-----------------------------------------------------------------------------
(* The program as it runs: every activation is at a point that is reached, with
   arguments that were told, and all but the innermost wait for the next. *)
RunSet == [context : Context, fn : DOMAIN mod.functions, bb : Block, pc : Nat,
           prev : Block \cup {NoBlock}, env : Env]
Follows(a, x) ==
  a.fn = x.fn /\ a.bb = x.bb /\ a.pc = x.pc /\ a.prev = x.prev /\ a.env = x.env
Told(all, a, x) ==
  Follows(a, x) /\ Pair(a) \in DOMAIN all /\ Fits(x.args, Summary(all, Pair(a)))
Invoked(x, z) ==
  /\ At(x).op = "call" /\ Ready(x)
  /\ z.fn = At(x).callee /\ z.args = Passed(x, At(x))
Tracks(all, r, P) ==
  /\ r \in Seq(RunSet) /\ P \in Seq(Reached) /\ Len(P) = Len(r)
  /\ \A k \in 1..Len(r) : Told(all, r[k], P[k])
  /\ \A k \in 1..(Len(r) - 1) : Invoked(P[k], P[k + 1])

Reported ==
  \A p \in DOMAIN allResults : \A at \in Points(p[2]) :
    LET i == InstructionAt(p[2], at)
    IN (i.op = "access" /\ i.id \in DOMAIN allResults[p] /\ Listed(i, getIncomingState(p, at)))
       => i.id \in unsafePtr
RunInv ==
  /\ phase \in {"reported", "running"} => stack = << >> /\ contextWork = << >> /\ Reported
  /\ phase # "running" => run = << >>
  /\ Plain /\ ExactOperations => \E P : Tracks(allResults, run, P)

LEMMA ModTracks ==
  ASSUME mod' = mod
  PROVE  \A all, r, P : Tracks(all, r, P)' <=> Tracks(all, r, P)
<1>1. RunSet' = RunSet /\ Reached' = Reached
  BY ModReaches DEF RunSet
<1>2. \A x, z : Invoked(x, z)' <=> Invoked(x, z)
  <2>1. /\ \A x : At(x)' = At(x)
        /\ \A x : Ready(x)' <=> Ready(x)
        /\ \A x, i : Passed(x, i)' = Passed(x, i)
    BY ModReaches
  <2> QED
    BY <2>1 DEF Invoked
<1> QED
  BY <1>1, <1>2 DEF Tracks

(* What was found holds of every activation. *)
LEMMA PointHolds ==
  ASSUME IInv, SoundInv, RunInv, Plain, ExactOperations, phase = "running",
         NEW P, Tracks(allResults, run, P), NEW k \in 1..Len(run)
  PROVE  LET p == Pair(run[k])
             x == P[k] IN
         /\ mod \in Modules /\ run[k] \in RunSet /\ x \in Reached /\ x \in Universe
         /\ Follows(run[k], x) /\ Fits(x.args, Summary(allResults, p))
         /\ p \in Task /\ p \in DOMAIN allResults /\ allResults[p] \in Results /\ p[2] = x.fn
         /\ SoundRecord(allResults, p, allResults[p])
         /\ Fits(x.env, PointState(allResults[p], p[2], x.bb, x.pc))
         /\ getIncomingState(p, <<x.bb, x.pc>>) = PointState(allResults[p], p[2], x.bb, x.pc)
<1> DEFINE p == Pair(run[k])
           x == P[k]
<1>1. /\ mod \in Modules /\ GoodRecords(allResults) /\ stack = << >>
      /\ Sane /\ SoundStack(allResults, stack)
  BY DEF IInv, RunInv, SoundInv, Plain, Sane, NoConstantReturned
<1>2. /\ run \in Seq(RunSet) /\ P \in Seq(Reached) /\ Len(P) = Len(run)
      /\ Told(allResults, run[k], P[k])
  BY DEF Tracks
<1>3. run[k] \in RunSet /\ x \in Reached
  BY <1>2
<1>4. x \in Universe
  BY <1>3 DEF Reached
<1>5. Follows(run[k], x) /\ p \in DOMAIN allResults /\ Fits(x.args, Summary(allResults, p))
  BY <1>2 DEF Told
<1>6. p[2] = x.fn
  BY <1>5 DEF Follows, Pair
<1>7. p \in Task /\ allResults[p] \in Results /\ Settled(p[2], allResults[p])
  BY <1>1, <1>5, MapIs DEF GoodRecords
<1>8. SoundRecord(allResults, p, allResults[p])
  <2>1. Active(stack) = {}
    BY <1>1 DEF Active
  <2> QED
    BY <1>1, <1>5, <2>1 DEF SoundStack, SoundRecords
<1>9. Summary(allResults, p) = Get(allResults[p], p[2], Empty)
  BY <1>5 DEF Summary, Get
<1>10. Fits(x.env, PointState(allResults[p], p[2], x.bb, x.pc))
  BY <1>1, <1>3, <1>5, <1>6, <1>7, <1>8, <1>9, RecordHolds
<1>11. getIncomingState(p, <<x.bb, x.pc>>) = PointState(allResults[p], p[2], x.bb, x.pc)
  <2>1. Get(allResults, p, NoResults) = allResults[p]
    BY <1>5 DEF Get
  <2> QED
    BY <2>1 DEF getIncomingState, PointKey, PointState, EntryState
<1> QED
  BY <1>1, <1>3, <1>4, <1>5, <1>6, <1>7, <1>8, <1>10, <1>11

(* The innermost activation goes on. *)
LEMMA TrackMove ==
  ASSUME NEW all, NEW r, r # << >>, NEW P, Tracks(all, r, P), NEW a \in RunSet, NEW y \in Reached,
         Follows(a, y), a.context = r[Len(r)].context,
         y.fn = P[Len(r)].fn, y.args = P[Len(r)].args
  PROVE  \E Q : Tracks(all, [r EXCEPT ![Len(r)] = a], Q)
<1> DEFINE n == Len(r)
           s == [r EXCEPT ![n] = a]
           Q == [P EXCEPT ![n] = y]
<1>1. /\ r \in Seq(RunSet) /\ P \in Seq(Reached) /\ Len(P) = n /\ n \in Nat /\ n > 0
      /\ \A k \in 1..n : Told(all, r[k], P[k])
      /\ \A k \in 1..(n - 1) : Invoked(P[k], P[k + 1])
  BY DEF Tracks
<1>2. /\ s \in Seq(RunSet) /\ Len(s) = n /\ s[n] = a
      /\ \A k \in 1..n : k # n => s[k] = r[k]
  BY <1>1
<1>3. /\ Q \in Seq(Reached) /\ Len(Q) = n /\ Q[n] = y
      /\ \A k \in 1..n : k # n => Q[k] = P[k]
  BY <1>1
<1> HIDE DEF s, Q
<1>4. Told(all, a, y)
  <2>1. Told(all, r[n], P[n])
    BY <1>1
  <2>2. Pair(a) = Pair(r[n])
    BY <2>1 DEF Pair, Told, Follows
  <2> QED
    BY <2>1, <2>2 DEF Told
<1>5. \A k \in 1..n : Told(all, s[k], Q[k])
  BY <1>1, <1>2, <1>3, <1>4
<1>6. ASSUME NEW k \in 1..(n - 1) PROVE Invoked(Q[k], Q[k + 1])
  <2>1. k \in 1..n /\ k # n /\ k + 1 \in 1..n
    BY <1>1
  <2>2. Q[k] = P[k] /\ Q[k + 1].fn = P[k + 1].fn /\ Q[k + 1].args = P[k + 1].args
    BY <1>3, <2>1
  <2>3. Invoked(P[k], P[k + 1])
    BY <1>1
  <2> QED
    BY <2>2, <2>3 DEF Invoked
<1>7. Tracks(all, s, Q)
  BY <1>2, <1>3, <1>5, <1>6 DEF Tracks
<1> QED
  BY <1>7 DEF s

LEMMA TrackPush ==
  ASSUME NEW all, NEW r, r # << >>, NEW P, Tracks(all, r, P), NEW a \in RunSet, NEW y \in Reached,
         Told(all, a, y), Invoked(P[Len(r)], y)
  PROVE  \E Q : Tracks(all, Append(r, a), Q)
<1> DEFINE n == Len(r)
           s == Append(r, a)
           Q == Append(P, y)
<1>1. /\ r \in Seq(RunSet) /\ P \in Seq(Reached) /\ Len(P) = n /\ n \in Nat /\ n > 0
      /\ \A k \in 1..n : Told(all, r[k], P[k])
      /\ \A k \in 1..(n - 1) : Invoked(P[k], P[k + 1])
  BY DEF Tracks
<1>2. /\ s \in Seq(RunSet) /\ Len(s) = n + 1 /\ s[n + 1] = a
      /\ \A k \in 1..n : s[k] = r[k]
  BY <1>1
<1>3. /\ Q \in Seq(Reached) /\ Len(Q) = n + 1 /\ Q[n + 1] = y
      /\ \A k \in 1..n : Q[k] = P[k]
  BY <1>1
<1> HIDE DEF s, Q
<1>4. \A k \in 1..(n + 1) : Told(all, s[k], Q[k])
  <2>1. \A k \in 1..(n + 1) : k \in 1..n \/ k = n + 1
    BY <1>1
  <2> QED
    BY <1>1, <1>2, <1>3, <2>1
<1>5. ASSUME NEW k \in 1..n PROVE Invoked(Q[k], Q[k + 1])
  <2>1. CASE k = n
    BY <1>1, <1>3, <2>1
  <2>2. CASE k # n
    <3>1. k \in 1..(n - 1) /\ k + 1 \in 1..n
      BY <1>1, <2>2
    <3> QED
      BY <1>1, <1>3, <3>1
  <2> QED
    BY <2>1, <2>2
<1>6. (n + 1) - 1 = n
  BY <1>1
<1>7. Tracks(all, s, Q)
  BY <1>2, <1>3, <1>4, <1>5, <1>6 DEF Tracks
<1> QED
  BY <1>7 DEF s

LEMMA TrackPop ==
  ASSUME NEW all, NEW r, NEW n \in Nat, n = Len(r), n > 1, NEW P, Tracks(all, r, P),
         NEW a \in RunSet, NEW y \in Reached, Follows(a, y), a.context = r[n - 1].context,
         y.fn = P[n - 1].fn, y.args = P[n - 1].args
  PROVE  \E Q : Tracks(all, Append(SubSeq(r, 1, n - 2), a), Q)
<1> DEFINE t == SubSeq(r, 1, n - 1)
           P1 == SubSeq(P, 1, n - 1)
           s == [t EXCEPT ![n - 1] = a]
<1>1. /\ r \in Seq(RunSet) /\ P \in Seq(Reached) /\ Len(P) = n
      /\ \A k \in 1..n : Told(all, r[k], P[k])
      /\ \A k \in 1..(n - 1) : Invoked(P[k], P[k + 1])
  BY DEF Tracks
<1>2. /\ t \in Seq(RunSet) /\ Len(t) = n - 1 /\ \A k \in 1..(n - 1) : t[k] = r[k]
      /\ P1 \in Seq(Reached) /\ Len(P1) = n - 1 /\ \A k \in 1..(n - 1) : P1[k] = P[k]
  BY <1>1
<1>3. s = Append(SubSeq(r, 1, n - 2), a)
  <2> DEFINE v == SubSeq(r, 1, n - 2)
             u == Append(v, a)
  <2>1. v \in Seq(RunSet) /\ Len(v) = n - 2 /\ \A k \in 1..(n - 2) : v[k] = r[k]
    BY <1>1
  <2> HIDE DEF v
  <2>2. /\ u \in Seq(RunSet) /\ Len(u) = n - 1 /\ u[n - 1] = a
        /\ \A k \in 1..(n - 2) : u[k] = r[k]
    BY <2>1
  <2> HIDE DEF u, t
  <2>3. /\ s \in Seq(RunSet) /\ Len(s) = n - 1 /\ s[n - 1] = a
        /\ \A k \in 1..(n - 2) : s[k] = r[k]
    BY <1>2
  <2> HIDE DEF s
  <2>4. \A k \in 1..(n - 1) : s[k] = u[k]
    <3>1. \A k \in 1..(n - 1) : k = n - 1 \/ k \in 1..(n - 2)
      OBVIOUS
    <3> QED
      BY <2>2, <2>3, <3>1
  <2>5. s = u
    BY <2>2, <2>3, <2>4
  <2> QED
    BY <2>5 DEF u, v
<1> HIDE DEF t, P1
<1>4. \A k \in 1..(n - 1) : Told(all, t[k], P1[k])
  <2>1. \A k \in 1..(n - 1) : k \in 1..n
    OBVIOUS
  <2> QED
    BY <1>1, <1>2, <2>1
<1>5. ASSUME NEW k \in 1..((n - 1) - 1) PROVE Invoked(P1[k], P1[k + 1])
  <2>1. k \in 1..(n - 1) /\ k + 1 \in 1..(n - 1)
    OBVIOUS
  <2> QED
    BY <1>1, <1>2, <2>1
<1>6. Tracks(all, t, P1)
  BY <1>2, <1>4, <1>5 DEF Tracks
<1>7. n - 1 \in 1..(n - 1) /\ t # << >>
  BY <1>2
<1>8. \E Q : Tracks(all, [t EXCEPT ![Len(t)] = a], Q)
  BY <1>2, <1>6, <1>7, TrackMove
<1> QED
  BY <1>2, <1>3, <1>8

LEMMA RunAhead ==
  ASSUME IInv, SoundInv, RunInv, Plain, ExactOperations, Running,
         NEW P, Tracks(allResults, run, P), NEW x, x = P[Len(run)]
  PROVE  /\ mod \in Modules /\ x \in Reached /\ x \in Universe
         /\ Now \in RunSet /\ Follows(Now, x) /\ Ahead = At(x) /\ Ready(x)
         /\ \A i : Outcomes(Now, i) = Outcomes(x, i)
         /\ \A v : Of(Now, v) = Val(x.env, v)
         /\ run # << >> /\ Len(run) \in Nat /\ Len(run) > 0 /\ Len(run) \in 1..Len(run)
<1>1. phase = "running" /\ run # << >> /\ Operands(Now, Ahead) \subseteq ConstantInt \cup DOMAIN Now.env
  BY DEF Running
<1>2. run \in Seq(RunSet)
  BY DEF Tracks
<1>3. Len(run) \in Nat /\ Len(run) > 0 /\ Len(run) \in 1..Len(run)
  BY <1>1, <1>2
<1>4. mod \in Modules /\ Now \in RunSet /\ x \in Reached /\ x \in Universe /\ Follows(Now, x)
  BY <1>1, <1>3, PointHolds DEF Now
<1>5. Ahead = At(x)
  BY <1>4 DEF Ahead, InstructionAt, At, Follows
<1>6. Ready(x)
  <2>1. Operands(x, At(x)) = Operands(Now, Ahead)
    BY <1>4, <1>5 DEF Operands, Follows
  <2> QED
    BY <1>1, <1>4, <2>1 DEF Ready, Follows
<1>7. \A v : Of(Now, v) = Val(x.env, v) /\ Of(Now, v) = Of(x, v)
  BY <1>4 DEF Of, Val, Follows
<1>8. \A i : Outcomes(Now, i) = Outcomes(x, i)
  BY <1>4, <1>7 DEF Outcomes, Follows
<1> QED
  BY <1>1, <1>3, <1>4, <1>5, <1>6, <1>7, <1>8

LEMMA SteppedIs ==
  ASSUME NEW a \in RunSet, NEW x \in Universe, Follows(a, x), NEW e \in Env,
         NEW y, y = Moved(x, e), y \in Universe
  PROVE  LET b == Step([a EXCEPT !.env = e]) IN
         b \in RunSet /\ Follows(b, y) /\ b.context = a.context
<1> DEFINE b == Step([a EXCEPT !.env = e])
<1>1. b = [context |-> a.context, fn |-> a.fn, bb |-> a.bb, pc |-> a.pc + 1, prev |-> a.prev,
           env |-> e]
  <2> DEFINE c == [a EXCEPT !.env = e]
  <2>1. c = [context |-> a.context, fn |-> a.fn, bb |-> a.bb, pc |-> a.pc, prev |-> a.prev,
             env |-> e]
    BY DEF RunSet
  <2> HIDE DEF c
  <2>2. [c EXCEPT !.pc = c.pc + 1] =
          [context |-> a.context, fn |-> a.fn, bb |-> a.bb, pc |-> a.pc + 1, prev |-> a.prev,
           env |-> e]
    BY <2>1
  <2> QED
    BY <2>2 DEF Step, c
<1>2. /\ y.fn = a.fn /\ y.bb = a.bb /\ y.pc = a.pc + 1 /\ y.prev = a.prev /\ y.env = e
  BY DEF Moved, Follows
<1> HIDE DEF b
<1>3. b \in RunSet
  BY <1>1 DEF RunSet
<1>4. Follows(b, y) /\ b.context = a.context
  BY <1>1, <1>2 DEF Follows
<1> QED
  BY <1>3, <1>4 DEF b

(* What a step of the program keeps: P follows it. *)
LEMMA ComputeTracked ==
  ASSUME IInv, SoundInv, RunInv, Plain, ExactOperations, Compute,
         NEW P, Tracks(allResults, run, P)
  PROVE  \E Q : Tracks(allResults, run', Q)
<1> DEFINE x == P[Len(run)]
<1>1. PICK z \in Outcomes(Now, Ahead) : run' = WithNow(Step(Assign(Now, Ahead.id, z)))
  BY DEF Compute
<1>2. Running /\ Ahead.op \notin {"call", "br", "ret", "access"}
  BY DEF Compute
<1>3. /\ mod \in Modules /\ x \in Reached /\ x \in Universe
      /\ Now \in RunSet /\ Follows(Now, x) /\ Ahead = At(x) /\ Ready(x)
      /\ Outcomes(Now, Ahead) = Outcomes(x, At(x)) /\ run # << >>
  BY <1>2, RunAhead
<1> HIDE DEF x
<1> DEFINE e == Set(x.env, At(x).id, z)
           y == Moved(x, e)
           a == Step([Now EXCEPT !.env = e])
<1>4. Step(Assign(Now, Ahead.id, z)) = a
  <2>1. Now.env = x.env
    BY <1>3 DEF Follows
  <2> QED
    BY <1>3, <2>1 DEF Assign
<1>5. e \in Computed(x)
  BY <1>1, <1>2, <1>3 DEF Computed
<1> HIDE DEF e
<1>6. e \in Env
  BY <1>2, <1>3, <1>5, ComputedIs
<1>7. y \in Reached
  BY <1>2, <1>3, <1>5, ReachedClosed DEF Closed
<1>8. y.fn = x.fn /\ y.args = x.args
  BY DEF Moved
<1> HIDE DEF y
<1>9. y \in Universe
  BY <1>7 DEF Reached
<1>10. a \in RunSet /\ Follows(a, y) /\ a.context = Now.context
  BY <1>3, <1>6, <1>9, SteppedIs DEF y
<1> HIDE DEF a
<1>11. run' = [run EXCEPT ![Len(run)] = a]
  BY <1>1, <1>4 DEF WithNow
<1> QED
  BY <1>3, <1>7, <1>8, <1>10, <1>11, TrackMove DEF Now, x

LEMMA AccessTracked ==
  ASSUME IInv, SoundInv, RunInv, Plain, ExactOperations, Access,
         NEW P, Tracks(allResults, run, P)
  PROVE  \E Q : Tracks(allResults, run', Q)
<1> DEFINE x == P[Len(run)]
           e == x.env
           y == Moved(x, e)
           a == Step([Now EXCEPT !.env = e])
<1>1. Running /\ Ahead.op = "access" /\ run' = WithNow(Step(Now))
  BY DEF Access
<1>2. /\ mod \in Modules /\ x \in Reached /\ x \in Universe
      /\ Now \in RunSet /\ Follows(Now, x) /\ Ahead = At(x) /\ Ready(x) /\ run # << >>
  BY <1>1, RunAhead
<1> HIDE DEF x
<1>3. Step(Now) = a
  <2>1. Now.env = e
    BY <1>2 DEF Follows
  <2>2. [Now EXCEPT !.env = e] = Now
    BY <1>2, <2>1 DEF RunSet
  <2> QED
    BY <2>2
<1>4. e \in Computed(x) /\ e \in Env
  BY <1>1, <1>2, UniverseIs DEF Computed
<1> HIDE DEF e
<1>5. y \in Reached
  BY <1>1, <1>2, <1>4, ReachedClosed DEF Closed
<1>6. y.fn = x.fn /\ y.args = x.args
  BY DEF Moved
<1> HIDE DEF y
<1>7. y \in Universe
  BY <1>5 DEF Reached
<1>8. a \in RunSet /\ Follows(a, y) /\ a.context = Now.context
  BY <1>2, <1>4, <1>7, SteppedIs DEF y
<1> HIDE DEF a
<1>9. run' = [run EXCEPT ![Len(run)] = a]
  BY <1>1, <1>3 DEF WithNow
<1> QED
  BY <1>2, <1>5, <1>6, <1>8, <1>9, TrackMove DEF Now, x

LEMMA BranchTracked ==
  ASSUME IInv, SoundInv, RunInv, Plain, ExactOperations, NEW b, Branch(b),
         NEW P, Tracks(allResults, run, P)
  PROVE  \E Q : Tracks(allResults, run', Q)
<1> DEFINE x == P[Len(run)]
           y == Jumped(x, b)
           a == [Now EXCEPT !.prev = Now.bb, !.bb = b, !.pc = 1]
<1>1. Running /\ Ahead.op = "br" /\ b \in Succs(Now.fn, Now.bb) /\ run' = WithNow(a)
  BY DEF Branch
<1>2. /\ mod \in Modules /\ x \in Reached /\ x \in Universe
      /\ Now \in RunSet /\ Follows(Now, x) /\ Ahead = At(x) /\ run # << >>
  BY <1>1, RunAhead
<1> HIDE DEF x
<1>3. b \in Succs(x.fn, x.bb)
  BY <1>1, <1>2 DEF Follows
<1>4. y \in Reached
  BY <1>1, <1>2, <1>3, ReachedClosed DEF Closed
<1>5. /\ y.fn = x.fn /\ y.args = x.args /\ y.bb = b /\ y.pc = 1 /\ y.prev = x.bb
      /\ y.env = x.env
  BY DEF Jumped
<1> HIDE DEF y
<1>6. y \in Universe
  BY <1>4 DEF Reached
<1>7. a = [context |-> Now.context, fn |-> Now.fn, bb |-> b, pc |-> 1, prev |-> Now.bb,
           env |-> Now.env]
  <2> DEFINE c == [Now EXCEPT !.prev = Now.bb]
             d == [c EXCEPT !.bb = b]
  <2>1. c = [context |-> Now.context, fn |-> Now.fn, bb |-> Now.bb, pc |-> Now.pc,
             prev |-> Now.bb, env |-> Now.env]
    BY <1>2 DEF RunSet
  <2> HIDE DEF c
  <2>2. d = [context |-> Now.context, fn |-> Now.fn, bb |-> b, pc |-> Now.pc,
             prev |-> Now.bb, env |-> Now.env]
    BY <2>1
  <2> HIDE DEF d
  <2>3. [d EXCEPT !.pc = 1] =
          [context |-> Now.context, fn |-> Now.fn, bb |-> b, pc |-> 1,
           prev |-> Now.bb, env |-> Now.env]
    BY <2>2
  <2> QED
    BY <2>3 DEF d, c
<1> HIDE DEF a
<1>8. a \in RunSet
  <2>1. b \in Block
    BY <1>5, <1>6 DEF Universe
  <2> QED
    BY <1>2, <1>7, <2>1 DEF RunSet
<1>9. Follows(a, y) /\ a.context = Now.context
  BY <1>2, <1>5, <1>7 DEF Follows
<1>10. run' = [run EXCEPT ![Len(run)] = a]
  BY <1>1 DEF WithNow
<1> QED
  BY <1>2, <1>4, <1>5, <1>8, <1>9, <1>10, TrackMove DEF Now, x

(* The record of an activation accounts for the instruction it is at. *)
LEMMA EffectHere ==
  ASSUME IInv, SoundInv, RunInv, Plain, ExactOperations, phase = "running",
         NEW P, Tracks(allResults, run, P), NEW k \in 1..Len(run)
  PROVE  LET p == Pair(run[k])
             x == P[k] IN
         /\ At(x).id \in DOMAIN allResults[p]
         /\ Effect(allResults, p, At(x), PointState(allResults[p], p[2], x.bb, x.pc),
                   Get(allResults[p], At(x).id, Empty))
<1> DEFINE p == Pair(run[k])
           x == P[k]
<1>1. /\ mod \in Modules /\ x \in Universe /\ p[2] = x.fn
      /\ SoundRecord(allResults, p, allResults[p])
  BY PointHolds
<1> HIDE DEF p, x
<1>2. x.bb \in Blocks(x.fn) /\ x.pc \in 1..Len(Code(x.fn, x.bb))
  BY <1>1, UniverseIs
<1>3. Through(allResults, p, allResults[p], x.bb, Len(Code(x.fn, x.bb)))
  BY <1>1, <1>2 DEF SoundRecord
<1> QED
  BY <1>1, <1>2, <1>3 DEF Through, At, p, x

LEMMA InvokeTracked ==
  ASSUME IInv, SoundInv, RunInv, Plain, ExactOperations, Invoke,
         NEW P, Tracks(allResults, run, P)
  PROVE  \E Q : Tracks(allResults, run', Q)
<1> DEFINE x == P[Len(run)]
           p == Pair(Now)
           i == At(x)
           f == i.callee
           e == Passed(x, i)
           y == Begun(f, e)
           c == NewContext(Now.context, i.id)
           a == Activation(c, f, e)
<1>1. Running /\ Ahead.op = "call" /\ phase = "running"
  BY DEF Invoke, Running
<1>2. /\ mod \in Modules /\ x \in Reached /\ x \in Universe
      /\ Now \in RunSet /\ Follows(Now, x) /\ Ahead = At(x) /\ Ready(x)
      /\ \A v : Of(Now, v) = Val(x.env, v)
      /\ run # << >> /\ Len(run) \in 1..Len(run)
  BY <1>1, RunAhead
<1>3. run' = Append(run, a)
  <2> DEFINE params == Params(Ahead.callee)
             position(v) == CHOOSE k \in DOMAIN params : params[k] = v
             env == [v \in Range(params) |-> Of(Now, Ahead.args[position(v)])]
  <2>1. run' = Append(run, Activation(NewContext(Now.context, Ahead.id), Ahead.callee, env))
    BY DEF Invoke
  <2>2. \A v : position(v) = Position(f, v)
    BY <1>2 DEF Position
  <2>3. \A v : Of(Now, Ahead.args[position(v)]) = Val(x.env, i.args[Position(f, v)])
    <3> HIDE DEF position, x
    <3> QED
      BY <1>2, <2>2
  <2>4. env = e
    <3> HIDE DEF position, x
    <3> QED
      BY <1>2, <2>3 DEF Passed
  <2> HIDE DEF env, e, x
  <2> QED
    BY <1>2, <2>1, <2>4
<1>4. p \in Task /\ p[2] = x.fn /\ Fits(x.env, PointState(allResults[p], p[2], x.bb, x.pc))
  BY <1>1, <1>2, PointHolds DEF Now
<1>5. Effect(allResults, p, i, PointState(allResults[p], p[2], x.bb, x.pc),
             Get(allResults[p], i.id, Empty))
  BY <1>1, <1>2, EffectHere DEF Now
<1> HIDE DEF x
<1>6. f \in DOMAIN mod.functions /\ e \in [Range(Params(f)) -> Word]
  BY <1>1, <1>2, PassedIs
<1>7. Target(p, i) \in DOMAIN allResults /\ Fits(e, Summary(allResults, Target(p, i)))
  BY <1>1, <1>2, <1>4, <1>5 DEF Effect
<1>8. Pair(a) = Target(p, i)
  BY DEF Pair, Activation, Target
<1> HIDE DEF p, e
<1>9. y \in Reached
  BY <1>2, <1>6, ReachedClosed DEF Closed
<1>10. /\ y.fn = f /\ y.args = e /\ y.bb = Head(Fn(f).blocks) /\ y.pc = 1 /\ y.prev = NoBlock
       /\ y.env = e
  BY DEF Begun
<1>11. a = [context |-> c, fn |-> f, bb |-> Head(Fn(f).blocks), pc |-> 1, prev |-> NoBlock,
            env |-> e]
  BY DEF Activation
<1>12. Follows(a, y)
  BY <1>10, <1>11 DEF Follows
<1> HIDE DEF y
<1>13. Told(allResults, a, y) /\ Invoked(x, y)
  BY <1>1, <1>2, <1>7, <1>8, <1>10, <1>12 DEF Told, Invoked, e
<1>14. a \in RunSet
  <2>1. Head(Fn(f).blocks) \in Block /\ e \in Env
    <3>1. y \in Universe
      BY <1>9 DEF Reached
    <3> QED
      BY <1>10, <3>1 DEF Universe
  <2>2. c \in Context
    <3>1. Target(p, i) \in Task
      BY <1>7, MapIs DEF IInv, GoodRecords
    <3> QED
      BY <1>8, <1>11, <3>1 DEF Task, Pair
  <2> HIDE DEF a, c, f
  <2> QED
    BY <1>6, <1>11, <2>1, <2>2 DEF RunSet
<1> HIDE DEF a
<1> QED
  BY <1>2, <1>3, <1>9, <1>13, <1>14, TrackPush DEF x

LEMMA ReturnTracked ==
  ASSUME IInv, SoundInv, RunInv, Plain, ExactOperations, Return,
         NEW P, Tracks(allResults, run, P)
  PROVE  \E Q : Tracks(allResults, run', Q)
<1> DEFINE n == Len(run)
           z == P[n]
           o == run[n - 1]
           x == P[n - 1]
           e == Handed(x, z)
           y == Moved(x, e)
           a == Step([o EXCEPT !.env = e])
           site == InstructionAt(o.fn, <<o.bb, o.pc>>)
           b == IF Ahead.args = << >> THEN [o EXCEPT !.env = Without(@, site.id)]
                ELSE Assign(o, site.id, Of(Now, Ahead.args[1]))
<1>1. Running /\ Ahead.op = "ret" /\ n > 1 /\ run' = Append(SubSeq(run, 1, n - 2), Step(b))
  BY DEF Return
<1>2. /\ mod \in Modules /\ z \in Reached /\ z \in Universe /\ Ahead = At(z) /\ Ready(z)
      /\ \A v : Of(Now, v) = Val(z.env, v)
      /\ n \in Nat /\ phase = "running"
  BY <1>1, RunAhead DEF Running
<1>3. n - 1 \in 1..n /\ n - 1 \in 1..(n - 1)
  BY <1>1, <1>2
<1>4. o \in RunSet /\ x \in Reached /\ x \in Universe /\ Follows(o, x)
  BY <1>2, <1>3, PointHolds
<1>5. Invoked(x, z)
  <2>1. Invoked(P[n - 1], P[(n - 1) + 1])
    BY <1>3 DEF Tracks
  <2>2. (n - 1) + 1 = n
    BY <1>2
  <2> QED
    BY <2>1, <2>2
<1>6. Returns(x, z)
  BY <1>1, <1>2, <1>5 DEF Returns, Invoked
<1> HIDE DEF x, z, n
<1>7. e \in Env /\ y \in Reached
  BY <1>2, <1>4, <1>6, HandedIs, ReachedClosed DEF Closed
<1>8. y \in Universe
  BY <1>7 DEF Reached
<1>9. site = At(x) /\ o.env = x.env
  BY <1>4 DEF InstructionAt, At, Follows
<1> HIDE DEF o, site
<1>10. b = [o EXCEPT !.env = e]
  <2>1. CASE Ahead.args = << >>
    BY <1>2, <1>9, <2>1 DEF Handed
  <2>2. CASE Ahead.args # << >>
    BY <1>2, <1>9, <2>2 DEF Handed, Assign
  <2> QED
    BY <2>1, <2>2
<1> HIDE DEF b, e
<1>11. a \in RunSet /\ Follows(a, y) /\ a.context = o.context
  BY <1>4, <1>7, <1>8, SteppedIs
<1>12. y.fn = x.fn /\ y.args = x.args
  BY DEF Moved
<1> HIDE DEF y
<1>13. run' = Append(SubSeq(run, 1, n - 2), a)
  BY <1>1, <1>10
<1> HIDE DEF a
<1> QED
  BY <1>1, <1>2, <1>7, <1>11, <1>12, <1>13, TrackPop DEF n, o, x

LEMMA StartTracked ==
  ASSUME IInv, SoundInv, RunInv, Plain, ExactOperations, Start
  PROVE  \E Q : Tracks(allResults, run', Q)
<1> DEFINE f == mod.main
           c == [k \in 1..ContextSize |-> NoSite]
<1>1. PICK e \in [Range(Params(f)) -> Word] : run' = <<Activation(c, f, e)>>
  BY DEF Start
<1> DEFINE y == Begun(f, e)
           a == Activation(c, f, e)
<1>2. mod \in Modules /\ contextWork = << >> /\ Rooted
  BY DEF IInv, Start, RunInv, SoundInv, Plain, Sane, NoConstantReturned
<1>3. f \in DOMAIN mod.functions /\ DOMAIN e = {}
  <2>1. f \in DOMAIN mod.functions
    BY <1>2, ModuleAssumption DEF WellFormed
  <2>2. Range(Params(f)) = {}
    BY DEF Plain, Range
  <2> QED
    BY <1>1, <2>1, <2>2
<1>4. y \in Reached
  BY <1>1, <1>2, <1>3, ReachedClosed DEF Closed
<1>5. /\ y.fn = f /\ y.args = e /\ y.bb = Head(Fn(f).blocks) /\ y.pc = 1 /\ y.prev = NoBlock
      /\ y.env = e
  BY DEF Begun
<1>6. a = [context |-> c, fn |-> f, bb |-> Head(Fn(f).blocks), pc |-> 1, prev |-> NoBlock,
           env |-> e]
  BY DEF Activation
<1> HIDE DEF y, a
<1>7. y \in Universe
  BY <1>4 DEF Reached
<1>8. a \in RunSet
  <2>1. c \in Context
    BY DEF Context
  <2>2. Head(Fn(f).blocks) \in Block /\ e \in Env
    BY <1>5, <1>7 DEF Universe
  <2> HIDE DEF c, f
  <2> QED
    BY <1>3, <1>6, <2>1, <2>2 DEF RunSet
<1>9. Told(allResults, a, y)
  <2>1. Pair(a) = Main /\ Follows(a, y)
    BY <1>5, <1>6 DEF Pair, Main, Follows
  <2>2. Main \in DOMAIN allResults
    BY <1>2 DEF Rooted, Range
  <2>3. Fits(y.args, Summary(allResults, Pair(a)))
    BY <1>3, <1>5 DEF Fits
  <2> QED
    BY <2>1, <2>2, <2>3 DEF Told
<1>10. Tracks(allResults, <<a>>, <<y>>)
  BY <1>4, <1>8, <1>9 DEF Tracks
<1> QED
  BY <1>1, <1>10 DEF a

LEMMA NoneTracked == \A all : Tracks(all, << >>, << >>)
BY DEF Tracks

LEMMA ExecuteTracked ==
  ASSUME IInv, SoundInv, RunInv, Plain, ExactOperations, Execute
  PROVE  \E Q : Tracks(allResults, run', Q)
<1>1. PICK P : Tracks(allResults, run, P)
  BY DEF RunInv
<1>2. CASE Start
  BY <1>2, StartTracked
<1>3. CASE Compute
  BY <1>1, <1>3, ComputeTracked
<1>4. CASE Access
  BY <1>1, <1>4, AccessTracked
<1>5. ASSUME NEW b \in Block, Branch(b) PROVE \E Q : Tracks(allResults, run', Q)
  BY <1>1, <1>5, BranchTracked
<1>6. CASE Invoke
  BY <1>1, <1>6, InvokeTracked
<1>7. CASE Return
  BY <1>1, <1>7, ReturnTracked
<1>8. CASE Stop
  BY <1>8, NoneTracked DEF Stop
<1> QED
  BY <1>2, <1>3, <1>4, <1>5, <1>6, <1>7, <1>8 DEF Execute

LEMMA ModReports ==
  ASSUME UNCHANGED <<mod, allResults>>
  PROVE  /\ (Plain' <=> Plain) /\ (ExactOperations' <=> ExactOperations)
         /\ \A f : Points(f)' = Points(f)
         /\ \A f, at : InstructionAt(f, at)' = InstructionAt(f, at)
         /\ \A p, at : getIncomingState(p, at)' = getIncomingState(p, at)
<1>1. /\ \A f : Blocks(f)' = Blocks(f)
      /\ \A f, b : Code(f, b)' = Code(f, b)
      /\ \A f : Params(f)' = Params(f)
  BY ModReaches
<1>2. (ExactOperations' <=> ExactOperations) /\ (NoRecursion' <=> NoRecursion)
  BY ModReaches
<1>3. \A f : Instructions(f)' = Instructions(f)
  BY <1>1 DEF Instructions
<1>4. Plain' <=> Plain
  BY <1>1, <1>2, <1>3 DEF Plain
<1>5. \A f : Points(f)' = Points(f)
  BY <1>1 DEF Points
<1>6. /\ \A f, at : InstructionAt(f, at)' = InstructionAt(f, at)
      /\ \A f, at : PointKey(f, at)' = PointKey(f, at)
  BY <1>1 DEF InstructionAt, PointKey
<1>7. \A p, at : getIncomingState(p, at)' = getIncomingState(p, at)
  BY <1>6 DEF getIncomingState
<1> QED
  BY <1>2, <1>4, <1>5, <1>6, <1>7

LEMMA ReportIs ==
  ASSUME valueRangeAnalysis
  PROVE  Reported'
<1>1. UNCHANGED <<mod, allResults>>
  BY DEF valueRangeAnalysis
<1>2. /\ \A f : Points(f)' = Points(f)
      /\ \A f, at : InstructionAt(f, at)' = InstructionAt(f, at)
      /\ \A p, at : getIncomingState(p, at)' = getIncomingState(p, at)
  BY <1>1, ModReports
<1> SUFFICES ASSUME NEW p \in DOMAIN allResults, NEW at \in Points(p[2]),
                    NEW i, i = InstructionAt(p[2], at), i.op = "access",
                    i.id \in DOMAIN allResults[p], Listed(i, getIncomingState(p, at))
             PROVE  i.id \in unsafePtr'
  BY <1>1, <1>2 DEF Reported
<1> DEFINE A(q) == {o \in Points(q[2]) :
                      LET j == InstructionAt(q[2], o)
                      IN /\ j.op = "access" /\ j.id \in DOMAIN allResults[q]
                         /\ Listed(j, getIncomingState(q, o))}
           L(q) == {InstructionAt(q[2], o) : o \in A(q)}
<1>3. unsafePtr' = {j.id : j \in UNION {L(q) : q \in DOMAIN allResults}}
  BY DEF valueRangeAnalysis
<1>4. at \in A(p)
  OBVIOUS
<1> HIDE DEF A
<1>5. i \in L(p)
  BY <1>4
<1> HIDE DEF L
<1> QED
  BY <1>3, <1>5

LEMMA InitRun == VInit => RunInv
<1> SUFFICES ASSUME VInit PROVE RunInv
  OBVIOUS
<1>1. phase = "analysis" /\ run = << >>
  BY DEF VInit, Init
<1> QED
  BY <1>1, NoneTracked DEF RunInv

LEMMA NextRun ==
  ASSUME IInv, SoundInv, RunInv, [VNext]_allVars
  PROVE  RunInv'
<1>1. mod' = mod
  BY DEF VNext, Analyse, Next, TakeContext, TakeBlock, EnterBlock, Transfer, Call, LeaveBlock,
     FinishContext, FinishCall, MergePredecessor, Terminating, valueRangeAnalysis, Execute,
     Start, Compute, Access, Branch, Invoke, Return, Stop, Moving, vars, allVars
<1>2. \A all, r, P : Tracks(all, r, P)' <=> Tracks(all, r, P)
  BY <1>1, ModTracks
<1>3. CASE Analyse
  <2>1. phase = "analysis" /\ phase' \in {"analysis", "crashed"} /\ run' = run
    BY <1>3 DEF Analyse, Next, TakeContext, TakeBlock, EnterBlock, Transfer, Call, LeaveBlock,
       FinishContext, FinishCall, Finished, AtInstruction, MergePredecessor
  <2>2. run' = << >>
    BY <2>1 DEF RunInv
  <2>3. Tracks(allResults', run', << >>)
    BY <2>2, NoneTracked
  <2>4. \E P : Tracks(allResults, run, P)'
    BY <1>1, <2>3, ModTracks
  <2> QED
    BY <2>1, <2>2, <2>4 DEF RunInv
<1>4. CASE valueRangeAnalysis
  <2>1. /\ phase = "analysis" /\ phase' = "reported" /\ run' = run
        /\ stack' = << >> /\ contextWork' = << >>
    BY <1>4 DEF valueRangeAnalysis, Analysed
  <2>2. run' = << >>
    BY <2>1 DEF RunInv
  <2>3. Tracks(allResults', run', << >>)
    BY <2>2, NoneTracked
  <2>4. \E P : Tracks(allResults, run, P)'
    BY <1>1, <2>3, ModTracks
  <2>5. Reported'
    BY <1>4, ReportIs
  <2> QED
    BY <2>1, <2>2, <2>4, <2>5 DEF RunInv
<1>5. CASE Execute \/ UNCHANGED allVars
  <2>1. /\ UNCHANGED <<mod, allResults, contextWork, stack, unsafePtr>>
        /\ phase' \in {"reported", "running"} => phase \in {"reported", "running"}
        /\ phase' # "running" => UNCHANGED <<phase, run>>
    BY <1>5 DEF Execute, Start, Compute, Access, Branch, Invoke, Return, Stop, Running, Moving,
       vars, allVars
  <2>2. /\ (Plain' <=> Plain) /\ (ExactOperations' <=> ExactOperations)
        /\ \A f : Points(f)' = Points(f)
        /\ \A f, at : InstructionAt(f, at)' = InstructionAt(f, at)
        /\ \A p, at : getIncomingState(p, at)' = getIncomingState(p, at)
    BY <2>1, ModReports
  <2>3. Reported => Reported'
    BY <2>1, <2>2 DEF Reported
  <2>4. ASSUME Plain, ExactOperations PROVE \E P : Tracks(allResults, run, P)'
    <3>1. \E P : Tracks(allResults, run', P)
      BY <1>5, <2>4, ExecuteTracked DEF RunInv, allVars
    <3>2. PICK P : Tracks(allResults, run', P)
      BY <3>1
    <3>3. Tracks(allResults', run', P)
      BY <2>1, <3>2
    <3>4. Tracks(allResults, run, P)'
      BY <1>1, <3>3, ModTracks
    <3> QED
      BY <3>4
  <2>5. phase' \in {"reported", "running"} => stack' = << >> /\ contextWork' = << >> /\ Reported'
    BY <2>1, <2>3 DEF RunInv
  <2>6. phase' # "running" => run' = << >>
    BY <2>1 DEF RunInv
  <2> QED
    BY <2>2, <2>4, <2>5, <2>6 DEF RunInv
<1> QED
  BY <1>3, <1>4, <1>5 DEF VNext, Terminating

LEMMA RunInvariant == VSpec => [](IInv /\ SoundInv /\ RunInv)
<1>1. VInit => IInv /\ GrowInv /\ SoundInv /\ RunInv
  BY InitInv, InitGrow, InitSound, InitRun
<1>2. IInv /\ GrowInv /\ SoundInv /\ RunInv /\ [VNext]_allVars =>
        (IInv /\ GrowInv /\ SoundInv /\ RunInv)'
  BY NextInv, NextGrows, NextKeepsSound, NextRun DEF Growing
<1> QED
  BY <1>1, <1>2, PTL DEF VSpec

(* Every value that a plain program holds, in any of its activations, lies in
   the range found for it at that point in that context, in whatever order
   blocks, callers and callees were analysed, and whichever way the program
   goes: if the program keeps to operations that evaluateBinOP and evaluateCast
   bound rightly. *)
THEOREM RangesSound == VSpec => [](ExactOperations => InRange)
<1>1. ASSUME IInv, SoundInv, RunInv PROVE ExactOperations => InRange
  <2> SUFFICES ASSUME ExactOperations, Plain, NEW k \in DOMAIN run
               PROVE  LET a == run[k]
                          s == getIncomingState(<<a.context, a.fn>>, <<a.bb, a.pc>>)
                      IN \A v \in DOMAIN a.env : a.env[v] \in Concrete(Get(s, v, Unknown), Word)
    BY DEF InRange, RangesHold
  <2>1. PICK P : Tracks(allResults, run, P)
    BY <1>1 DEF RunInv
  <2>2. phase = "running" /\ k \in 1..Len(run)
    <3>1. run \in Seq(RunSet)
      BY <2>1 DEF Tracks
    <3>2. run # << >>
      OBVIOUS
    <3> QED
      BY <1>1, <3>1, <3>2 DEF RunInv
  <2> DEFINE a == run[k]
             x == P[k]
             p == Pair(a)
  <2>3. /\ Follows(a, x) /\ Fits(x.env, PointState(allResults[p], p[2], x.bb, x.pc))
        /\ getIncomingState(p, <<x.bb, x.pc>>) = PointState(allResults[p], p[2], x.bb, x.pc)
    BY <1>1, <2>1, <2>2, PointHolds
  <2>4. p = <<a.context, a.fn>>
    BY DEF Pair
  <2> HIDE DEF a, x, p
  <2>5. Fits(a.env, getIncomingState(<<a.context, a.fn>>, <<a.bb, a.pc>>))
    BY <2>3, <2>4 DEF Follows
  <2> QED
    BY <2>5 DEF Fits, a
<1> QED
  BY <1>1, RunInvariant, PTL

LEMMA AccessIs ==
  ASSUME mod \in Modules, NEW x \in Universe, At(x).op = "access", Ready(x)
  PROVE  At(x).args[1] \in ConstantInt \cup DOMAIN x.env
<1>1. x.fn \in DOMAIN mod.functions /\ At(x) \in Instructions(x.fn)
  BY UniverseIs
<1>2. Len(At(x).args) = 1
  BY <1>1, ModuleAssumption DEF WellFormed, Instructions, Blocks, Code, Fn
<1>3. At(x).args \in Seq(Value)
  BY <1>1, InstructionIs DEF Instruction
<1>4. At(x).args[1] \in Range(At(x).args)
  BY <1>2, <1>3 DEF Range
<1> QED
  BY <1>4 DEF Ready, Operands

(* So no access of an array below its start escapes the pass, under the same
   conditions: the index is in the range the pass looked at, which is then
   unknown or reaches below zero. *)
THEOREM NegativesListed == VSpec => [](ExactOperations => NegativeListed)
<1>1. ASSUME IInv, SoundInv, RunInv PROVE ExactOperations => NegativeListed
  <2> SUFFICES ASSUME ExactOperations, Plain, Running, Ahead.op = "access",
                      Object[Ahead.id].type = "array", Ahead.args[1] \notin ConstantInt,
                      Of(Now, Ahead.args[1]) < 0
               PROVE  Ahead.id \in unsafePtr
    BY DEF NegativeListed
  <2>1. PICK P : Tracks(allResults, run, P)
    BY <1>1 DEF RunInv
  <2>2. phase = "running"
    BY DEF Running
  <2> DEFINE n == Len(run)
             x == P[n]
             p == Pair(Now)
             i == At(x)
             v == i.args[1]
             at == <<x.bb, x.pc>>
             s == getIncomingState(p, at)
             r == Get(s, v, Unknown)
  <2>3. /\ mod \in Modules /\ x \in Universe /\ Ahead = At(x) /\ Ready(x) /\ n \in 1..n
        /\ Of(Now, v) = Val(x.env, v)
    BY <1>1, <2>1, RunAhead
  <2>4. /\ p \in DOMAIN allResults /\ p \in Task /\ p[2] = x.fn /\ allResults[p] \in Results
        /\ Fits(x.env, PointState(allResults[p], p[2], x.bb, x.pc))
        /\ s = PointState(allResults[p], p[2], x.bb, x.pc)
    BY <1>1, <2>1, <2>2, <2>3, PointHolds DEF Now
  <2>5. i.id \in DOMAIN allResults[p]
    BY <1>1, <2>1, <2>2, <2>3, EffectHere DEF Now
  <2> HIDE DEF x, p
  <2>6. v \in DOMAIN x.env
    BY <2>3, AccessIs
  <2>7. at \in Points(p[2]) /\ i = InstructionAt(p[2], at)
    <3>1. x.bb \in Blocks(x.fn) /\ x.pc \in 1..Len(Code(x.fn, x.bb))
      BY <2>3, UniverseIs
    <3>2. DOMAIN Code(x.fn, x.bb) = 1..Len(Code(x.fn, x.bb))
      BY <2>3, <3>1, UniverseIs, FnIs DEF Instruction
    <3>3. at \in {x.bb} \X DOMAIN Code(x.fn, x.bb)
      BY <3>1, <3>2
    <3>4. at \in Points(x.fn)
      BY <3>1, <3>3 DEF Points
    <3> QED
      BY <2>4, <3>4 DEF InstructionAt, At
  <2>8. Fits(x.env, s) /\ s \in State
    <3>1. s \in State
      BY <2>4, EmptyIs, GetMap DEF PointState, EntryState, Results
    <3> QED
      BY <2>4, <3>1
  <2> HIDE DEF s, i
  <2>9. x.env[v] \in Concrete(r, Word) /\ x.env[v] < 0
    BY <2>3, <2>6, <2>8 DEF Fits, Val, i
  <2>10. r \in RangeValue
    BY <2>8, GetMap, RangeShapes DEF State
  <2> HIDE DEF r, v
  <2>11. r = Infinity \/ r.lvalue < 0
    <3> DEFINE z == x.env[v]
    <3>1. z \in Word /\ r # Unknown /\ (r = Infinity \/ r.lvalue =< z) /\ z < 0
      BY <2>9, <2>10, ConcreteIs
    <3>2. r = Infinity \/ r.lvalue \in Word
      BY <2>10, <3>1, RangeShapes
    <3> HIDE DEF z
    <3>3. CASE r # Infinity
      <4> DEFINE l == r.lvalue
      <4>1. l \in Int /\ z \in Int /\ l =< z /\ z < 0
        BY <3>1, <3>2, <3>3, WordIsInt
      <4> HIDE DEF l
      <4>2. l < 0
        BY <4>1
      <4> QED
        BY <4>2 DEF l
    <3> QED
      BY <3>3
  <2>12. Listed(i, s)
    <3>1. ListedForArray(v, r)
      BY <2>3, <2>11 DEF ListedForArray, i, v
    <3>2. Object[i.id].type = "array"
      BY <2>3 DEF i
    <3> QED
      BY <3>1, <3>2 DEF Listed, v, r
  <2>13. Reported /\ Ahead = i
    BY <1>1, <2>2, <2>3 DEF RunInv, i
  <2> QED
    BY <2>3, <2>4, <2>5, <2>7, <2>12, <2>13 DEF Reported, s, i
<1> QED
  BY <1>1, RunInvariant, PTL
=============================================================================
