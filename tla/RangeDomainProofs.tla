------------------------- MODULE RangeDomainProofs -------------------------
(***************************************************************************)
(* The order in which facts about a value are met does not matter, and     *)
(* ranges of sums and differences miss no result, for words of any width.  *)
(***************************************************************************)
EXTENDS RangeMeet, TLAPS

IInv == TypeOK /\ MeetIsLeast

(* What a range is made of, and what a proper one is. *)
LEMMA Shapes ==
  ASSUME NEW r \in Proper
  PROVE  \/ r = Unknown
         \/ r = Infinity
         \/ /\ isConstant(r) /\ r = makeRange(r.lvalue, r.rvalue)
            /\ r.lvalue \in Word /\ r.rvalue \in Word /\ r.lvalue =< r.rvalue
BY DEF Proper, RangesOf, makeRange, isConstant

LEMMA Kinds ==
  /\ Unknown.kind = "unknown" /\ Infinity.kind = "infinity" /\ Unknown # Infinity
  /\ \A l, r : /\ makeRange(l, r).kind = "constant"
               /\ makeRange(l, r).lvalue = l /\ makeRange(l, r).rvalue = r
               /\ makeRange(l, r) # Unknown /\ makeRange(l, r) # Infinity
<1>1. /\ Unknown.kind = "unknown" /\ Infinity.kind = "infinity"
      /\ \A l, r : /\ makeRange(l, r).kind = "constant"
                   /\ makeRange(l, r).lvalue = l /\ makeRange(l, r).rvalue = r
  BY DEF Unknown, Infinity, makeRange
<1> QED
  BY <1>1

(* Two proper ranges with bounds are joined to their hull. *)
LEMMA JoinOfConstants ==
  ASSUME NEW a \in Proper, NEW b \in Proper, isConstant(a), isConstant(b)
  PROVE  /\ Join(a, b) = makeRange(Smaller(a.lvalue, b.lvalue), Larger(a.rvalue, b.rvalue))
         /\ Join(a, b) \in Proper
<1>1. /\ a.lvalue \in Word /\ a.rvalue \in Word /\ a.lvalue =< a.rvalue
      /\ b.lvalue \in Word /\ b.rvalue \in Word /\ b.lvalue =< b.rvalue
      /\ a # Unknown /\ a # Infinity /\ b # Unknown /\ b # Infinity
  BY Shapes, Kinds DEF isConstant
<1>2. NoInt \notin Ends(a) \cup Ends(b)
  BY <1>1, NoIntAssumption, HalfAssumption DEF Ends, Word
<1>3. Join(a, b) = makeRange(Smaller(a.lvalue, b.lvalue), Larger(a.rvalue, b.rvalue))
  BY <1>1, <1>2 DEF Join
<1>4. /\ Smaller(a.lvalue, b.lvalue) \in Word /\ Larger(a.rvalue, b.rvalue) \in Word
      /\ Smaller(a.lvalue, b.lvalue) =< Larger(a.rvalue, b.rvalue)
  BY <1>1, HalfAssumption DEF Smaller, Larger, Word
<1>5. Join(a, b) \in RangesOf(Word)
  BY <1>3, <1>4 DEF RangesOf
<1> QED
  BY <1>3, <1>4, <1>5, Kinds DEF Proper

(* Join is the least upper bound of two ranges. *)
LEMMA JoinIsLeast ==
  ASSUME NEW a \in Proper, NEW b \in Proper
  PROVE  /\ Join(a, b) \in Proper
         /\ Below(a, Join(a, b)) /\ Below(b, Join(a, b))
         /\ \A u \in Proper : Below(a, u) /\ Below(b, u) => Below(Join(a, b), u)
<1>1. CASE a = Unknown
  <2>1. Join(a, b) = b
    BY <1>1 DEF Join
  <2>2. Below(b, b)
    BY Shapes, HalfAssumption DEF Below, Word
  <2> QED
    BY <1>1, <2>1, <2>2 DEF Below
<1>2. CASE a # Unknown /\ b = Unknown
  <2>1. Join(a, b) = a
    BY <1>2 DEF Join
  <2>2. Below(a, a)
    BY Shapes, HalfAssumption DEF Below, Word
  <2> QED
    BY <1>2, <2>1, <2>2 DEF Below
<1>3. CASE Unknown \notin {a, b} /\ Infinity \in {a, b}
  <2>1. Join(a, b) = Infinity
    BY <1>3 DEF Join
  <2>2. Infinity \in Proper
    BY DEF Proper
  <2>3. \A u \in Proper : Below(Infinity, u) => u = Infinity
    BY Kinds DEF Below, isConstant
  <2> QED
    BY <1>3, <2>1, <2>2, <2>3 DEF Below
<1>4. CASE isConstant(a) /\ isConstant(b)
  <2> DEFINE l == Smaller(a.lvalue, b.lvalue)
             r == Larger(a.rvalue, b.rvalue)
  <2>1. Join(a, b) = makeRange(l, r) /\ Join(a, b) \in Proper
    BY <1>4, JoinOfConstants
  <2>2. /\ a.lvalue \in Int /\ a.rvalue \in Int /\ b.lvalue \in Int /\ b.rvalue \in Int
        /\ a # Unknown /\ b # Unknown
    BY <1>4, Shapes, Kinds, HalfAssumption DEF isConstant, Word
  <2>3. l =< a.lvalue /\ l =< b.lvalue /\ a.rvalue =< r /\ b.rvalue =< r
    BY <2>2 DEF Smaller, Larger
  <2>4. isConstant(Join(a, b)) /\ Join(a, b).lvalue = l /\ Join(a, b).rvalue = r
    BY <2>1, Kinds DEF isConstant
  <2>5. Below(a, Join(a, b)) /\ Below(b, Join(a, b))
    BY <1>4, <2>3, <2>4 DEF Below
  <2>6. ASSUME NEW u \in Proper, Below(a, u), Below(b, u)
        PROVE  Below(Join(a, b), u)
    <3>1. CASE u = Infinity
      BY <3>1 DEF Below
    <3>2. CASE u # Infinity
      <4>1. /\ isConstant(u) /\ u.lvalue =< a.lvalue /\ a.rvalue =< u.rvalue
            /\ u.lvalue =< b.lvalue /\ b.rvalue =< u.rvalue
        BY <2>2, <2>6, <3>2 DEF Below
      <4>2. u.lvalue =< l /\ r =< u.rvalue
        BY <4>1 DEF Smaller, Larger
      <4> QED
        BY <2>4, <4>1, <4>2 DEF Below
    <3> QED
      BY <3>1, <3>2
  <2> QED
    BY <2>1, <2>5, <2>6
<1> QED
  BY <1>1, <1>2, <1>3, <1>4, Shapes

(* The order of ranges is transitive. *)
LEMMA BelowTransitive ==
  ASSUME NEW a \in Proper, NEW b \in Proper, NEW c \in Proper, Below(a, b), Below(b, c)
  PROVE  Below(a, c)
<1>1. CASE a = Unknown \/ c = Infinity
  BY <1>1 DEF Below
<1>2. CASE b = Infinity
  BY <1>2, Kinds DEF Below, isConstant
<1>3. CASE b = Unknown
  BY <1>3, Kinds DEF Below, isConstant
<1>4. CASE a # Unknown /\ c # Infinity /\ b # Infinity /\ b # Unknown
  <2>1. /\ isConstant(a) /\ isConstant(b) /\ isConstant(c)
        /\ b.lvalue =< a.lvalue /\ a.rvalue =< b.rvalue
        /\ c.lvalue =< b.lvalue /\ b.rvalue =< c.rvalue
    BY <1>4 DEF Below
  <2>2. /\ a.lvalue \in Int /\ a.rvalue \in Int /\ b.lvalue \in Int /\ b.rvalue \in Int
        /\ c.lvalue \in Int /\ c.rvalue \in Int
    BY <2>1, Shapes, Kinds, HalfAssumption DEF isConstant, Word
  <2> QED
    BY <2>1, <2>2 DEF Below
<1> QED
  BY <1>1, <1>2, <1>3, <1>4

-----------------------------------------------------------------------------
(* Every meet keeps the invariant: the new value is above the old one and the
   new argument, and below whatever is above both. *)
LEMMA MeetKeeps ==
  ASSUME IInv, NEW r \in Proper, Meet(r)
  PROVE  IInv'
<1>1. acc \in Proper /\ acc' = Join(acc, r) /\ met' = met \cup {r} /\ met \subseteq Proper
  BY DEF IInv, TypeOK, Meet
<1>2. acc' \in Proper /\ Below(acc, acc') /\ Below(r, acc')
  BY <1>1, JoinIsLeast
<1>3. TypeOK'
  BY <1>1, <1>2 DEF TypeOK
<1>4. ASSUME NEW s \in met'
      PROVE  Below(s, acc')
  BY <1>1, <1>2, BelowTransitive DEF IInv, MeetIsLeast
<1>5. ASSUME NEW u \in Proper, \A s \in met' : Below(s, u)
      PROVE  Below(acc', u)
  <2>1. Below(acc, u) /\ Below(r, u)
    BY <1>1, <1>5 DEF IInv, MeetIsLeast
  <2> QED
    BY <1>1, <2>1, JoinIsLeast
<1> QED
  BY <1>3, <1>4, <1>5 DEF IInv, MeetIsLeast

THEOREM Invariant == Spec => []IInv
<1>1. Init => IInv
  BY DEF Init, IInv, TypeOK, MeetIsLeast, Below, Proper
<1>2. IInv /\ [Next]_vars => IInv'
  <2>1. ASSUME IInv, UNCHANGED vars
        PROVE  IInv'
    BY <2>1 DEF vars, IInv, TypeOK, MeetIsLeast
  <2> QED
    BY <2>1, MeetKeeps DEF Next
<1> QED
  BY <1>1, <1>2, PTL DEF Spec

(* The fold of a set of facts is a proper range. *)
THEOREM TypeCorrect == Spec => []TypeOK
<1>1. IInv => TypeOK
  BY DEF IInv
<1> QED
  BY <1>1, Invariant, PTL

(* Whatever the order in which facts about a value are met, the result is the
   least range above them: the fixed point the analysis reaches does not hang on
   the order of blocks or predecessors, as far as meet is concerned. *)
THEOREM MeetIsLeastBound == Spec => []MeetIsLeast
<1>1. IInv => MeetIsLeast
  BY DEF IInv
<1> QED
  BY <1>1, Invariant, PTL

-----------------------------------------------------------------------------
(* A sum that is a word does not wrap around. *)
LEMMA NoWrap ==
  ASSUME NEW x \in Word
  PROVE  WrapWord(x) = x
<1>1. x \in Int /\ Half \in Nat /\ -Half =< x /\ x < Half
  BY HalfAssumption DEF Word
<1>2. x + Half \in Nat /\ 2 * Half \in Nat /\ x + Half < 2 * Half
  BY <1>1
<1>3. \A n, m \in Nat : n < m => n % m = n
  OBVIOUS
<1>4. (x + Half) % (2 * Half) = x + Half
  BY <1>2, <1>3
<1> QED
  BY <1>1, <1>4 DEF WrapWord

LEMMA WrapIsWord ==
  ASSUME NEW x \in Int, Half > 0
  PROVE  WrapWord(x) \in Word
<1>1. Half \in Nat /\ 2 * Half \in Nat /\ 2 * Half > 0 /\ x + Half \in Int
  BY HalfAssumption
<1>2. \A n \in Int, m \in Nat : m > 0 => n % m \in Int /\ 0 =< n % m /\ n % m < m
  OBVIOUS
<1>3. /\ (x + Half) % (2 * Half) \in Int
      /\ 0 =< (x + Half) % (2 * Half) /\ (x + Half) % (2 * Half) < 2 * Half
  BY <1>1, <1>2
<1> QED
  BY <1>1, <1>3 DEF WrapWord, Word

(* What a proper range stands for. *)
LEMMA Concretes ==
  ASSUME NEW r \in Proper, NEW x \in Concrete(r, Word)
  PROVE  /\ x \in Word /\ r # Unknown
         /\ r # Infinity => isConstant(r) /\ r.lvalue =< x /\ x =< r.rvalue
<1>1. CASE r = Unknown
  <2>1. Concrete(r, Word) = {}
    BY <1>1, Kinds DEF Concrete
  <2> QED
    BY <2>1
<1>2. CASE r = Infinity
  <2>1. Concrete(r, Word) = Word
    BY <1>2, Kinds DEF Concrete
  <2> QED
    BY <1>2, <2>1, Kinds
<1>3. CASE r # Unknown /\ r # Infinity
  <2>1. Concrete(r, Word) = {w \in Word : r.lvalue =< w /\ w =< r.rvalue}
    BY <1>3 DEF Concrete
  <2>2. isConstant(r)
    BY <1>3, Shapes
  <2> QED
    BY <1>3, <2>1, <2>2
<1> QED
  BY <1>1, <1>2, <1>3

(* Bounds that are words bound a result that lies between them; when one is no
   word, the range is infinite. *)
LEMMA BoundsSound ==
  ASSUME NEW l \in Int, NEW r \in Int, NEW s \in Int, l =< s, s =< r, Half > 0
  PROVE  WrapWord(s) \in Concrete(Bounds(l, r), Word) /\ Bounds(l, r) # Fault
<1>1. CASE {l, r} \subseteq Word
  <2>1. s \in Word
    BY <1>1, HalfAssumption DEF Word
  <2>2. Bounds(l, r) = makeRange(l, r)
    BY <1>1 DEF Bounds
  <2>3. /\ Bounds(l, r) # Unknown /\ Bounds(l, r) # Infinity
        /\ Bounds(l, r).lvalue = l /\ Bounds(l, r).rvalue = r
    BY <2>2, Kinds
  <2>4. Concrete(Bounds(l, r), Word) = {x \in Word : l =< x /\ x =< r}
    BY <2>3 DEF Concrete
  <2>5. Bounds(l, r) # Fault
    BY <2>2 DEF makeRange, Fault
  <2> QED
    BY <2>1, <2>4, <2>5, NoWrap
<1>2. CASE ~({l, r} \subseteq Word)
  <2>1. Bounds(l, r) = Infinity
    BY <1>2 DEF Bounds
  <2>2. Concrete(Infinity, Word) = Word
    BY Kinds DEF Concrete
  <2>3. Infinity # Fault
    BY DEF Infinity, Fault
  <2> QED
    BY <2>1, <2>2, <2>3, WrapIsWord
<1> QED
  BY <1>1, <1>2

(* The range of a sum or difference contains every sum or difference of operands
   within their ranges as the program computes it, wrapped around if need be. *)
THEOREM SumsAreSound ==
  ASSUME NEW a \in Proper, NEW b \in Proper
  PROVE  SoundFor("add", a, b) /\ SoundFor("sub", a, b)
<1>1. SUFFICES ASSUME NEW op \in {"add", "sub"}, NEW x \in Concrete(a, Word),
                      NEW y \in Concrete(b, Word), NEW z \in Result(op, x, y)
               PROVE  z \in Concrete(evaluateBinOP(op, a, b), Word)
  BY DEF SoundFor, Results
<1> DEFINE s == IF op = "add" THEN x + y ELSE x - y
<1>2. /\ x \in Word /\ a # Unknown /\ (a # Infinity => isConstant(a) /\ a.lvalue =< x /\ x =< a.rvalue)
      /\ y \in Word /\ b # Unknown /\ (b # Infinity => isConstant(b) /\ b.lvalue =< y /\ y =< b.rvalue)
  BY Concretes
<1>3. x \in Int /\ y \in Int /\ s \in Int /\ Half > 0
  BY <1>2, HalfAssumption DEF Word
<1>4. z = WrapWord(s)
  BY DEF Result
<1>5. CASE isConstant(a) /\ isConstant(b)
  <2>1. /\ a.lvalue \in Int /\ a.rvalue \in Int /\ b.lvalue \in Int /\ b.rvalue \in Int
        /\ a # Infinity /\ b # Infinity
    BY <1>2, <1>5, Shapes, Kinds, HalfAssumption DEF isConstant, Word
  <2>2. NoInt \notin Ends(a) \cup Ends(b)
    BY <2>1, NoIntAssumption DEF Ends
  <2>3. CASE op = "add"
    <3>1. evaluateBinOP(op, a, b) = Bounds(a.lvalue + b.lvalue, a.rvalue + b.rvalue)
      BY <1>5, <2>2, <2>3 DEF evaluateBinOP, Add
    <3>2. a.lvalue + b.lvalue =< s /\ s =< a.rvalue + b.rvalue
      BY <1>2, <1>3, <2>1, <2>3
    <3> HIDE DEF s
    <3> QED
      BY <1>3, <1>4, <2>1, <3>1, <3>2, BoundsSound
  <2>4. CASE op = "sub"
    <3>1. evaluateBinOP(op, a, b) = Bounds(a.lvalue - b.rvalue, a.rvalue - b.lvalue)
      BY <1>5, <2>2, <2>4 DEF evaluateBinOP, Sub
    <3>2. a.lvalue - b.rvalue =< s /\ s =< a.rvalue - b.lvalue
      BY <1>2, <1>3, <2>1, <2>4
    <3> HIDE DEF s
    <3> QED
      BY <1>3, <1>4, <2>1, <3>1, <3>2, BoundsSound
  <2> QED
    BY <2>3, <2>4
<1>6. CASE ~(isConstant(a) /\ isConstant(b))
  <2>1. evaluateBinOP(op, a, b) = Infinity
    BY <1>2, <1>6 DEF evaluateBinOP
  <2>2. Concrete(Infinity, Word) = Word
    BY Kinds DEF Concrete
  <2> QED
    BY <1>3, <1>4, <2>1, <2>2, WrapIsWord
<1> QED
  BY <1>5, <1>6

-----------------------------------------------------------------------------
(* Products and truncated quotients of operands that lie between bounds lie
   between those of the bounds. *)
LEMMA MulUp ==
  ASSUME NEW p \in Int, NEW q \in Int, NEW k \in Int, p =< q
  PROVE  /\ 0 =< k => p * k =< q * k
         /\ k =< 0 => q * k =< p * k
<1>1. ASSUME 0 =< k PROVE p * k =< q * k
  BY <1>1
<1>2. ASSUME k =< 0 PROVE q * k =< p * k
  BY <1>2
<1> QED
  BY <1>1, <1>2

Products(al, ar, bl, br) == {u * v : u \in {al, ar}, v \in {bl, br}}
Quotients(al, ar, bl, br) == {sdiv(u, v) : u \in {al, ar}, v \in {bl, br}}

LEMMA ProductBetween ==
  ASSUME NEW al \in Int, NEW ar \in Int, NEW bl \in Int, NEW br \in Int,
         NEW x \in Int, NEW y \in Int, al =< x, x =< ar, bl =< y, y =< br
  PROVE  \E c, d \in Products(al, ar, bl, br) : c =< x * y /\ x * y =< d
<1>1. ASSUME NEW u \in {al, ar}
      PROVE  \E c, d \in Products(al, ar, bl, br) : c =< u * y /\ u * y =< d
  <2>1. u * bl \in Products(al, ar, bl, br) /\ u * br \in Products(al, ar, bl, br)
    BY DEF Products
  <2>2. u \in Int /\ u * bl = bl * u /\ u * br = br * u /\ u * y = y * u
    OBVIOUS
  <2>3. CASE 0 =< u
    <3>1. bl * u =< y * u /\ y * u =< br * u
      BY <2>2, <2>3, MulUp
    <3> QED
      BY <2>1, <2>2, <3>1
  <2>4. CASE u =< 0
    <3>1. br * u =< y * u /\ y * u =< bl * u
      BY <2>2, <2>4, MulUp
    <3> QED
      BY <2>1, <2>2, <3>1
  <2> QED
    BY <2>2, <2>3, <2>4
<1>2. \/ al * y =< x * y /\ x * y =< ar * y
      \/ ar * y =< x * y /\ x * y =< al * y
  BY MulUp
<1>3. PICK c, d, e, g \in Products(al, ar, bl, br) :
        c =< al * y /\ al * y =< d /\ e =< ar * y /\ ar * y =< g
  BY <1>1
<1>4. c \in Int /\ d \in Int /\ e \in Int /\ g \in Int /\ al * y \in Int /\ ar * y \in Int /\ x * y \in Int
  BY DEF Products
<1> QED
  BY <1>2, <1>3, <1>4

LEMMA Quotient ==
  ASSUME NEW u \in Nat, NEW v \in Nat, v > 0
  PROVE  /\ u \div v \in Nat /\ u \div v =< u
         /\ \A t \in Nat : t =< u => t \div v =< u \div v
         /\ \A w \in Nat : v =< w => u \div w =< u \div v
         /\ v > 1 /\ u > 0 => u \div v < u
<1>1. u \div v \in Nat /\ u \div v =< u
  OBVIOUS
<1>2. \A t \in Nat : t =< u => t \div v =< u \div v
  OBVIOUS
<1>3. \A w \in Nat : v =< w => u \div w =< u \div v
  OBVIOUS
<1>4. v > 1 /\ u > 0 => u \div v < u
  OBVIOUS
<1> QED
  BY <1>1, <1>2, <1>3, <1>4

LEMMA Magnitudes ==
  ASSUME NEW x \in Int
  PROVE  /\ Magnitude(x) \in Nat
         /\ x >= 0 => Magnitude(x) = x
         /\ x < 0 => Magnitude(x) = -x
         /\ x # 0 => Magnitude(x) > 0
  BY DEF Magnitude

(* The quotient is one of magnitudes, with a sign. *)
LEMMA SignedQuotient ==
  ASSUME NEW x \in Int, NEW y \in Int, y # 0
  PROVE  /\ sdiv(x, y) \in Int
         /\ Magnitude(x) \div Magnitude(y) \in Nat
         /\ x >= 0 /\ y > 0 => sdiv(x, y) = Magnitude(x) \div Magnitude(y)
         /\ x < 0 /\ y < 0 => sdiv(x, y) = Magnitude(x) \div Magnitude(y)
         /\ x >= 0 /\ y < 0 => sdiv(x, y) = -(Magnitude(x) \div Magnitude(y))
         /\ x < 0 /\ y > 0 => sdiv(x, y) = -(Magnitude(x) \div Magnitude(y))
         /\ Magnitude(x) \div Magnitude(y) =< Magnitude(x)
         /\ -Magnitude(x) =< sdiv(x, y) /\ sdiv(x, y) =< Magnitude(x)
<1>1. Magnitude(x) \in Nat /\ Magnitude(y) \in Nat /\ Magnitude(y) > 0
  BY Magnitudes
<1>2. Magnitude(x) \div Magnitude(y) \in Nat /\ Magnitude(x) \div Magnitude(y) =< Magnitude(x)
  BY <1>1, Quotient
<1>3. sdiv(x, y) = IF (x < 0) = (y < 0) THEN Magnitude(x) \div Magnitude(y)
                   ELSE -(Magnitude(x) \div Magnitude(y))
  BY DEF sdiv
<1> QED
  BY <1>1, <1>2, <1>3

LEMMA DividendUp ==
  ASSUME NEW p \in Int, NEW q \in Int, NEW k \in Int, p =< q
  PROVE  /\ k > 0 => sdiv(p, k) =< sdiv(q, k)
         /\ k < 0 => sdiv(q, k) =< sdiv(p, k)
<1> SUFFICES ASSUME k # 0 PROVE /\ k > 0 => sdiv(p, k) =< sdiv(q, k)
                                /\ k < 0 => sdiv(q, k) =< sdiv(p, k)
  OBVIOUS
<1>1. Magnitude(k) \in Nat /\ Magnitude(k) > 0 /\ Magnitude(p) \in Nat /\ Magnitude(q) \in Nat
  BY Magnitudes
<1> DEFINE m(x) == Magnitude(x) \div Magnitude(k)
<1>2. m(p) \in Nat /\ m(q) \in Nat
  BY <1>1, Quotient
<1>3. /\ p >= 0 => m(p) =< m(q)
      /\ q < 0 => m(q) =< m(p)
  <2>1. /\ p >= 0 => Magnitude(p) =< Magnitude(q)
        /\ q < 0 => Magnitude(q) =< Magnitude(p)
    BY Magnitudes
  <2> QED
    BY <1>1, <2>1, Quotient
<1>4. \A x \in {p, q} : /\ x >= 0 /\ k > 0 => sdiv(x, k) = m(x)
                        /\ x < 0 /\ k < 0 => sdiv(x, k) = m(x)
                        /\ x >= 0 /\ k < 0 => sdiv(x, k) = -m(x)
                        /\ x < 0 /\ k > 0 => sdiv(x, k) = -m(x)
  BY SignedQuotient
<1> HIDE DEF m
<1> QED
  BY <1>2, <1>3, <1>4

LEMMA DivisorUp ==
  ASSUME NEW p \in Int, NEW q \in Int, NEW x \in Int, p =< q, p > 0 \/ q < 0
  PROVE  /\ x >= 0 => sdiv(x, q) =< sdiv(x, p)
         /\ x < 0 => sdiv(x, p) =< sdiv(x, q)
<1>1. /\ Magnitude(p) \in Nat /\ Magnitude(p) > 0 /\ Magnitude(q) \in Nat /\ Magnitude(q) > 0
      /\ Magnitude(x) \in Nat /\ p # 0 /\ q # 0
  BY Magnitudes
<1> DEFINE m(k) == Magnitude(x) \div Magnitude(k)
<1>2. m(p) \in Nat /\ m(q) \in Nat
  BY <1>1, Quotient
<1>3. /\ p > 0 => m(q) =< m(p)
      /\ q < 0 => m(p) =< m(q)
  <2>1. /\ p > 0 => Magnitude(p) =< Magnitude(q)
        /\ q < 0 => Magnitude(q) =< Magnitude(p)
    BY Magnitudes
  <2> QED
    BY <1>1, <2>1, Quotient
<1>4. \A k \in {p, q} : /\ x >= 0 /\ k > 0 => sdiv(x, k) = m(k)
                        /\ x < 0 /\ k < 0 => sdiv(x, k) = m(k)
                        /\ x >= 0 /\ k < 0 => sdiv(x, k) = -m(k)
                        /\ x < 0 /\ k > 0 => sdiv(x, k) = -m(k)
  BY <1>1, SignedQuotient
<1> HIDE DEF m
<1> QED
  BY <1>2, <1>3, <1>4

LEMMA QuotientBetween ==
  ASSUME NEW al \in Int, NEW ar \in Int, NEW bl \in Int, NEW br \in Int,
         NEW x \in Int, NEW y \in Int, al =< x, x =< ar, bl =< y, y =< br, bl > 0 \/ br < 0
  PROVE  \E c, d \in Quotients(al, ar, bl, br) : c =< sdiv(x, y) /\ sdiv(x, y) =< d
<1>1. ASSUME NEW u \in {al, ar}
      PROVE  \E c, d \in Quotients(al, ar, bl, br) : c =< sdiv(u, y) /\ sdiv(u, y) =< d
  <2>1. sdiv(u, bl) \in Quotients(al, ar, bl, br) /\ sdiv(u, br) \in Quotients(al, ar, bl, br)
    BY DEF Quotients
  <2>2. u \in Int /\ (bl > 0 \/ y < 0) /\ (y > 0 \/ br < 0)
    OBVIOUS
  <2>3. /\ u >= 0 => sdiv(u, br) =< sdiv(u, y) /\ sdiv(u, y) =< sdiv(u, bl)
        /\ u < 0 => sdiv(u, bl) =< sdiv(u, y) /\ sdiv(u, y) =< sdiv(u, br)
    BY <2>2, DivisorUp
  <2> QED
    BY <2>1, <2>2, <2>3
<1>2. \/ sdiv(al, y) =< sdiv(x, y) /\ sdiv(x, y) =< sdiv(ar, y)
      \/ sdiv(ar, y) =< sdiv(x, y) /\ sdiv(x, y) =< sdiv(al, y)
  <2>1. y > 0 \/ y < 0
    OBVIOUS
  <2> QED
    BY <2>1, DividendUp
<1>3. PICK c, d, e, g \in Quotients(al, ar, bl, br) :
        c =< sdiv(al, y) /\ sdiv(al, y) =< d /\ e =< sdiv(ar, y) /\ sdiv(ar, y) =< g
  BY <1>1
<1>4. \A u \in {al, ar, x} : \A v \in {bl, br, y} : sdiv(u, v) \in Int
  <2>1. \A u \in {al, ar, x} : \A v \in {bl, br, y} : u \in Int /\ v \in Int /\ v # 0
    OBVIOUS
  <2> QED
    BY <2>1, SignedQuotient
<1>5. /\ c \in Int /\ d \in Int /\ e \in Int /\ g \in Int
      /\ sdiv(al, y) \in Int /\ sdiv(ar, y) \in Int /\ sdiv(x, y) \in Int
  BY <1>4 DEF Quotients
<1> QED
  BY <1>2, <1>3, <1>5

-----------------------------------------------------------------------------
(* The least and the greatest of four numbers. *)
LEMMA Extremes ==
  ASSUME NEW p \in Int, NEW q \in Int, NEW r \in Int, NEW s \in Int, NEW S, S = {p, q, r, s}
  PROVE  /\ Min(S) \in S /\ Max(S) \in S
         /\ \A x \in S : x \in Int /\ Min(S) =< x /\ x =< Max(S)
<1>1. \E x \in S : \A y \in S : x =< y
  BY SMT
<1>2. \E x \in S : \A y \in S : x >= y
  BY SMT
<1>3. Min(S) \in S /\ \A y \in S : Min(S) =< y
  BY <1>1 DEF Min
<1>4. Max(S) \in S /\ \A y \in S : Max(S) >= y
  BY <1>2 DEF Max
<1> QED
  BY <1>3, <1>4

(* What lies between two numbers of four is in their hull, or the hull is
   infinite; so is the hull of four such numbers. *)
FourInts(S) == \E p, q, r, s \in Int : S = {p, q, r, s}

LEMMA HullHolds ==
  ASSUME NEW S, FourInts(S), NEW z \in Int, NEW c \in S, NEW d \in S, c =< z, z =< d
  PROVE  \/ Hull(S) = Infinity
         \/ z \in Word /\ z \in Concrete(Hull(S), Word)
<1>1. Min(S) \in S /\ Max(S) \in S /\ \A x \in S : x \in Int /\ Min(S) =< x /\ x =< Max(S)
  BY Extremes DEF FourInts
<1> SUFFICES ASSUME S \subseteq Word PROVE z \in Word /\ z \in Concrete(Hull(S), Word)
  BY DEF Hull
<1>2. z \in Word
  BY <1>1, HalfAssumption DEF Word
<1>3. Hull(S) = makeRange(Min(S), Max(S))
  BY DEF Hull
<1>4. Concrete(Hull(S), Word) = {x \in Word : Min(S) =< x /\ x =< Max(S)}
  BY <1>3, Kinds DEF Concrete
<1>5. c \in Int /\ d \in Int /\ Min(S) \in Int /\ Max(S) \in Int
  BY <1>1
<1> QED
  BY <1>1, <1>2, <1>4, <1>5

LEMMA HullGrows ==
  ASSUME NEW S, FourInts(S), NEW T, FourInts(T),
         \A z \in S : \E c, d \in T : c =< z /\ z =< d
  PROVE  Below(Hull(S), Hull(T))
<1> SUFFICES ASSUME T \subseteq Word PROVE Below(Hull(S), Hull(T))
  BY DEF Hull, Below
<1>1. /\ Min(S) \in S /\ Max(S) \in S /\ \A x \in S : x \in Int /\ Min(S) =< x /\ x =< Max(S)
      /\ Min(T) \in T /\ Max(T) \in T /\ \A x \in T : x \in Int /\ Min(T) =< x /\ x =< Max(T)
  BY Extremes DEF FourInts
<1>2. \A z \in S : z \in Int /\ Min(T) =< z /\ z =< Max(T)
  <2> SUFFICES ASSUME NEW z \in S PROVE z \in Int /\ Min(T) =< z /\ z =< Max(T)
    OBVIOUS
  <2>1. PICK c, d \in T : c =< z /\ z =< d
    OBVIOUS
  <2>2. c \in Int /\ d \in Int /\ z \in Int /\ Min(T) \in Int /\ Max(T) \in Int
    BY <1>1
  <2> QED
    BY <1>1, <2>1, <2>2
<1>3. S \subseteq Word
  <2>1. Min(T) \in Word /\ Max(T) \in Word
    BY <1>1
  <2> QED
    BY <1>2, <2>1, HalfAssumption DEF Word
<1>4. Hull(S) = makeRange(Min(S), Max(S)) /\ Hull(T) = makeRange(Min(T), Max(T))
  BY <1>3 DEF Hull
<1>5. Min(T) =< Min(S) /\ Max(S) =< Max(T)
  BY <1>1, <1>2
<1> QED
  BY <1>4, <1>5, Kinds DEF Below, isConstant

LEMMA CornersAreFour ==
  ASSUME NEW al \in Int, NEW ar \in Int, NEW bl \in Int, NEW br \in Int
  PROVE  /\ FourInts(Products(al, ar, bl, br))
         /\ bl # 0 /\ br # 0 => FourInts(Quotients(al, ar, bl, br))
<1>1. FourInts(Products(al, ar, bl, br))
  <2>1. Products(al, ar, bl, br) = {al * bl, al * br, ar * bl, ar * br}
    BY DEF Products
  <2>2. al * bl \in Int /\ al * br \in Int /\ ar * bl \in Int /\ ar * br \in Int
    OBVIOUS
  <2> QED
    BY <2>1, <2>2 DEF FourInts
<1>2. ASSUME bl # 0, br # 0 PROVE FourInts(Quotients(al, ar, bl, br))
  <2>1. Quotients(al, ar, bl, br) = {sdiv(al, bl), sdiv(al, br), sdiv(ar, bl), sdiv(ar, br)}
    BY DEF Quotients
  <2>2. sdiv(al, bl) \in Int /\ sdiv(al, br) \in Int /\ sdiv(ar, bl) \in Int /\ sdiv(ar, br) \in Int
    BY <1>2, SignedQuotient
  <2> QED
    BY <2>1, <2>2 DEF FourInts
<1> QED
  BY <1>1, <1>2

-----------------------------------------------------------------------------
(* What the operations do to two ranges with bounds. *)
Bounded(r) == /\ isConstant(r) /\ r # Unknown /\ r # Infinity
              /\ r.lvalue \in Word /\ r.rvalue \in Word /\ r.lvalue =< r.rvalue
              /\ r.lvalue \in Int /\ r.rvalue \in Int
Straddles(r) == r.lvalue < 0 /\ r.rvalue > 0
Reach(r) == Larger(Magnitude(r.lvalue), Magnitude(r.rvalue))

LEMMA ProperRange ==
  ASSUME NEW r \in Proper PROVE r = Unknown \/ r = Infinity \/ Bounded(r)
  BY Shapes, Kinds, HalfAssumption DEF Bounded, Word, isConstant

LEMMA Evaluated ==
  ASSUME NEW a, NEW b, Bounded(a), Bounded(b)
  PROVE  /\ evaluateBinOP("add", a, b) = Bounds(a.lvalue + b.lvalue, a.rvalue + b.rvalue)
         /\ evaluateBinOP("sub", a, b) = Bounds(a.lvalue - b.rvalue, a.rvalue - b.lvalue)
         /\ evaluateBinOP("mul", a, b) = Hull(Products(a.lvalue, a.rvalue, b.lvalue, b.rvalue))
         /\ evaluateBinOP("sdiv", a, b) = SDiv(a, b)
         /\ evaluateBinOP("other", a, b) = Infinity
<1>1. NoInt \notin Ends(a) \cup Ends(b)
  BY NoIntAssumption DEF Bounded, Ends
<1>2. isConstant(a) /\ isConstant(b)
  BY DEF Bounded
<1>3. Mul(a, b) = Hull(Products(a.lvalue, a.rvalue, b.lvalue, b.rvalue))
  BY DEF Mul, Products, Ends
<1> QED
  BY <1>1, <1>2, <1>3 DEF evaluateBinOP, Add, Sub

(* A quotient's range is as far from zero as the dividend's, or the hull of the
   bounds' quotients; the magnitude of the least word is left aside. *)
LEMMA Divided ==
  ASSUME NEW a, NEW b, Bounded(a), Bounded(b), HasMagnitude(a)
  PROVE  /\ Reach(a) \in Nat /\ Reach(a) < Half
         /\ \A x \in Int : a.lvalue =< x /\ x =< a.rvalue => Magnitude(x) =< Reach(a)
         /\ Straddles(b) => SDiv(a, b) = makeRange(-Reach(a), Reach(a))
         /\ SDiv(a, b) # Fault /\ ~Straddles(b) =>
              /\ b.lvalue > 0 \/ b.rvalue < 0
              /\ SDiv(a, b) = Hull(Quotients(a.lvalue, a.rvalue, b.lvalue, b.rvalue))
<1>1. /\ a.lvalue \in Int /\ a.rvalue \in Int /\ a.lvalue > -Half /\ a.rvalue < Half /\ Half \in Nat
      /\ b.lvalue \in Int /\ b.rvalue \in Int /\ a.lvalue =< a.rvalue /\ b.lvalue =< b.rvalue
  BY HalfAssumption DEF Bounded, HasMagnitude, Word
<1>2. /\ Magnitude(a.lvalue) \in Nat /\ Magnitude(a.rvalue) \in Nat
      /\ Magnitude(a.lvalue) < Half /\ Magnitude(a.rvalue) < Half
  BY <1>1, Magnitudes DEF Magnitude
<1>3. Reach(a) \in Nat /\ Reach(a) < Half
  BY <1>2 DEF Reach, Larger
<1>4. ASSUME NEW x \in Int, a.lvalue =< x, x =< a.rvalue PROVE Magnitude(x) =< Reach(a)
  BY <1>1, <1>4 DEF Reach, Larger, Magnitude
<1>5. abs(a.lvalue) = Magnitude(a.lvalue) /\ abs(a.rvalue) = Magnitude(a.rvalue)
  BY <1>1, <1>2 DEF abs, Wrap
<1>6. Wrap(-Reach(a)) = -Reach(a)
  BY <1>1, <1>3 DEF Wrap
<1>7. Straddles(b) => SDiv(a, b) = makeRange(-Reach(a), Reach(a))
  BY <1>5, <1>6 DEF SDiv, Straddles, Reach
<1>8. ASSUME SDiv(a, b) # Fault, ~Straddles(b)
      PROVE  /\ b.lvalue > 0 \/ b.rvalue < 0
             /\ SDiv(a, b) = Hull(Quotients(a.lvalue, a.rvalue, b.lvalue, b.rvalue))
  <2>1. SDiv(a, b) = IF 0 \in Ends(b) THEN Fault
                     ELSE Hull({sdiv(x, y) : x \in Ends(a), y \in Ends(b)})
    BY <1>8 DEF SDiv, Straddles
  <2>2. b.lvalue # 0 /\ b.rvalue # 0
    BY <1>8, <2>1 DEF Ends
  <2>3. b.lvalue > 0 \/ b.rvalue < 0
    BY <1>1, <1>8, <2>2 DEF Straddles
  <2> QED
    BY <1>8, <2>1, <2>3 DEF Ends, Quotients
<1> QED
  BY <1>3, <1>4, <1>7, <1>8

-----------------------------------------------------------------------------
(* A quotient of words is a word, but for that of the least one by -1. *)
LEMMA QuotientIsWord ==
  ASSUME NEW x \in Word, NEW y \in Word, y # 0, ~(x = -Half /\ y = -1)
  PROVE  sdiv(x, y) \in Word
<1>1. /\ x \in Int /\ y \in Int /\ -Half =< x /\ x < Half /\ Half \in Nat
  BY HalfAssumption DEF Word
<1>2. /\ Magnitude(x) \in Nat /\ Magnitude(y) \in Nat /\ Magnitude(y) > 0 /\ Magnitude(x) =< Half
  BY <1>1, Magnitudes
<1> DEFINE q == Magnitude(x) \div Magnitude(y)
<1>3. q \in Nat /\ q =< Magnitude(x) /\ (Magnitude(y) > 1 /\ Magnitude(x) > 0 => q < Magnitude(x))
  BY <1>2, Quotient
<1>4. /\ sdiv(x, y) \in Int /\ sdiv(x, y) \in {q, -q}
      /\ (x < 0) # (y < 0) /\ x # 0 => sdiv(x, y) = -q \/ x > 0
  BY <1>1, SignedQuotient
<1>5. CASE Magnitude(x) < Half
  BY <1>1, <1>2, <1>3, <1>4, <1>5 DEF Word
<1>6. CASE Magnitude(x) = Half
  <2>1. x = -Half /\ x < 0
    BY <1>1, <1>6, HalfAssumption DEF Magnitude
  <2>2. CASE y > 0
    <3>1. sdiv(x, y) = -q
      BY <1>1, <2>1, <2>2, SignedQuotient
    <3> QED
      BY <1>1, <1>2, <1>3, <2>1, <3>1, HalfAssumption DEF Word
  <2>3. CASE y < 0
    <3>1. Magnitude(y) > 1
      BY <1>1, <2>1, <2>3 DEF Magnitude
    <3>2. q < Half
      BY <1>1, <1>3, <1>6, <3>1, HalfAssumption
    <3> QED
      BY <1>1, <1>3, <1>4, <3>2 DEF Word
  <2> QED
    BY <1>1, <2>2, <2>3
<1> QED
  BY <1>1, <1>2, <1>5, <1>6

-----------------------------------------------------------------------------
(* A result of the program is a word, whatever the operation. *)
LEMMA ResultIsWord ==
  ASSUME NEW op \in {"add", "sub", "mul", "sdiv", "other"}, NEW x \in Word, NEW y \in Word,
         NEW z \in Result(op, x, y)
  PROVE  z \in Word
<1>1. x \in Int /\ y \in Int /\ Half > 0
  BY HalfAssumption DEF Word
<1>2. CASE op \in {"add", "sub", "mul"}
  <2>1. \/ z = WrapWord(x + y) \/ z = WrapWord(x - y) \/ z = WrapWord(x * y)
    BY <1>2 DEF Result
  <2>2. x + y \in Int /\ x - y \in Int /\ x * y \in Int
    BY <1>1
  <2> QED
    BY <1>1, <2>1, <2>2, WrapIsWord
<1>3. CASE op = "sdiv"
  <2>1. y # 0 /\ ~(x = -Half /\ y = -1) /\ z = sdiv(x, y)
    BY <1>3 DEF Result
  <2> QED
    BY <2>1, QuotientIsWord
<1>4. CASE op = "other"
  BY <1>4 DEF Result
<1> QED
  BY <1>2, <1>3, <1>4

(* A product is in the hull of the bounds' products; when that is infinite it
   holds every word. *)
LEMMA ProductIsSound ==
  ASSUME NEW a, NEW b, Bounded(a), Bounded(b), NEW x \in Word, NEW y \in Word,
         a.lvalue =< x, x =< a.rvalue, b.lvalue =< y, y =< b.rvalue
  PROVE  WrapWord(x * y) \in Concrete(evaluateBinOP("mul", a, b), Word)
<1> DEFINE S == Products(a.lvalue, a.rvalue, b.lvalue, b.rvalue)
<1>1. /\ a.lvalue \in Int /\ a.rvalue \in Int /\ b.lvalue \in Int /\ b.rvalue \in Int
      /\ x \in Int /\ y \in Int /\ x * y \in Int /\ Half > 0
  BY HalfAssumption DEF Bounded, Word
<1>2. evaluateBinOP("mul", a, b) = Hull(S) /\ FourInts(S)
  BY <1>1, Evaluated, CornersAreFour
<1>3. PICK c, d \in S : c =< x * y /\ x * y =< d
  BY <1>1, ProductBetween
<1> HIDE DEF S
<1>4. \/ Hull(S) = Infinity
      \/ x * y \in Word /\ x * y \in Concrete(Hull(S), Word)
  BY <1>1, <1>2, <1>3, HullHolds
<1>5. CASE Hull(S) = Infinity
  <2>1. Concrete(Infinity, Word) = Word
    BY Kinds DEF Concrete
  <2> QED
    BY <1>1, <1>2, <1>5, <2>1, WrapIsWord
<1>6. CASE x * y \in Word /\ x * y \in Concrete(Hull(S), Word)
  BY <1>2, <1>6, NoWrap
<1> QED
  BY <1>4, <1>5, <1>6

(* A quotient is no further from zero than its dividend, and lies between the
   bounds' quotients when the divisors have one sign. *)
LEMMA QuotientIsSound ==
  ASSUME NEW a, NEW b, Bounded(a), Bounded(b), HasMagnitude(a), SDiv(a, b) # Fault,
         NEW x \in Word, NEW y \in Word, y # 0, ~(x = -Half /\ y = -1),
         a.lvalue =< x, x =< a.rvalue, b.lvalue =< y, y =< b.rvalue
  PROVE  sdiv(x, y) \in Concrete(SDiv(a, b), Word)
<1>1. /\ a.lvalue \in Int /\ a.rvalue \in Int /\ b.lvalue \in Int /\ b.rvalue \in Int
      /\ x \in Int /\ y \in Int
  BY HalfAssumption DEF Bounded, Word
<1>2. sdiv(x, y) \in Int /\ -Magnitude(x) =< sdiv(x, y) /\ sdiv(x, y) =< Magnitude(x)
  BY <1>1, SignedQuotient
<1>3. sdiv(x, y) \in Word
  BY QuotientIsWord
<1>4. CASE Straddles(b)
  <2>1. SDiv(a, b) = makeRange(-Reach(a), Reach(a)) /\ Magnitude(x) =< Reach(a) /\ Reach(a) \in Nat
    BY <1>1, <1>4, Divided
  <2>2. Concrete(SDiv(a, b), Word) = {w \in Word : -Reach(a) =< w /\ w =< Reach(a)}
    BY <2>1, Kinds DEF Concrete
  <2>3. Magnitude(x) \in Int
    BY <1>1, Magnitudes
  <2> QED
    BY <1>2, <1>3, <2>1, <2>2, <2>3
<1>5. CASE ~Straddles(b)
  <2> DEFINE S == Quotients(a.lvalue, a.rvalue, b.lvalue, b.rvalue)
  <2>1. SDiv(a, b) = Hull(S) /\ (b.lvalue > 0 \/ b.rvalue < 0)
    BY <1>5, Divided
  <2>2. b.lvalue # 0 /\ b.rvalue # 0
    BY <1>1, <2>1 DEF Bounded
  <2>3. FourInts(S)
    BY <1>1, <2>2, CornersAreFour
  <2>4. PICK c, d \in S : c =< sdiv(x, y) /\ sdiv(x, y) =< d
    BY <1>1, <2>1, QuotientBetween
  <2> HIDE DEF S
  <2>5. Hull(S) = Infinity \/ sdiv(x, y) \in Concrete(Hull(S), Word)
    BY <1>2, <2>3, <2>4, HullHolds
  <2>6. Concrete(Infinity, Word) = Word
    BY Kinds DEF Concrete
  <2> QED
    BY <1>3, <2>1, <2>5, <2>6
<1> QED
  BY <1>4, <1>5

(* The range of a sum, difference, product or signed quotient of two proper
   ranges contains every result of operands within them. *)
LEMMA OperationsAreSound ==
  ASSUME NEW a \in Proper, NEW b \in Proper,
         NEW op \in {"add", "sub", "mul", "sdiv", "other"}, op = "sdiv" => HasMagnitude(a)
  PROVE  SoundFor(op, a, b)
<1> DEFINE e == evaluateBinOP(op, a, b)
<1>1. SUFFICES ASSUME e # Fault, NEW x \in Concrete(a, Word), NEW y \in Concrete(b, Word),
                      NEW z \in Result(op, x, y)
               PROVE  z \in Concrete(e, Word)
  BY DEF SoundFor, Results
<1>2. /\ x \in Word /\ a # Unknown /\ (a # Infinity => isConstant(a) /\ a.lvalue =< x /\ x =< a.rvalue)
      /\ y \in Word /\ b # Unknown /\ (b # Infinity => isConstant(b) /\ b.lvalue =< y /\ y =< b.rvalue)
  BY Concretes
<1>3. z \in Word
  BY <1>2, ResultIsWord
<1>4. Concrete(Infinity, Word) = Word
  BY Kinds DEF Concrete
<1>5. CASE Infinity \in {a, b}
  <2>1. ~(isConstant(a) /\ isConstant(b))
    BY <1>5, Kinds DEF isConstant
  <2>2. e = Infinity
    BY <1>5, <2>1 DEF evaluateBinOP
  <2> QED
    BY <1>3, <1>4, <2>2
<1>6. CASE Infinity \notin {a, b}
  <2>1. /\ Bounded(a) /\ Bounded(b)
        /\ a.lvalue =< x /\ x =< a.rvalue /\ b.lvalue =< y /\ y =< b.rvalue
    BY <1>2, <1>6, ProperRange
  <2>2. CASE op \in {"add", "sub"}
    <3>1. SoundFor(op, a, b)
      BY <2>2, SumsAreSound
    <3>2. Results(op, a, b) \subseteq Concrete(e, Word)
      BY <1>1, <3>1 DEF SoundFor
    <3>3. z \in Results(op, a, b)
      BY DEF Results
    <3> QED
      BY <3>2, <3>3
  <2>3. CASE op = "mul"
    <3>1. z = WrapWord(x * y)
      BY <2>3 DEF Result
    <3> QED
      BY <1>2, <2>1, <2>3, <3>1, ProductIsSound
  <2>4. CASE op = "sdiv"
    <3>1. y # 0 /\ ~(x = -Half /\ y = -1) /\ z = sdiv(x, y)
      BY <2>4 DEF Result
    <3>2. e = SDiv(a, b)
      BY <2>1, <2>4, Evaluated
    <3> QED
      BY <1>1, <1>2, <2>1, <2>4, <3>1, <3>2, QuotientIsSound
  <2>5. CASE op = "other"
    <3>1. e = Infinity
      BY <2>1, <2>5, Evaluated
    <3> QED
      BY <1>3, <1>4, <3>1
  <2> QED
    BY <2>2, <2>3, <2>4, <2>5
<1> QED
  BY <1>5, <1>6

(* Whatever the facts met so far, the operations applied to their meet and to any
   other operand miss no result, for words of any width. *)
THEOREM ArithmeticIsSound == Spec => []ArithmeticSound
<1>1. TypeOK => ArithmeticSound
  BY OperationsAreSound DEF TypeOK, ArithmeticSound
<1> QED
  BY <1>1, TypeCorrect, PTL

-----------------------------------------------------------------------------
(* Casts of words that are narrow too: truncation and sign extension keep them,
   zero extension keeps those that are not negative and moves the others up. *)
LEMMA FoldNarrow ==
  ASSUME NEW x \in Narrow
  PROVE  /\ Fold("trunc", x) = x /\ Fold("sext", x) = x
         /\ x >= 0 => Fold("zext", x) = x
         /\ x < 0 => Fold("zext", x) = IF NarrowHalf = Half THEN x ELSE x + 2 * NarrowHalf
         /\ x \in Word
<1>1. /\ x \in Int /\ NarrowHalf \in Nat /\ NarrowHalf > 0 /\ -NarrowHalf =< x /\ x < NarrowHalf
      /\ Half \in Nat /\ NarrowHalf =< Half /\ (NarrowHalf = Half \/ 2 * NarrowHalf =< Half)
  BY HalfAssumption DEF Narrow
<1>2. x % (2 * NarrowHalf) = IF x >= 0 THEN x ELSE x + 2 * NarrowHalf
  <2>1. \A n \in Int, m \in Nat : 0 =< n /\ n < m => n % m = n
    OBVIOUS
  <2>2. \A n \in Int, m \in Nat : -m =< n /\ n < 0 => n % m = n + m
    OBVIOUS
  <2> DEFINE m == 2 * NarrowHalf
  <2>3. m \in Nat /\ x < m /\ -m =< x /\ x \in Int
    BY <1>1
  <2> HIDE DEF m
  <2>4. ASSUME x >= 0 PROVE x % m = x
    BY <2>1, <2>3, <2>4
  <2>5. ASSUME x < 0 PROVE x % m = x + m
    BY <2>2, <2>3, <2>5
  <2>6. x % m = IF x >= 0 THEN x ELSE x + m
    BY <2>3, <2>4, <2>5
  <2> QED
    BY <2>6 DEF m
<1>3. Fold("trunc", x) = x
  BY <1>1, <1>2 DEF Fold
<1>4. Fold("sext", x) = x
  BY DEF Fold
<1>5. Fold("zext", x) = Signed(IF x < 0 THEN x + 2 * NarrowHalf ELSE x)
  BY DEF Fold
<1>6. x >= 0 => Fold("zext", x) = x
  BY <1>1, <1>5 DEF Signed
<1>7. x < 0 => Fold("zext", x) = IF NarrowHalf = Half THEN x ELSE x + 2 * NarrowHalf
  BY <1>1, <1>5 DEF Signed
<1>8. x \in Word
  BY <1>1 DEF Word
<1> QED
  BY <1>3, <1>4, <1>6, <1>7, <1>8

(* The cast of a range of narrow words holds the cast of each, zero extension
   provided that their sign is the same. *)
LEMMA CastIsSound ==
  ASSUME NEW a, Bounded(a), Ends(a) \subseteq Narrow, NEW op \in {"trunc", "sext", "zext"},
         op = "zext" => OneSign(a), NEW x \in Concrete(a, Narrow)
  PROVE  Fold(op, x) \in Concrete(evaluateCast(op, a), Word)
<1>1. /\ a.lvalue \in Narrow /\ a.rvalue \in Narrow /\ a.lvalue =< a.rvalue
  BY DEF Ends, Bounded
<1>2. Concrete(a, Narrow) = {w \in Narrow : a.lvalue =< w /\ w =< a.rvalue}
  BY DEF Concrete, Bounded
<1>3. x \in Narrow /\ a.lvalue =< x /\ x =< a.rvalue
  BY <1>2
<1>4. /\ x \in Int /\ a.lvalue \in Int /\ a.rvalue \in Int /\ NarrowHalf \in Nat /\ Half \in Nat
      /\ NarrowHalf > 0 /\ -NarrowHalf =< x /\ x < NarrowHalf
      /\ NarrowHalf = Half \/ 2 * NarrowHalf =< Half
  BY <1>1, <1>3, HalfAssumption DEF Narrow
<1>5. evaluateCast(op, a) = makeRange(Fold(op, a.lvalue), Fold(op, a.rvalue))
  <2>1. NoInt \notin Ends(a)
    BY <1>4, NoIntAssumption DEF Ends
  <2> QED
    BY <2>1 DEF evaluateCast, Bounded
<1>6. /\ Concrete(evaluateCast(op, a), Word)
           = {w \in Word : Fold(op, a.lvalue) =< w /\ w =< Fold(op, a.rvalue)}
  BY <1>5, Kinds DEF Concrete
<1>7. CASE op \in {"trunc", "sext"}
  <2>1. /\ Fold(op, a.lvalue) = a.lvalue /\ Fold(op, a.rvalue) = a.rvalue
        /\ Fold(op, x) = x /\ x \in Word
    BY <1>1, <1>3, <1>7, FoldNarrow
  <2> QED
    BY <1>3, <1>6, <2>1
<1>8. CASE op = "zext"
  <2>1. (a.lvalue < 0 <=> x < 0) /\ (a.rvalue < 0 <=> x < 0)
    <3>1. a.lvalue \in Concrete(a, Narrow) /\ a.rvalue \in Concrete(a, Narrow)
      BY <1>1, <1>2, <1>4
    <3> QED
      BY <1>8, <3>1 DEF OneSign
  <2>2. CASE x < 0
    <3>1. /\ Fold(op, a.lvalue) = IF NarrowHalf = Half THEN a.lvalue ELSE a.lvalue + 2 * NarrowHalf
          /\ Fold(op, a.rvalue) = IF NarrowHalf = Half THEN a.rvalue ELSE a.rvalue + 2 * NarrowHalf
          /\ Fold(op, x) = IF NarrowHalf = Half THEN x ELSE x + 2 * NarrowHalf
      BY <1>1, <1>3, <1>8, <2>1, <2>2, FoldNarrow
    <3>2. Fold(op, x) \in Word
      BY <1>4, <2>2, <3>1 DEF Word
    <3>3. Fold(op, a.lvalue) =< Fold(op, x) /\ Fold(op, x) =< Fold(op, a.rvalue)
      BY <1>3, <1>4, <3>1
    <3> QED
      BY <1>6, <3>2, <3>3
  <2>3. CASE x >= 0
    <3>1. a.lvalue >= 0 /\ a.rvalue >= 0
      BY <1>4, <2>1, <2>3
    <3>2. /\ Fold(op, a.lvalue) = a.lvalue /\ Fold(op, a.rvalue) = a.rvalue
          /\ Fold(op, x) = x /\ x \in Word
      BY <1>1, <1>3, <1>8, <2>3, <3>1, FoldNarrow
    <3> QED
      BY <1>3, <1>6, <3>2
  <2> QED
    BY <1>4, <2>2, <2>3
<1> QED
  BY <1>7, <1>8

(* A cast of the meet of what was found misses no value that fits both types,
   for words of any width. *)
THEOREM CastsAreSound == Spec => []CastSound
<1>1. TypeOK => CastSound
  <2> SUFFICES ASSUME TypeOK, isConstant(acc), Ends(acc) \subseteq Narrow,
                      NEW op \in {"trunc", "sext", "zext"}, op = "zext" => OneSign(acc),
                      NEW x \in Concrete(acc, Narrow)
               PROVE  Fold(op, x) \in Concrete(evaluateCast(op, acc), Word)
    BY DEF CastSound
  <2>1. Bounded(acc)
    BY ProperRange, Kinds DEF TypeOK, isConstant
  <2> QED
    BY <2>1, CastIsSound
<1> QED
  BY <1>1, TypeCorrect, PTL

-----------------------------------------------------------------------------
(* An operand that grew does not make the result of an operation shrink. *)
LEMMA BoundsGrow ==
  ASSUME NEW l \in Int, NEW r \in Int, NEW ll \in Int, NEW rr \in Int,
         ll =< l, l =< r, r =< rr
  PROVE  Below(Bounds(l, r), Bounds(ll, rr))
<1>1. CASE {ll, rr} \subseteq Word
  <2>1. {l, r} \subseteq Word
    BY <1>1, HalfAssumption DEF Word
  <2>2. Bounds(l, r) = makeRange(l, r) /\ Bounds(ll, rr) = makeRange(ll, rr)
    BY <1>1, <2>1 DEF Bounds
  <2> QED
    BY <2>2, Kinds DEF Below, isConstant
<1>2. CASE ~({ll, rr} \subseteq Word)
  BY <1>2 DEF Bounds, Below
<1> QED
  BY <1>1, <1>2

(* What is below a range with bounds, and what a range with bounds is below. *)
LEMMA BelowBounded ==
  ASSUME NEW a \in Proper, NEW b \in Proper, Below(a, b)
  PROVE  \/ a = Unknown
         \/ b = Infinity
         \/ Bounded(a) /\ Bounded(b) /\ b.lvalue =< a.lvalue /\ a.rvalue =< b.rvalue
<1>1. isConstant(a) => Bounded(a)
  BY ProperRange, Kinds DEF isConstant
<1>2. isConstant(b) => Bounded(b)
  BY ProperRange, Kinds DEF isConstant
<1> QED
  BY <1>1, <1>2 DEF Below

(* What lies within two ranges lies within wider ones, so the corners of the
   narrow ones lie between corners of the wide ones. *)
LEMMA Corners ==
  ASSUME NEW al \in Int, NEW ar \in Int, NEW bl \in Int, NEW br \in Int,
         NEW cl \in Int, NEW cr \in Int, NEW dl \in Int, NEW dr \in Int,
         cl =< al, al =< ar, ar =< cr, dl =< bl, bl =< br, br =< dr
  PROVE  /\ Below(Hull(Products(al, ar, bl, br)), Hull(Products(cl, cr, dl, dr)))
         /\ dl > 0 \/ dr < 0 =>
              Below(Hull(Quotients(al, ar, bl, br)), Hull(Quotients(cl, cr, dl, dr)))
<1> DEFINE P == Products(al, ar, bl, br)
           Q == Products(cl, cr, dl, dr)
           U == Quotients(al, ar, bl, br)
           V == Quotients(cl, cr, dl, dr)
<1>1. \A u \in {al, ar}, v \in {bl, br} :
        u \in Int /\ v \in Int /\ cl =< u /\ u =< cr /\ dl =< v /\ v =< dr
  OBVIOUS
<1>2. FourInts(P) /\ FourInts(Q)
  BY CornersAreFour
<1>3. \A z \in P : \E c, d \in Q : c =< z /\ z =< d
  <2> SUFFICES ASSUME NEW u \in {al, ar}, NEW v \in {bl, br}
               PROVE  \E c, d \in Q : c =< u * v /\ u * v =< d
    BY DEF Products
  <2> QED
    BY <1>1, ProductBetween
<1>4. ASSUME dl > 0 \/ dr < 0
      PROVE  /\ FourInts(U) /\ FourInts(V)
             /\ \A z \in U : \E c, d \in V : c =< z /\ z =< d
  <2>1. bl # 0 /\ br # 0 /\ dl # 0 /\ dr # 0
    BY <1>4
  <2>2. FourInts(U) /\ FourInts(V)
    BY <2>1, CornersAreFour
  <2>3. ASSUME NEW u \in {al, ar}, NEW v \in {bl, br}
        PROVE  \E c, d \in V : c =< sdiv(u, v) /\ sdiv(u, v) =< d
    BY <1>1, <1>4, QuotientBetween
  <2>4. \A z \in U : \E c, d \in V : c =< z /\ z =< d
    BY <2>3 DEF Quotients
  <2> QED
    BY <2>2, <2>4
<1> HIDE DEF P, Q, U, V
<1>5. Below(Hull(P), Hull(Q))
  BY <1>2, <1>3, HullGrows
<1>6. dl > 0 \/ dr < 0 => Below(Hull(U), Hull(V))
  BY <1>4, HullGrows
<1> QED
  BY <1>5, <1>6 DEF P, Q, U, V

(* The hull of numbers no further from zero than r is within -r and r. *)
LEMMA HullWithin ==
  ASSUME NEW S, FourInts(S), NEW r \in Nat, r < Half, \A z \in S : -r =< z /\ z =< r
  PROVE  Below(Hull(S), makeRange(-r, r))
<1>1. Min(S) \in S /\ Max(S) \in S /\ \A z \in S : z \in Int /\ Min(S) =< z /\ z =< Max(S)
  BY Extremes DEF FourInts
<1>2. S \subseteq Word
  BY <1>1, HalfAssumption DEF Word
<1>3. Hull(S) = makeRange(Min(S), Max(S))
  BY <1>2 DEF Hull
<1> QED
  BY <1>1, <1>3, Kinds DEF Below, isConstant

LEMMA QuotientsGrow ==
  ASSUME NEW a, NEW aa, NEW b, NEW bb, Bounded(a), Bounded(aa), Bounded(b), Bounded(bb),
         aa.lvalue =< a.lvalue, a.rvalue =< aa.rvalue, bb.lvalue =< b.lvalue, b.rvalue =< bb.rvalue,
         HasMagnitude(a), HasMagnitude(aa), SDiv(a, b) # Fault, SDiv(aa, bb) # Fault
  PROVE  Below(SDiv(a, b), SDiv(aa, bb))
<1>1. /\ a.lvalue \in Int /\ a.rvalue \in Int /\ a.lvalue =< a.rvalue
      /\ aa.lvalue \in Int /\ aa.rvalue \in Int /\ b.lvalue =< b.rvalue
      /\ b.lvalue \in Int /\ b.rvalue \in Int
      /\ bb.lvalue \in Int /\ bb.rvalue \in Int
  BY DEF Bounded
<1>2. /\ Reach(a) \in Nat /\ Reach(aa) \in Nat /\ Reach(aa) < Half
      /\ \A x \in Int : aa.lvalue =< x /\ x =< aa.rvalue => Magnitude(x) =< Reach(aa)
  BY Divided
<1>3. Reach(a) =< Reach(aa)
  <2>1. Magnitude(a.lvalue) =< Reach(aa) /\ Magnitude(a.rvalue) =< Reach(aa)
    BY <1>1, <1>2
  <2> QED
    BY <2>1 DEF Reach, Larger
<1>4. CASE Straddles(b)
  <2>1. Straddles(bb)
    BY <1>1, <1>4 DEF Straddles
  <2>2. SDiv(a, b) = makeRange(-Reach(a), Reach(a)) /\ SDiv(aa, bb) = makeRange(-Reach(aa), Reach(aa))
    BY <1>4, <2>1, Divided
  <2> QED
    BY <1>2, <1>3, <2>2, Kinds DEF Below, isConstant
<1>5. CASE ~Straddles(b)
  <2> DEFINE S == Quotients(a.lvalue, a.rvalue, b.lvalue, b.rvalue)
             T == Quotients(aa.lvalue, aa.rvalue, bb.lvalue, bb.rvalue)
  <2>1. SDiv(a, b) = Hull(S) /\ (b.lvalue > 0 \/ b.rvalue < 0)
    BY <1>5, Divided
  <2>2. CASE Straddles(bb)
    <3>1. SDiv(aa, bb) = makeRange(-Reach(aa), Reach(aa))
      BY <2>2, Divided
    <3>2. FourInts(S)
      BY <1>1, <2>1, CornersAreFour
    <3>3. ASSUME NEW u \in {a.lvalue, a.rvalue}, NEW v \in {b.lvalue, b.rvalue}
          PROVE  -Reach(aa) =< sdiv(u, v) /\ sdiv(u, v) =< Reach(aa)
      <4>1. u \in Int /\ v \in Int /\ v # 0 /\ aa.lvalue =< u /\ u =< aa.rvalue
        BY <1>1, <2>1
      <4>2. /\ sdiv(u, v) \in Int /\ Magnitude(u) \in Nat
            /\ -Magnitude(u) =< sdiv(u, v) /\ sdiv(u, v) =< Magnitude(u)
        BY <4>1, SignedQuotient, Magnitudes
      <4>3. Magnitude(u) =< Reach(aa)
        BY <1>2, <4>1
      <4> QED
        BY <1>2, <4>2, <4>3
    <3>4. \A z \in S : -Reach(aa) =< z /\ z =< Reach(aa)
      BY <3>3 DEF Quotients
    <3> HIDE DEF S
    <3> QED
      BY <1>2, <2>1, <3>1, <3>2, <3>4, HullWithin
  <2>3. CASE ~Straddles(bb)
    <3>1. SDiv(aa, bb) = Hull(T) /\ (bb.lvalue > 0 \/ bb.rvalue < 0)
      BY <2>3, Divided
    <3>2. Below(Hull(S), Hull(T))
      BY <1>1, <3>1, Corners
    <3> QED
      BY <2>1, <3>1, <3>2
  <2> QED
    BY <2>2, <2>3
<1> QED
  BY <1>4, <1>5

LEMMA OperationsGrow ==
  ASSUME NEW a \in Proper, NEW aa \in Proper, NEW b \in Proper, NEW bb \in Proper,
         Below(a, aa), Below(b, bb), NEW op \in {"add", "sub", "mul", "sdiv", "other"},
         op = "sdiv" => HasMagnitude(a) /\ HasMagnitude(aa)
  PROVE  Grows(evaluateBinOP(op, a, b), evaluateBinOP(op, aa, bb))
<1>1. CASE Infinity \in {aa, bb}
  <2>1. ~(isConstant(aa) /\ isConstant(bb))
    BY <1>1, Kinds DEF isConstant
  <2>2. evaluateBinOP(op, aa, bb) = Infinity
    BY <1>1, <2>1 DEF evaluateBinOP
  <2> QED
    BY <2>2 DEF Grows, Below
<1>2. CASE Infinity \notin {aa, bb} /\ Unknown \in {a, b}
  <2>1. Infinity \notin {a, b}
    BY <1>2, Kinds DEF Below, isConstant
  <2>2. ~(isConstant(a) /\ isConstant(b))
    BY <1>2, Kinds DEF isConstant
  <2>3. evaluateBinOP(op, a, b) = Unknown
    BY <2>1, <2>2 DEF evaluateBinOP
  <2> QED
    BY <2>3 DEF Grows, Below
<1>3. CASE Infinity \notin {aa, bb} /\ Unknown \notin {a, b}
  <2>1. /\ Bounded(a) /\ Bounded(aa) /\ aa.lvalue =< a.lvalue /\ a.rvalue =< aa.rvalue
        /\ Bounded(b) /\ Bounded(bb) /\ bb.lvalue =< b.lvalue /\ b.rvalue =< bb.rvalue
    BY <1>3, BelowBounded
  <2>2. /\ a.lvalue \in Int /\ a.rvalue \in Int /\ a.lvalue =< a.rvalue
        /\ aa.lvalue \in Int /\ aa.rvalue \in Int
        /\ b.lvalue \in Int /\ b.rvalue \in Int /\ b.lvalue =< b.rvalue
        /\ bb.lvalue \in Int /\ bb.rvalue \in Int
    BY <2>1 DEF Bounded
  <2>3. CASE op = "add"
    <3>1. /\ evaluateBinOP(op, a, b) = Bounds(a.lvalue + b.lvalue, a.rvalue + b.rvalue)
          /\ evaluateBinOP(op, aa, bb) = Bounds(aa.lvalue + bb.lvalue, aa.rvalue + bb.rvalue)
      BY <2>1, <2>3, Evaluated
    <3>2. /\ aa.lvalue + bb.lvalue =< a.lvalue + b.lvalue
          /\ a.lvalue + b.lvalue =< a.rvalue + b.rvalue
          /\ a.rvalue + b.rvalue =< aa.rvalue + bb.rvalue
      BY <2>1, <2>2
    <3>3. Below(Bounds(a.lvalue + b.lvalue, a.rvalue + b.rvalue),
                Bounds(aa.lvalue + bb.lvalue, aa.rvalue + bb.rvalue))
      BY <2>2, <3>2, BoundsGrow
    <3> QED
      BY <3>1, <3>3 DEF Grows
  <2>4. CASE op = "sub"
    <3>1. /\ evaluateBinOP(op, a, b) = Bounds(a.lvalue - b.rvalue, a.rvalue - b.lvalue)
          /\ evaluateBinOP(op, aa, bb) = Bounds(aa.lvalue - bb.rvalue, aa.rvalue - bb.lvalue)
      BY <2>1, <2>4, Evaluated
    <3>2. /\ aa.lvalue - bb.rvalue =< a.lvalue - b.rvalue
          /\ a.lvalue - b.rvalue =< a.rvalue - b.lvalue
          /\ a.rvalue - b.lvalue =< aa.rvalue - bb.lvalue
      BY <2>1, <2>2
    <3>3. Below(Bounds(a.lvalue - b.rvalue, a.rvalue - b.lvalue),
                Bounds(aa.lvalue - bb.rvalue, aa.rvalue - bb.lvalue))
      BY <2>2, <3>2, BoundsGrow
    <3> QED
      BY <3>1, <3>3 DEF Grows
  <2>5. CASE op = "mul"
    <3>1. /\ evaluateBinOP(op, a, b) = Hull(Products(a.lvalue, a.rvalue, b.lvalue, b.rvalue))
          /\ evaluateBinOP(op, aa, bb) = Hull(Products(aa.lvalue, aa.rvalue, bb.lvalue, bb.rvalue))
      BY <2>1, <2>5, Evaluated
    <3>2. Below(Hull(Products(a.lvalue, a.rvalue, b.lvalue, b.rvalue)),
                Hull(Products(aa.lvalue, aa.rvalue, bb.lvalue, bb.rvalue)))
      BY <2>1, <2>2, Corners
    <3> QED
      BY <3>1, <3>2 DEF Grows
  <2>6. CASE op = "sdiv"
    <3>1. evaluateBinOP(op, a, b) = SDiv(a, b) /\ evaluateBinOP(op, aa, bb) = SDiv(aa, bb)
      BY <2>1, <2>6, Evaluated
    <3>2. Fault \in {SDiv(a, b), SDiv(aa, bb)} \/ Below(SDiv(a, b), SDiv(aa, bb))
      BY <2>1, <2>6, QuotientsGrow
    <3> QED
      BY <3>1, <3>2 DEF Grows
  <2>7. CASE op = "other"
    BY <2>1, <2>7, Evaluated DEF Grows, Below
  <2> QED
    BY <2>3, <2>4, <2>5, <2>6, <2>7
<1> QED
  BY <1>1, <1>2, <1>3

(* A meet only adds to what is known of the operand, so no operation applied to it
   answers less than before: a loop of the analysed program drives the ranges one
   way, for words of any width. *)
THEOREM OperationsAreMonotone == Spec => Monotone
<1> DEFINE Step ==
      \A b \in Proper : \A op \in {"add", "sub", "mul", "sdiv", "other"} :
        /\ (op = "sdiv" => HasMagnitude(acc) /\ HasMagnitude(acc')) =>
             Grows(evaluateBinOP(op, acc, b), evaluateBinOP(op, acc', b))
        /\ (op = "sdiv" => HasMagnitude(b)) =>
             Grows(evaluateBinOP(op, b, acc), evaluateBinOP(op, b, acc'))
<1>1. \A b \in Proper : Below(b, b)
  BY Shapes, HalfAssumption DEF Below, Word
<1>2. ASSUME TypeOK, NEW r \in Proper, Meet(r)
      PROVE  acc \in Proper /\ acc' \in Proper /\ Below(acc, acc')
  BY <1>2, JoinIsLeast DEF TypeOK, Meet
<1>3. ASSUME TypeOK, NEW r \in Proper, Meet(r)
      PROVE  Step
  <2> SUFFICES ASSUME NEW b \in Proper, NEW op \in {"add", "sub", "mul", "sdiv", "other"}
               PROVE  /\ (op = "sdiv" => HasMagnitude(acc) /\ HasMagnitude(acc')) =>
                           Grows(evaluateBinOP(op, acc, b), evaluateBinOP(op, acc', b))
                      /\ (op = "sdiv" => HasMagnitude(b)) =>
                           Grows(evaluateBinOP(op, b, acc), evaluateBinOP(op, b, acc'))
    OBVIOUS
  <2>1. acc \in Proper /\ acc' \in Proper /\ Below(acc, acc') /\ Below(b, b)
    BY <1>1, <1>2, <1>3
  <2> QED
    BY <2>1, OperationsGrow
<1>4. TypeOK /\ [Next]_vars => [Step]_vars
  BY <1>3 DEF Next
<1> QED
  BY <1>4, TypeCorrect, PTL DEF Spec, Monotone
=============================================================================
