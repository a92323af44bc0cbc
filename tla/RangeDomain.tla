---------------------------- MODULE RangeDomain ----------------------------
(***************************************************************************)
(* The ranges of StaticAnalysis/ValueRange/ValueRange.cpp: what is known   *)
(* of an integer is nothing, two bounds, or that it can be anything.       *)
(*                                                                         *)
(* An APInt is its signed value.  Words have Half values below zero, that  *)
(* is, Half is 2^(w - 1) for integers of w bits; casts go between words    *)
(* and narrow words, which are no wider, and half as wide or less when     *)
(* they are narrower.                                                      *)
(***************************************************************************)
EXTENDS Integers, FiniteSetsExt

CONSTANTS Half, NarrowHalf,
          NoInt    \* the null pointer a bound is when folding gives no integer
ASSUME HalfAssumption ==
  /\ Half \in Nat /\ NarrowHalf \in 1..Half
  /\ NarrowHalf = Half \/ 2 * NarrowHalf =< Half
ASSUME NoIntAssumption == NoInt \notin Int

Word   == (-Half)..(Half - 1)
Narrow == (-NarrowHalf)..(NarrowHalf - 1)

Unknown   == [kind |-> "unknown"]
Infinity  == [kind |-> "infinity"]
Fault     == [kind |-> "fault"]      \* the analysis itself divides by zero or
                                     \* reads through a bound that is null
makeRange(l, r) == [kind |-> "constant", lvalue |-> l, rvalue |-> r]

isConstant(a) == a.kind = "constant"
Ends(a) == {a.lvalue, a.rvalue}
RangesOf(W) == {makeRange(l, r) : l, r \in W}
RangeValue  == {Unknown, Infinity} \cup RangesOf(Word)

Smaller(x, y) == IF x < y THEN x ELSE y
Larger(x, y)  == IF x > y THEN x ELSE y

(* Faulty variants: bounds exchanged; the upper bounds not compared. *)
JoinInner(a, b) ==
  IF isConstant(a) /\ isConstant(b)
  THEN makeRange(Larger(a.lvalue, b.lvalue), Smaller(a.rvalue, b.rvalue))
  ELSE IF Infinity \in {a, b} THEN Infinity ELSE IF a = Unknown THEN b ELSE a
JoinOneEnd(a, b) ==
  IF isConstant(a) /\ isConstant(b)
  THEN makeRange(Smaller(a.lvalue, b.lvalue), b.rvalue)
  ELSE IF Infinity \in {a, b} THEN Infinity ELSE IF a = Unknown THEN b ELSE a

(* operator|, which the analysis calls meet. *)
Join(a, b) ==
  CASE a = Unknown -> b
    [] a # Unknown /\ b = Unknown -> a
    [] Unknown \notin {a, b} /\ Infinity \in {a, b} -> Infinity
    [] OTHER -> IF NoInt \in Ends(a) \cup Ends(b) THEN Fault
                ELSE makeRange(Smaller(a.lvalue, b.lvalue), Larger(a.rvalue, b.rvalue))

-----------------------------------------------------------------------------
(* Faulty variants: subtraction of lower from lower bound; bounds that wrap
   around on overflow; bounds that grow beyond the word. *)
SubStraight(a, b) ==
  IF {a.lvalue - b.lvalue, a.rvalue - b.rvalue} \subseteq Word
  THEN makeRange(a.lvalue - b.lvalue, a.rvalue - b.rvalue) ELSE Infinity

BoundsWrapped(l, r) ==
  makeRange(((l + Half) % (2 * Half)) - Half, ((r + Half) % (2 * Half)) - Half)

BoundsBeyond(l, r) == makeRange(l, r)

(* Bounds, unless computing one of them overflowed. *)
Bounds(l, r) == IF {l, r} \subseteq Word THEN makeRange(l, r) ELSE Infinity
Hull(S) == IF S \subseteq Word THEN makeRange(Min(S), Max(S)) ELSE Infinity

Add(a, b) == Bounds(a.lvalue + b.lvalue, a.rvalue + b.rvalue)
Sub(a, b) == Bounds(a.lvalue - b.rvalue, a.rvalue - b.lvalue)
Mul(a, b) == Hull({x * y : x \in Ends(a), y \in Ends(b)})

(* Division of APInts truncates; the magnitude of the least word is itself. *)
Magnitude(x) == IF x < 0 THEN -x ELSE x
Wrap(x)      == IF x = Half THEN -Half ELSE x
abs(x)       == Wrap(Magnitude(x))
sdiv(x, y)   == LET q == Magnitude(x) \div Magnitude(y)
                IN IF (x < 0) = (y < 0) THEN q ELSE -q

SDiv(a, b) ==
  IF b.lvalue < 0 /\ b.rvalue > 0
  THEN LET m == Larger(abs(a.lvalue), abs(a.rvalue)) IN makeRange(Wrap(-m), m)
  ELSE IF 0 \in Ends(b) THEN Fault
  ELSE Hull({sdiv(x, y) : x \in Ends(a), y \in Ends(b)})

Unsigned(x) == IF x < 0 THEN x + 2 * Half ELSE x
Signed(x)   == IF x >= Half THEN x - 2 * Half ELSE x
udiv(x, y)  == Signed(Unsigned(x) \div Unsigned(y))
UDiv(a, b) ==
  IF 0 \in Ends(b) THEN Fault
  ELSE makeRange(udiv(a.rvalue, b.lvalue), udiv(a.lvalue, b.rvalue))

BinaryOp == {"add", "sub", "mul", "sdiv", "udiv", "other"}
evaluateBinOP(op, a, b) ==
  IF isConstant(a) /\ isConstant(b)
  THEN IF NoInt \in Ends(a) \cup Ends(b) THEN Fault
       ELSE CASE op = "add"  -> Add(a, b)
              [] op = "sub"  -> Sub(a, b)
              [] op = "mul"  -> Mul(a, b)
              [] op = "sdiv" -> SDiv(a, b)
              [] op = "udiv" -> UDiv(a, b)
              [] op = "other" -> Infinity
  ELSE IF Infinity \in {a, b} THEN Infinity ELSE Unknown

(* Folding a cast of a bound: words are truncated, narrow words extended.  A
   floating-point constant and the null pointer are no ConstantInt. *)
Fold(op, x) ==
  CASE op = "trunc" -> LET u == x % (2 * NarrowHalf)
                       IN IF u >= NarrowHalf THEN u - 2 * NarrowHalf ELSE u
    [] op = "sext"  -> x
    [] op = "zext"  -> Signed(IF x < 0 THEN x + 2 * NarrowHalf ELSE x)
    [] op \in {"itofp", "inttoptr"} -> NoInt
CastOp == {"trunc", "sext", "zext", "itofp", "inttoptr"}

(* A faulty variant: the lower bound cast only. *)
CastLower(op, a) ==
  IF ~isConstant(a) THEN a
  ELSE IF NoInt \in Ends(a) THEN Fault
  ELSE IF op = "inttoptr" /\ Ends(a) # {0} THEN Infinity
  ELSE makeRange(Fold(op, a.lvalue), Fold(op, a.lvalue))

(* Other addresses than null stay constant expressions. *)
evaluateCast(op, a) ==
  IF ~isConstant(a) THEN a
  ELSE IF NoInt \in Ends(a) THEN Fault
  ELSE IF op = "inttoptr" /\ Ends(a) # {0} THEN Infinity
  ELSE makeRange(Fold(op, a.lvalue), Fold(op, a.rvalue))

-----------------------------------------------------------------------------
(* The ranges whose bounds are in order; an unsigned quotient may be none. *)
Proper == {Unknown, Infinity} \cup {r \in RangesOf(Word) : r.lvalue =< r.rvalue}

(* The integers a range stands for. *)
Concrete(r, W) == CASE r = Unknown  -> {}
                    [] r = Infinity -> W
                    [] OTHER        -> {x \in W : r.lvalue =< x /\ x =< r.rvalue}

(* What is known of a is no less than what is known of b. *)
Below(a, b) == \/ a = Unknown \/ b = Infinity
               \/ isConstant(a) /\ isConstant(b) /\ b.lvalue =< a.lvalue /\ a.rvalue =< b.rvalue

(* What the program computes: words wrap around; division by zero, and of the
   least word by -1, are no results. *)
WrapWord(x) == ((x + Half) % (2 * Half)) - Half
Result(op, x, y) ==
  CASE op = "add"  -> {WrapWord(x + y)}
    [] op = "sub"  -> {WrapWord(x - y)}
    [] op = "mul"  -> {WrapWord(x * y)}
    [] op = "sdiv" -> IF y = 0 \/ (x = -Half /\ y = -1) THEN {} ELSE {sdiv(x, y)}
    [] op = "udiv" -> IF y = 0 THEN {} ELSE {udiv(x, y)}
    [] op = "other" -> Word
=============================================================================
