----------------------------- MODULE RangeMeet -----------------------------
(***************************************************************************)
(* Meeting ranges, and what the operations of RangeDomain promise.  The    *)
(* state machine folds what is known of a value on several paths, as       *)
(* Meet::operator() of DataflowAnalysis.h does; the value so far is also   *)
(* the operand the properties put into every operation.                    *)
(***************************************************************************)
EXTENDS RangeDomain

(* Meet::operator() folds its arguments, starting from a new RangeValue. *)
CONSTANT MaxMet      \* how many arguments are considered
VARIABLES acc, met   \* the value so far, and what it was met with
vars == <<acc, met>>

Init == acc = Unknown /\ met = {}
Meet(r) == /\ Cardinality(met \cup {r}) =< MaxMet
           /\ acc' = Join(acc, r)
           /\ met' = met \cup {r}
Next == \E r \in Proper : Meet(r)
Spec == Init /\ [][Next]_vars

-----------------------------------------------------------------------------
TypeOK == acc \in Proper /\ met \subseteq Proper

(* The order in which facts arrive does not matter, and no precision is lost:
   the result is the least range above everything that was met. *)
MeetIsLeast ==
  /\ \A r \in met : Below(r, acc)
  /\ \A u \in Proper : (\A r \in met : Below(r, u)) => Below(acc, u)

Results(op, a, b) ==
  UNION {Result(op, x, y) : x \in Concrete(a, Word), y \in Concrete(b, Word)}
SoundFor(op, a, b) ==
  LET r == evaluateBinOP(op, a, b)
  IN r # Fault => Results(op, a, b) \subseteq Concrete(r, Word)

(* The range of a sum, difference, product or signed quotient contains every
   result the program can have, overflow included; a quotient provided that
   the dividend's range does not start at the least word, whose magnitude the
   division takes to be negative. *)
HasMagnitude(r) == isConstant(r) => r.lvalue > -Half
ArithmeticSound ==
  \A b \in Proper : \A op \in {"add", "sub", "mul", "sdiv", "other"} :
    (op = "sdiv" => HasMagnitude(acc)) => SoundFor(op, acc, b)

(* A cast of a range contains the cast of every value in it, as long as the
   values are words of the narrow type too and, for a zero extension, are all
   negative or none is: without this the cast turns the range around. *)
OneSign(r) == \A x, y \in Concrete(r, Narrow) : x < 0 <=> y < 0
CastSound ==
  isConstant(acc) /\ Ends(acc) \subseteq Narrow =>
    \A op \in {"trunc", "sext", "zext"} :
      (op = "zext" => OneSign(acc)) =>
        \A x \in Concrete(acc, Narrow) : Fold(op, x) \in Concrete(evaluateCast(op, acc), Word)

(* More is never answered by less: an operand that grew cannot make the result
   of an operation shrink, so the analysis of a loop moves one way.  The same
   dividends are excepted. *)
Grows(r, s) == Fault \in {r, s} \/ Below(r, s)
Monotone ==
  [][\A b \in Proper : \A op \in {"add", "sub", "mul", "sdiv", "other"} :
       /\ (op = "sdiv" => HasMagnitude(acc) /\ HasMagnitude(acc')) =>
            Grows(evaluateBinOP(op, acc, b), evaluateBinOP(op, acc', b))
       /\ (op = "sdiv" => HasMagnitude(b)) =>
            Grows(evaluateBinOP(op, b, acc), evaluateBinOP(op, b, acc'))]_vars

(* "this method keeps soundness of the value range analysis": of unsigned
   division as well, at the very least where no sign bit is set. *)
Positive(r)   == isConstant(r) /\ r.lvalue > 0
UnsignedSound ==
  Positive(acc) => \A b \in Proper : Positive(b) => SoundFor("udiv", acc, b)
=============================================================================
