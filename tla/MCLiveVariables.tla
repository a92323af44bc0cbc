-------------------------- MODULE MCLiveVariables --------------------------
(***************************************************************************)
(* Functions for TLC.  Blocks a, b, c make every control-flow graph of     *)
(* their size whose entry is a; with e they make a loop that is left; d    *)
(* and e are a second function.  x is an argument, y an instruction, p a   *)
(* phi instruction.                                                        *)
(***************************************************************************)
EXTENDS LiveVariables

MCBlock == {"a", "b", "c", "d", "e"}
MCVar   == {"x", "y", "p"}
MCNone  == "none"
MCGarbage == {7}

jump      == [op |-> "terminator", def |-> "none", uses |-> {}, incoming |-> {}]
branch(v) == [op |-> "terminator", def |-> "none", uses |-> {v}, incoming |-> {}]
define(v, used) == [op |-> "other", def |-> v, uses |-> used, incoming |-> {}]
phi(v, e) == [op |-> "phi", def |-> v, uses |-> {}, incoming |-> e]

Func(blocks, succ, code) ==
  [ blocks |-> blocks,
    succ |-> [z \in MCBlock |-> IF z \in DOMAIN succ THEN succ[z] ELSE << >>],
    code |-> [z \in MCBlock |-> IF z \in DOMAIN code THEN code[z] ELSE << >>] ]

Entries(succ, b) == {q \in DOMAIN succ : b \in Range(succ[q])}

(* Three blocks: every graph, with uses of y before, after and in loops, a
   definition in front of a use, and a phi instruction or none in c; y is an
   instruction of a, or of b and only used by the phi instruction. *)
Graphs ==
  [ {"a", "b", "c"} ->
      {<< >>} \cup {<<t>> : t \in {"b", "c"}} \cup {<<"b", "c">>, <<"c", "c">>} ]
Plain(s, cb, cc) ==
  Func(<<"a", "b", "c">>, s,
       [z \in {"a", "b", "c"} |-> CASE z = "a" -> <<define("y", {"x"}), jump>>
                                    [] z = "b" -> cb
                                    [] z = "c" -> cc])
PhiOf(s, v) ==
  <<phi("p", {<<q, IF q = "b" THEN "y" ELSE v>> : q \in Entries(s, "c")}), branch("p")>>
OneFunction ==
  { <<Plain(s, cb, cc)>> :
      s \in Graphs,
      cb \in {<<jump>>, <<branch("y")>>, <<define("none", {"x"}), branch("x")>>},
      cc \in {<<jump>>, <<branch("x")>>, <<define("none", {"y"}), jump>>} }
  \cup { <<Plain(s, cb, PhiOf(s, "y"))>> : s \in Graphs, cb \in {<<jump>>, <<branch("x")>>} }
  \cup { <<[Plain(s, <<define("y", {"x"}), jump>>, PhiOf(s, "x"))
              EXCEPT !.code["a"] = <<jump>>]>> : s \in Graphs }

(* Four blocks: b and c make a loop that is left for e. *)
LoopGraphs ==
  { [z \in {"a", "b", "c", "e"} |->
       CASE z = "a" -> <<"b", "c">> [] z = "b" -> sb [] z = "c" -> sc [] z = "e" -> << >>] :
      sb \in {<<"c">>, <<"c", "e">>, <<"e">>},
      sc \in {<<"b">>, <<"b", "e">>, <<"e", "b">>} }
LoopFunction ==
  { <<Func(<<"a", "b", "c", "e">>, s,
           [z \in {"a", "b", "c", "e"} |->
              CASE z = "a" -> <<define("y", {"x"}), jump>> [] z = "b" -> cb
                [] z = "c" -> cc [] z = "e" -> ce])>> :
      s \in LoopGraphs, cb \in {<<jump>>, <<branch("x")>>},
      cc \in {<<jump>>, <<branch("y")>>}, ce \in {<<jump>>, <<branch("x")>>} }

(* A second function, with a loop, after some of these. *)
Second == Func(<<"d", "e">>, [z \in {"d", "e"} |-> IF z = "d" THEN <<"e", "d">> ELSE << >>],
               [z \in {"d", "e"} |-> IF z = "d" THEN <<define("none", {"x"}), jump>>
                                                ELSE <<branch("x")>>])
TwoFunctions ==
  { m \o <<Second>> : m \in {k \in OneFunction : k[1].succ["a"] = <<"b", "c">>
                                              /\ k[1].succ["b"] = <<"c">>} }
AllModules == OneFunction \cup LoopFunction \cup TwoFunctions
=============================================================================
