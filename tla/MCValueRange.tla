---------------------------- MODULE MCValueRange ----------------------------
(***************************************************************************)
(* Programs for TLC, over words of three bits.  Functions are main, f, g,  *)
(* h and k; every function's values and blocks have names of their own.      *)
(***************************************************************************)
EXTENDS ValueRange

Digit == {"0", "1", "2", "3", "-1", "-2"}
MCIntValue == [c \in Digit |->
  CASE c = "0" -> 0 [] c = "1" -> 1 [] c = "2" -> 2 [] c = "3" -> 3 [] c = "-1" -> -1 [] c = "-2" -> -2]
Names == {"i", "j", "n", "p", "q", "r", "s", "t", "u", "v", "w", "x", "y", "z"}
Terminators == {"end" \o b : b \in {"M1", "M2", "M3", "M4", "F1", "F2", "F3", "G1", "H1", "K1"}}
MCValue == Digit \cup Names \cup Terminators \cup {"a", "b", "c", "d"}
MCBlock == {"M1", "M2", "M3", "M4", "F1", "F2", "F3", "G1", "H1", "K1"}
MCFunctionName == {"main", "f", "g", "h", "k"}
MCObject == [v \in {"a", "b", "c", "d"} |->
  CASE v = "a" -> [type |-> "array", size |-> 2]
    [] v \in {"b", "d"} -> [type |-> "struct", size |-> 2]
    [] v = "c" -> [type |-> "other", size |-> 0]]

I(id, op, args) == [id |-> id, op |-> op, args |-> args, from |-> << >>, callee |-> "main"]
phi(id, args, from) == [I(id, "phi", args) EXCEPT !.from = from]
call(id, callee, args) == [I(id, "call", args) EXCEPT !.callee = callee]
access(id, index) == I(id, "access", <<index>>)
br(b) == I("end" \o b, "br", << >>)
ret(b, v) == I("end" \o b, "ret", <<v>>)
retVoid(b) == I("end" \o b, "ret", << >>)

Func(params, blocks, succ, code) ==
  [params |-> params, blocks |-> blocks,
   succ |-> [b \in MCBlock |-> IF b \in DOMAIN succ THEN succ[b] ELSE << >>],
   code |-> [b \in MCBlock |-> IF b \in DOMAIN code THEN code[b] ELSE << >>]]
Program(functions) == [main |-> "main", functions |-> functions]
Straight(params, b, code) == Func(params, <<b>>, [z \in {} |-> << >>], [z \in {b} |-> code])

(* A loop that counts, or does something else with its variable, and indexes
   an array, a structure or anything with it. *)
Loop(op, first, step, object) ==
  Func(<< >>, <<"M1", "M2", "M3", "M4">>,
    [z \in {"M1", "M2", "M3"} |-> CASE z = "M1" -> <<"M2">> [] z = "M2" -> <<"M4", "M3">>
                                     [] z = "M3" -> <<"M2">>],
    [z \in {"M1", "M2", "M3", "M4"} |->
       CASE z = "M1" -> <<br("M1")>>
         [] z = "M2" -> <<phi("i", <<first, "n">>, <<"M1", "M3">>), br("M2")>>
         [] z = "M3" -> <<I("n", op, <<"i", step>>), access(object, "i"), br("M3")>>
         [] z = "M4" -> <<access("d", "1"), retVoid("M4")>>])
Loops == {Program([z \in {"main"} |-> Loop(op, first, step, object)]) :
            op \in {"add", "sub", "mul"}, first \in {"0", "2"}, step \in {"1", "-1"},
            object \in {"a", "b", "c"}}

(* Calls three deep: g is called twice by main, and calls h through f, so that
   both activations of g share what is known of h. *)
Branching(code, other, then) ==
  Func(<< >>, <<"M1", "M2", "M3">>,
    [z \in {"M1", "M2"} |-> IF z = "M1" THEN <<"M3", "M2">> ELSE <<"M3">>],
    [z \in {"M1", "M2", "M3"} |-> CASE z = "M1" -> code \o <<br("M1")>>
                                    [] z = "M2" -> other \o <<br("M2")>>
                                    [] z = "M3" -> then \o <<retVoid("M3")>>])
Chain(main) ==
  Program([z \in {"main", "f", "g", "h"} |->
    CASE z = "main" -> main
      [] z = "g" -> Straight(<<"p">>, "G1", <<call("q", "f", <<"p">>), ret("G1", "q")>>)
      [] z = "f" -> Func(<<"r">>, <<"F1", "F2", "F3">>,
                         [b \in {"F1", "F2"} |-> IF b = "F1" THEN <<"F2", "F3">> ELSE <<"F3">>],
                         [b \in {"F1", "F2", "F3"} |->
                            CASE b = "F1" -> <<br("F1")>>
                              [] b = "F2" -> <<call("s", "h", <<"r">>), br("F2")>>
                              [] b = "F3" -> <<phi("t", <<"s", "r">>, <<"F2", "F1">>), ret("F3", "t")>>])
      [] z = "h" -> Straight(<<"u">>, "H1", <<I("v", "sub", <<"u", "2">>), access("a", "v"),
                                              ret("H1", "v")>>)])
Chains ==
  {Chain(Branching(<<call("x", "g", <<first>>)>>, <<call("y", "g", <<second>>)>>,
                   <<phi("z", <<"x", "y">>, <<"M1", "M2">>), access("b", "z")>>)) :
     first \in {"0", "3"}, second \in {"1", "3"}}

(* A call in a loop, with an argument that grows while the callee is known. *)
CallLoop(callee) ==
  Program([z \in {"main", "h"} |->
    IF z = "h" THEN callee ELSE
      [Loop("add", "0", "1", "a") EXCEPT
         !.code["M3"] = <<call("n", "h", <<"i">>), access("a", "n"), br("M3")>>]])
CallLoops ==
  {CallLoop(Straight(<<"u">>, "H1", <<I("v", op, <<"u", "1">>), ret("H1", "v")>>)) :
     op \in {"add", "sub", "other"}}

(* Division by a range with zero at an end, which the analysis does not
   survive; words of unknown origin; a word cut to a narrow one. *)
Odd ==
  {Program([z \in {"main"} |-> Straight(<< >>, "M1", code \o <<retVoid("M1")>>)]) :
     code \in { <<I("i", "sdiv", <<"3", "0">>)>>,
                <<I("i", "opaque", << >>), I("j", "add", <<"i", "1">>), access("a", "j")>>,
                <<I("i", "add", <<"2", "1">>), access("a", "i")>>,
                <<I("i", "sub", <<"0", "1">>), I("j", "sext", <<"i">>), access("a", "j")>>,
                <<I("i", "mul", <<"2", "-1">>), I("j", "zext", <<"i">>), access("a", "j")>> }}

(* Not plain: recursion, a constant returned, parameters of the main function. *)
Recursive ==
  {Program([z \in {"main", "f"} |->
     CASE z = "main" -> Straight(<< >>, "M1", <<call("x", "f", <<"0">>), access("a", "x"), retVoid("M1")>>)
       [] z = "f" -> Func(<<"r">>, <<"F1", "F2", "F3">>,
                          [b \in {"F1"} |-> <<"F2", "F3">>],
                          [b \in {"F1", "F2", "F3"} |->
                             CASE b = "F1" -> <<I("s", op, <<"r", "1">>), br("F1")>>
                               [] b = "F2" -> <<call("t", "f", <<"s">>), ret("F2", "t")>>
                               [] b = "F3" -> <<access("c", "r"), ret("F3", "r")>>])]) :
     op \in {"add", "sub"}}
ConstantReturned ==
  {Program([z \in {"main", "h"} |->
     CASE z = "main" -> Branching(<<call("x", "h", << >>)>>, << >>,
                          <<phi("z", <<"x", "0">>, <<"M1", "M2">>), access("a", "z")>>)
       [] z = "h" -> Straight(<< >>, "H1", <<ret("H1", "3")>>)])}
MainArguments ==
  {Program([z \in {"main"} |->
     [Branching(<<I("n", "add", <<"w", "1">>)>>, << >>,
                <<phi("z", <<"n", "0">>, <<"M1", "M2">>), access("a", "z")>>)
        EXCEPT !.params = <<"w">>]])}

(* A function that is analysed in three contexts, and calls k and h in contexts
   the three share: what one of them finds changes k, then h, for the others. *)
Shared ==
  {Program([z \in {"main", "g", "f", "k", "h"} |->
     CASE z = "main" -> Straight(<< >>, "M1", <<call("x", "g", <<"0">>), call("y", "g", <<"1">>),
                                               call("z", "g", <<"-2">>), retVoid("M1")>>)
       [] z = "g" -> Straight(<<"p">>, "G1", <<call("q", "f", <<"p">>), retVoid("G1")>>)
       [] z = "f" -> Straight(<<"r">>, "F1", <<call("s", "k", <<"r">>), I("t", "add", <<"s", "r">>),
                                               call("w", "h", <<"t">>), access("a", "w"), retVoid("F1")>>)
       [] z = "k" -> Straight(<<"i">>, "K1", <<I("j", "sub", <<"0", "i">>), ret("K1", "j")>>)
       [] z = "h" -> Straight(<<"u">>, "H1", <<I("v", "add", <<"u", "0">>), ret("H1", "v")>>)])}

MCModules == Shared \cup Loops \cup Chains \cup CallLoops \cup Odd
             \cup Recursive \cup ConstantReturned \cup MainArguments
=============================================================================
