-------------------------- MODULE MCParameterTrees --------------------------
(***************************************************************************)
(* Programs for TLC: a function that uses and passes on its parameters, one*)
(* that passes on its own, and one with two parameters, of which the first *)
(* may have no tree; in two orders of the module.                          *)
(***************************************************************************)
EXTENDS ParameterTrees

I(op, base, field) == [op |-> op, base |-> base, field |-> field, callee |-> "none", args |-> << >>]
Param(k) == I("param", k, 0)
Gep(v, i) == I("gep", v, i)
Ld(v) == I("load", v, 0)
St(v) == I("store", v, 0)
Call(g, args) == [I("call", 0, 0) EXCEPT !.callee = g, !.args = args]
Fun(params, insts) == [params |-> params, insts |-> insts]

Fs == {Fun(<<TRUE, TRUE>>, <<Param(1), Gep(1, 2), Ld(2), Call("g", <<1>>), Gep(1, 1), St(5)>>),
       Fun(<<TRUE, TRUE>>, <<Param(1), Param(2), Call("g", <<2>>), Gep(1, 1), Ld(4), Gep(2, 2), Ld(6),
                             Call("h", <<2, 1>>)>>),
       Fun(<<TRUE, TRUE>>, <<Param(1), Gep(1, 1), Ld(2), Gep(3, 2), St(4), Call("h", <<1, 1>>),
                             Call("g", <<3>>), Call("g", <<1>>)>>),
       Fun(<<FALSE, TRUE>>, <<Param(2), Gep(1, 1), St(2), Call("g", <<1>>), Gep(1, 2), Ld(5)>>)}
Gs == {Fun(<<TRUE>>, <<Param(1), Gep(1, 2), St(2)>>),
       Fun(<<TRUE>>, <<Param(1), Param(1), Gep(1, 1), Ld(3), Call("h", <<2, 2>>), Gep(2, 2), Ld(6)>>),
       Fun(<<TRUE>>, <<Param(1), Gep(1, 1), Ld(2), Call("h", <<3, 1>>), Call("h", <<1, 3>>)>>)}
Hs == {Fun(<<TRUE, TRUE>>, <<Param(1), Param(2), Gep(1, 1), St(3), Gep(2, 2), Ld(5), St(5)>>),
       Fun(<<FALSE, TRUE>>, <<Param(2), Gep(1, 2), St(2)>>),
       Fun(<<TRUE, FALSE>>, <<Param(1), Gep(1, 2), Ld(2)>>)}
MCPrograms ==
  {[order |-> order, driver |-> IF order[1] = "f" THEN {"f", "h"} ELSE {},
    functions |-> [n \in {"f", "g", "h"} |-> CASE n = "f" -> f [] n = "g" -> g [] n = "h" -> h]] :
     order \in {<<"f", "g", "h">>, <<"h", "g", "f">>}, f \in Fs, g \in Gs, h \in Hs}
=============================================================================
