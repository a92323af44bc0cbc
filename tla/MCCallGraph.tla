---------------------------- MODULE MCCallGraph ----------------------------
(***************************************************************************)
(* Graphs and programs for TLC: every graph of three nodes with up to      *)
(* three edges of two types, larger ones with cycles that share nodes, and *)
(* programs of four functions.                                             *)
(***************************************************************************)
EXTENDS CallGraph, FiniteSetsExt

MCNode == {"a", "b", "c", "d"}
MCEdgeType == {"CALL", "IND_CALL", "DATA_ALIAS", "PARAMETER_IN"}
GraphTypes == {"DATA_ALIAS", "PARAMETER_IN"}

E(m, n, t) == [src |-> m, dst |-> n, type |-> t]
SmallEdges == {E(m, n, t) : m, n \in {"a", "b", "c"}, t \in GraphTypes}
              \ {E(n, n, "PARAMETER_IN") : n \in MCNode}
SmallGraphs == UNION {kSubset(k, SmallEdges) : k \in 0..3}
LargeGraphs ==
  {{E("a", "b", s), E("b", "c", s), E("c", "a", t), E("a", "d", t), E("d", "c", s), E("c", "d", s)} :
     s, t \in GraphTypes}
  \cup {{E("b", "a", s), E("c", "b", t), E("d", "c", s), E("b", "d", t)} : s, t \in GraphTypes}

Q(kind, src, dst, types, backward) ==
  [kind |-> kind, src |-> src, dst |-> dst, types |-> types, backward |-> backward]
GraphQueries ==
  {Q("canReach", "a", dst, types, FALSE) : dst \in {"a", "c"}, types \in {{}, {"DATA_ALIAS"}, GraphTypes}}
  \cup {Q("reached", "a", "a", types, backward) :
          types \in {{"PARAMETER_IN"}, GraphTypes}, backward \in BOOLEAN}
  \cup {Q("alias", "a", "a", {"DATA_ALIAS"}, FALSE)}
  \cup {Q("param", "a", "a", GraphTypes, backward) : backward \in BOOLEAN}

To(g) == [callee |-> g, signature |-> "s"]
Through(signature) == [callee |-> NoFunction, signature |-> signature]
Fun(body, exported, signature, calls) ==
  [defined |-> body, exported |-> exported,
   signature |-> signature, vararg |-> FALSE, calls |-> calls]
Empty == [f \in MCNode |-> Fun(FALSE, FALSE, "s", << >>)]
MCPrograms ==
  {[f \in MCNode |->
      CASE f = "a" -> Fun(TRUE, TRUE, "s", A)
        [] f = "b" -> Fun(TRUE, FALSE, "s", B)
        [] f = "c" -> Fun(TRUE, TRUE, "t", C)
        [] f = "d" -> Fun(D # << >>, TRUE, "t", D)] :
     A \in {<<To("b")>>, <<To("b"), Through("t")>>, <<To("d"), To("c"), To("c")>>},
     B \in {<< >>, <<To("c")>>, <<Through("t"), To("a")>>},
     C \in {<< >>, <<To("a"), To("d")>>, <<Through("s")>>},
     D \in {<< >>, <<To("b")>>, <<To("c"), To("d")>>}}
  \cup {Empty}

CallQueries == {Asking(kind, f, g) : kind \in {"calls", "closure"}, f \in {"a", "b"}, g \in {"c", "d"}}
Boundaries  == {{"a"}, {"b", "c"}, {"a", "d"}}

MCInit == \/ prog = Empty /\ GraphInit(SmallGraphs \cup LargeGraphs, GraphQueries)
          \/ CallInit(CallQueries, Boundaries)
MCSpec == MCInit /\ [][CallNext \/ Resting]_callVars /\ WF_callVars(CallNext)
=============================================================================
