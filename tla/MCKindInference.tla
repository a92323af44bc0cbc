-------------------------- MODULE MCKindInference --------------------------
(* Every program over two values: all flow edges, all demands. *)
EXTENDS KindInference
MCValue == {"a", "b"}
MCKind == 0..2
=============================================================================
