--------------------------- MODULE MCRangeDomain ---------------------------
(* Words of three bits, narrow words of two. *)
EXTENDS RangeMeet
=============================================================================
