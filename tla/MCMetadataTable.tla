-------------------------- MODULE MCMetadataTable --------------------------
(* Four addresses and two sizes: every order in which entries are made. *)
EXTENDS MetadataTable
MCAddr == {"a", "b", "c", "d"}
MCSize == {1, 2}
=============================================================================
