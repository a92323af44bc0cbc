--------------------------- MODULE MetadataTable ---------------------------
(***************************************************************************)
(* The runtime table of CCured/neschecklib.c, which the instrumented       *)
(* program fills before it stores a pointer and searches when it loads     *)
(* one: an array of entries that grows by one when an address is set for   *)
(* the first time, searched from its front.  Entries are never removed.    *)
(* Allocation succeeds: the code does not check that it does.              *)
(***************************************************************************)
EXTENDS Integers, Sequences, FiniteSetsExt

CONSTANTS Addr,  \* addresses the program passes
          Size   \* sizes it passes
ASSUME SizeAssumption == Size \subseteq Int

VARIABLES metadatatable,       \* the entries, from the front
          metadatatablecount,
          last   \* the last call: what was set, or looked up and answered
vars == <<metadatatable, metadatatablecount, last>>

Entry == [ptr: Addr, size: Size]

Init == metadatatable = << >> /\ metadatatablecount = 0 /\ last = << >>

(* A faulty variant: it misses the last entry. *)
MatchesButLast(table, count, p) == {i \in 1..(count - 1) : table[i].ptr = p}

Matches(table, count, p) == {i \in 1..count : table[i].ptr = p}

(* The index of the first entry for p, or 0 for the NULL the code returns. *)
First(table, count, p) ==
  IF Matches(table, count, p) = {} THEN 0 ELSE Min(Matches(table, count, p))
findMetadataTableEntry(p) == First(metadatatable, metadatatablecount, p)

setMetadataTableEntry(p, s) ==
  LET i == findMetadataTableEntry(p) IN
  /\ IF i = 0 THEN /\ metadatatablecount' = metadatatablecount + 1
                   /\ metadatatable' = Append(metadatatable, [ptr |-> p, size |-> s])
     ELSE /\ metadatatable' = [metadatatable EXCEPT ![i].size = s]
          /\ UNCHANGED metadatatablecount
  /\ last' = <<"set", p, s>>

lookupMetadataTableEntry(p) ==
  LET i == findMetadataTableEntry(p) IN
  /\ last' = <<"lookup", p, IF i = 0 THEN 0 ELSE metadatatable[i].size>>
  /\ UNCHANGED <<metadatatable, metadatatablecount>>

Next == \E p \in Addr : \/ lookupMetadataTableEntry(p)
                        \/ \E s \in Size : setMetadataTableEntry(p, s)
Spec == Init /\ [][Next]_vars

-----------------------------------------------------------------------------
TypeOK ==
  /\ metadatatable \in Seq(Entry)
  /\ metadatatablecount = Len(metadatatable)
  /\ last \in {<< >>} \cup {"set", "lookup"} \X Addr \X (Size \cup {0})

(* No address has two entries: the search would find the older one, and a size
   set later would be lost to lookups. *)
OneEntryEach ==
  \A i, j \in 1..metadatatablecount :
    metadatatable[i].ptr = metadatatable[j].ptr => i = j

(* Growing and overwriting leave every entry where it is, for its address. *)
EntriesStay ==
  [][/\ metadatatablecount =< metadatatablecount'
     /\ \A i \in 1..metadatatablecount : metadatatable'[i].ptr = metadatatable[i].ptr]_vars

Map == INSTANCE MetadataMap
         WITH size <- [p \in Addr |-> IF findMetadataTableEntry(p) = 0 THEN 0
                                      ELSE metadatatable[findMetadataTableEntry(p)].size]

(* The array behaves as a map: a lookup returns the size set last, or 0. *)
ImplementsMap == Map!Spec
=============================================================================
