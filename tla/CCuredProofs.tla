---------------------------- MODULE CCuredProofs ----------------------------
(***************************************************************************)
(* The two small specifications of CCured.  The abstract classification    *)
(* stays typed and below every solution of the program's rules, for any    *)
(* program, any set of values and any set of integer classes with a least  *)
(* one.  The metadata table implements a map, for any addresses and sizes: *)
(* no address ever has two entries, so the first match is the only one.    *)
(***************************************************************************)
EXTENDS KindInference, MetadataTable, TLAPS

(* The class of a value stays a class. *)
THEOREM Typing == ClassSpec => []ClassTypeOK
<1>1. ClassInit => ClassTypeOK
  BY DEF ClassInit, ClassTypeOK, Bottom
<1>2. ClassTypeOK /\ [ClassNext]_classVars => ClassTypeOK'
  BY DEF ClassTypeOK, ClassNext, Raise, classVars
<1>. QED
  BY <1>1, <1>2, PTL DEF ClassSpec

(* One raise cannot go past a solution: what a rule calls for, the solution
   grants already. *)
LEMMA RaiseStaysBelow ==
  ASSUME ClassTypeOK, BelowSolutions, Raise
  PROVE  BelowSolutions'
<1>. SUFFICES ASSUME NEW s \in [Value -> Kind], Solves(s), NEW v \in Value
              PROVE  kind'[v] =< s[v]
  BY DEF BelowSolutions, Solves, Raise
<1>. USE KindOrder
<1>. kind \in [Value -> Kind] /\ kind' \in [Value -> Kind]
  BY DEF ClassTypeOK, Raise
<1>below. \A x \in Value : kind[x] =< s[x]
  BY DEF BelowSolutions
<1>1. CASE kind'[v] = kind[v]
  BY <1>1, <1>below
<1>2. CASE <<v, kind'[v]>> \in demand
  BY <1>2 DEF Solves
<1>3. CASE \E a \in Value : <<a, v>> \in flow /\ kind[a] = kind'[v]
  <2>1. PICK a \in Value : <<a, v>> \in flow /\ kind[a] = kind'[v]
    BY <1>3
  <2>2. kind[a] =< s[a] /\ s[a] =< s[v]
    BY <1>below, <2>1 DEF Solves
  <2>3. kind[a] \in Int /\ s[a] \in Int /\ s[v] \in Int
    OBVIOUS
  <2>. QED
    BY <2>1, <2>2, <2>3
<1>. QED
  BY <1>1, <1>2, <1>3 DEF Raise, Called

(* No value is ever classified above a solution of the rules. *)
THEOREM ClassesAreJustified == ClassSpec => []BelowSolutions
<1>1. ClassInit => BelowSolutions
  BY KindOrder DEF ClassInit, BelowSolutions, Bottom
<1>2. ClassTypeOK /\ BelowSolutions /\ [ClassNext]_classVars => BelowSolutions'
  <2>1. ClassTypeOK /\ BelowSolutions /\ ClassNext => BelowSolutions'
    BY RaiseStaysBelow DEF ClassNext
  <2>2. BelowSolutions /\ UNCHANGED classVars => BelowSolutions'
    BY DEF BelowSolutions, Solves, classVars
  <2>. QED
    BY <2>1, <2>2
<1>. QED
  BY <1>1, <1>2, Typing, PTL DEF ClassSpec

-----------------------------------------------------------------------------
IInv == TypeOK /\ OneEntryEach

Distinct(table, count) ==
  \A i, j \in 1..count : table[i].ptr = table[j].ptr => i = j

(* The search returns the one entry of p, or 0 when there is none. *)
LEMMA Find ==
  ASSUME NEW table, NEW count \in Nat, Distinct(table, count), NEW p
  PROVE  /\ First(table, count, p) = 0 => \A i \in 1..count : table[i].ptr # p
         /\ \A i \in 1..count : table[i].ptr = p => First(table, count, p) = i
         /\ First(table, count, p) # 0 => /\ First(table, count, p) \in 1..count
                                          /\ table[First(table, count, p)].ptr = p
         /\ (\A i \in 1..count : table[i].ptr # p) => First(table, count, p) = 0
<1>1. ASSUME NEW i \in 1..count, table[i].ptr = p
      PROVE  First(table, count, p) = i
  <2>1. Matches(table, count, p) = {i}
    BY <1>1 DEF Matches, Distinct
  <2>2. Min({i}) = i
    BY DEF Min
  <2>. QED
    BY <2>1, <2>2 DEF First
<1>2. (\A i \in 1..count : table[i].ptr # p) => First(table, count, p) = 0
  BY DEF Matches, First
<1>. QED
  BY <1>1, <1>2

(* The invariant gives what Find asks for. *)
LEMMA Searchable ==
  ASSUME IInv
  PROVE  metadatatablecount \in Nat /\ Distinct(metadatatable, metadatatablecount)
BY DEF IInv, TypeOK, OneEntryEach, Distinct

(* What a set does to the table: it adds one entry for an address that has
   none, or overwrites the size of the one there is. *)
LEMMA SetStep ==
  ASSUME IInv, NEW p \in Addr, NEW s \in Size, setMetadataTableEntry(p, s)
  PROVE  /\ IInv'
         /\ metadatatablecount =< metadatatablecount'
         /\ \A i \in 1..metadatatablecount : metadatatable'[i].ptr = metadatatable[i].ptr
         /\ \E i \in 1..metadatatablecount' :
              /\ metadatatable'[i] = [ptr |-> p, size |-> s]
              /\ \A j \in 1..metadatatablecount' \ {i} :
                   j \in 1..metadatatablecount /\ metadatatable'[j] = metadatatable[j]
<1> DEFINE n == metadatatablecount
           k == findMetadataTableEntry(p)
           e == [ptr |-> p, size |-> s]
<1>1. n \in Nat /\ n = Len(metadatatable) /\ metadatatable \in Seq(Entry) /\ e \in Entry
  BY DEF IInv, TypeOK, Entry
<1>2. CASE k = 0
  <2>1. n' = n + 1 /\ metadatatable' = Append(metadatatable, e)
    BY <1>2 DEF setMetadataTableEntry
  <2>2. /\ metadatatable' \in Seq(Entry) /\ n' = Len(metadatatable')
        /\ metadatatable'[n + 1] = e
        /\ \A i \in 1..n : metadatatable'[i] = metadatatable[i]
    BY <1>1, <2>1
  <2>3. \A i \in 1..n : metadatatable[i].ptr # p
    BY <1>1, <1>2, Searchable, Find DEF findMetadataTableEntry
  <2>4. OneEntryEach'
    BY <1>1, <2>1, <2>2, <2>3 DEF IInv, OneEntryEach
  <2>. QED
    BY <1>1, <2>1, <2>2, <2>4 DEF IInv, TypeOK, setMetadataTableEntry
<1>3. CASE k # 0
  <2>1. k \in 1..n /\ metadatatable[k].ptr = p
    BY <1>1, <1>3, Searchable, Find DEF findMetadataTableEntry
  <2>2. n' = n /\ metadatatable' = [metadatatable EXCEPT ![k].size = s]
    BY <1>3 DEF setMetadataTableEntry
  <2>3. metadatatable[k] \in Entry
    BY <1>1, <2>1
  <2>4. [metadatatable[k] EXCEPT !.size = s] = e
    BY <2>1, <2>3 DEF Entry
  <2>. HIDE DEF k, e
  <2>5. metadatatable' = [metadatatable EXCEPT ![k] = e]
    BY <2>2, <2>4
  <2>6. /\ metadatatable' \in Seq(Entry) /\ Len(metadatatable') = Len(metadatatable)
        /\ metadatatable'[k] = e
        /\ \A i \in 1..n : i # k => metadatatable'[i] = metadatatable[i]
    BY <1>1, <2>1, <2>5
  <2>7. e.ptr = p
    BY DEF e
  <2>8. \A i \in 1..n : metadatatable'[i].ptr = metadatatable[i].ptr
    BY <2>1, <2>6, <2>7
  <2>9. OneEntryEach'
    BY <2>2, <2>8 DEF IInv, OneEntryEach
  <2>. QED
    BY <1>1, <2>1, <2>2, <2>6, <2>8, <2>9 DEF IInv, TypeOK, setMetadataTableEntry, e
<1>. QED
  BY <1>2, <1>3

(* The table of sizes the array stands for changes at p only. *)
LEMMA SetIsSet ==
  ASSUME IInv, NEW p \in Addr, NEW s \in Size, setMetadataTableEntry(p, s)
  PROVE  Map!Set(p, s)
<1>1. IInv' /\ metadatatablecount \in Nat /\ metadatatablecount' \in Nat
  <2>1. IInv'
    BY SetStep
  <2>2. metadatatablecount' = Len(metadatatable') /\ metadatatable' \in Seq(Entry)
    BY <2>1 DEF IInv, TypeOK
  <2>. QED
    BY <2>1, <2>2 DEF IInv, TypeOK
<1>2. PICK i \in 1..metadatatablecount' :
        /\ metadatatable'[i] = [ptr |-> p, size |-> s]
        /\ \A j \in 1..metadatatablecount' \ {i} :
             j \in 1..metadatatablecount /\ metadatatable'[j] = metadatatable[j]
  BY SetStep
<1>3. /\ metadatatablecount =< metadatatablecount'
      /\ \A j \in 1..metadatatablecount : metadatatable'[j].ptr = metadatatable[j].ptr
  BY SetStep
<1>d. Distinct(metadatatable, metadatatablecount) /\ Distinct(metadatatable', metadatatablecount')
  BY <1>1 DEF IInv, OneEntryEach, Distinct
<1> DEFINE F(q) == findMetadataTableEntry(q)
<1>4. F(p)' = i /\ i # 0
  BY <1>1, <1>2, <1>d, Find DEF findMetadataTableEntry
<1>5. ASSUME NEW q \in Addr, q # p
      PROVE  F(q)' = F(q) /\ (F(q) # 0 => metadatatable'[F(q)] = metadatatable[F(q)])
  <2>1. CASE F(q) = 0
    <3>1. \A j \in 1..metadatatablecount : metadatatable[j].ptr # q
      BY <1>1, <1>d, <2>1, Find DEF findMetadataTableEntry
    <3>2. \A j \in 1..metadatatablecount' : metadatatable'[j].ptr # q
      BY <1>2, <1>5, <3>1
    <3>. QED
      BY <1>1, <1>d, <2>1, <3>2, Find DEF findMetadataTableEntry
  <2>2. CASE F(q) # 0
    <3>1. F(q) \in 1..metadatatablecount /\ metadatatable[F(q)].ptr = q
      BY <1>1, <1>d, <2>2, Find DEF findMetadataTableEntry
    <3>2. F(q) \in 1..metadatatablecount' /\ metadatatable'[F(q)].ptr = q
      BY <1>1, <1>3, <3>1
    <3>3. F(q)' = F(q)
      BY <1>1, <1>d, <3>2, Find DEF findMetadataTableEntry
    <3>4. F(q) # i
      BY <1>2, <1>5, <3>2
    <3>. QED
      BY <1>2, <3>2, <3>3, <3>4
  <2>. QED
    BY <2>1, <2>2
<1> DEFINE G(q) == IF F(q) = 0 THEN 0 ELSE metadatatable[F(q)].size
<1>6. \A q \in Addr : G(q)' = IF q = p THEN s ELSE G(q)
  BY <1>2, <1>4, <1>5
<1>7. [q \in Addr |-> G(q)]' = [[q \in Addr |-> G(q)] EXCEPT ![p] = s]
  <2>. HIDE DEF G
  <2>. QED
    BY <1>6
<1>. QED
  BY <1>7 DEF Map!Set, setMetadataTableEntry

(* A lookup answers what the table of sizes says. *)
LEMMA LookupIsLookup ==
  ASSUME IInv, NEW p \in Addr, lookupMetadataTableEntry(p)
  PROVE  Map!Lookup(p) /\ IInv'
<1>1. Map!Lookup(p)
  BY DEF Map!Lookup, lookupMetadataTableEntry, findMetadataTableEntry
<1>2. last' \in {"set", "lookup"} \X Addr \X (Size \cup {0})
  <2>1. findMetadataTableEntry(p) # 0 =>
          metadatatable[findMetadataTableEntry(p)] \in Entry
    BY Searchable, Find DEF IInv, TypeOK, findMetadataTableEntry
  <2>. QED
    BY <2>1 DEF lookupMetadataTableEntry, Entry
<1>. QED
  BY <1>1, <1>2 DEF IInv, TypeOK, OneEntryEach, lookupMetadataTableEntry

(* The table is typed and has one entry for each address. *)
THEOREM Invariant == Spec => []IInv
<1>1. Init => IInv
  BY DEF Init, IInv, TypeOK, OneEntryEach
<1>2. IInv /\ [Next]_vars => IInv'
  <2>1. IInv /\ Next => IInv'
    BY SetStep, LookupIsLookup DEF Next
  <2>2. IInv /\ UNCHANGED vars => IInv'
    BY DEF IInv, TypeOK, OneEntryEach, vars
  <2>. QED
    BY <2>1, <2>2
<1>. QED
  BY <1>1, <1>2, PTL DEF Spec

(* No address ever has two entries. *)
THEOREM OneEntryForEach == Spec => []OneEntryEach
<1>1. IInv => OneEntryEach
  BY DEF IInv
<1>. QED
  BY <1>1, Invariant, PTL

(* No entry ever moves or changes its address. *)
THEOREM EntriesStayPut == Spec => EntriesStay
<1>1. IInv /\ [Next]_vars =>
        [/\ metadatatablecount =< metadatatablecount'
         /\ \A i \in 1..metadatatablecount : metadatatable'[i].ptr = metadatatable[i].ptr]_vars
  <2>1. ASSUME IInv, NEW p \in Addr, lookupMetadataTableEntry(p)
        PROVE  /\ metadatatablecount =< metadatatablecount'
               /\ \A i \in 1..metadatatablecount : metadatatable'[i].ptr = metadatatable[i].ptr
    BY <2>1 DEF IInv, TypeOK, lookupMetadataTableEntry
  <2>. QED
    BY <2>1, SetStep DEF Next
<1>. QED
  BY <1>1, Invariant, PTL DEF Spec, EntriesStay

(* The array behaves as a map with default 0. *)
THEOREM Implements == Spec => ImplementsMap
<1>1. Init => Map!Init
  BY DEF Init, Map!Init, findMetadataTableEntry, First, Matches
<1>2. IInv /\ [Next]_vars => [Map!Next]_(Map!vars)
  <2>1. IInv /\ Next => Map!Next
    BY SetIsSet, LookupIsLookup DEF Next, Map!Next
  <2>2. UNCHANGED vars => UNCHANGED Map!vars
    BY DEF vars, Map!vars, findMetadataTableEntry
  <2>. QED
    BY <2>1, <2>2
<1>. QED
  BY <1>1, <1>2, Invariant, PTL DEF Spec, ImplementsMap, Map!Spec
=============================================================================
