--------------------------- MODULE NesCheckProofs ---------------------------
(***************************************************************************)
(* For every set of modules, values and functions the assumptions admit:   *)
(* the pass is type correct, it implements the abstract classification,    *)
(* and its change flags are exact.  All three follow from what one         *)
(* instruction does to the map (the lemmas named ...Step): classes only    *)
(* rise, a raised global is flagged, and a rule of the program calls for   *)
(* the class a value is given.                                             *)
(*                                                                         *)
(* The lemmas start with what the methods of AnalysisState do to a map:    *)
(* all of them keep it a map of entries, none forgets a dependent function *)
(* or a size variable, and only ClassifyPointerVariable touches a class or *)
(* the flag that says a global was raised.                                 *)
(***************************************************************************)
EXTENDS NesCheck, TLAPS

(* Entry j has every dependent function and size variable of entry i, and is
   marked as read no earlier than it has a size variable. *)
Grown(i, j) ==
  /\ i.dependentFunctions \subseteq j.dependentFunctions
  /\ i.hasExplicitSizeVariable => j.hasExplicitSizeVariable
  /\ i.instantiatedExplicitSizeVariable => j.instantiatedExplicitSizeVariable
  /\ j.instantiatedExplicitSizeVariable =>
       i.instantiatedExplicitSizeVariable \/ j.hasExplicitSizeVariable

SameClass(i, j) == /\ i.classification = j.classification
                   /\ i.isGlobal = j.isGlobal
                   /\ i.didClassificationChange = j.didClassificationChange

(* Entry i follows entry j without a change of class. *)
Follows(i, j) == SameClass(i, j) /\ Grown(j, i)

(* n is a map with the keys of m, maybe more, in which every value has the
   class and the flags it has in m, and all that m holds of it. *)
KeepsKinds(m, n) == /\ IsVariableMap(n)
                    /\ DOMAIN m \subseteq DOMAIN n
                    /\ \A x \in Value : Follows(Info(n, x), Info(m, x))

(* From m to n classes only rise, the flag of a global says so, and nothing m
   holds of dependent functions and size variables is lost. *)
Tracks(m, n) ==
  /\ IsVariableMap(n)
  /\ DOMAIN m \subseteq DOMAIN n
  /\ \A x \in Value :
       LET i == Info(m, x)
           j == Info(n, x) IN
       /\ i.classification =< j.classification
       /\ j.isGlobal = i.isGlobal
       /\ i.isGlobal => ( j.didClassificationChange <=>
                          i.didClassificationChange \/ i.classification < j.classification )
       /\ Grown(i, j)

(* The entry of a value, or a new one, is an entry. *)
LEMMA InfoTyping ==
  ASSUME NEW m, IsVariableMap(m), NEW v
  PROVE  Info(m, v) \in VariableInfo /\ KindOf(m, v) \in Kind
BY DEF IsVariableMap, Info, KindOf, NewInfo, VariableInfo, Kind, SAFE, SEQ, DYN, Size

(* Putting an entry changes the entry of its key and no other. *)
LEMMA PutInfo ==
  ASSUME NEW m, IsVariableMap(m), NEW v \in Value, NEW i \in VariableInfo
  PROVE  /\ IsVariableMap(Put(m, v, i))
         /\ DOMAIN m \subseteq DOMAIN Put(m, v, i)
         /\ \A x \in Value : Info(Put(m, v, i), x) = IF x = v THEN i ELSE Info(m, x)
BY DEF IsVariableMap, Put, Info

(* Any method that puts an entry of unchanged class keeps the kinds. *)
LEMMA PutKeepsKinds ==
  ASSUME NEW m, IsVariableMap(m), NEW v \in Value, NEW i \in VariableInfo,
         Follows(i, Info(m, v))
  PROVE  KeepsKinds(m, Put(m, v, i))
BY PutInfo DEF KeepsKinds, Follows, SameClass, Grown

(* RegisterVariable: an entry that is there stays as it is. *)
LEMMA RegisterKeepsKinds ==
  ASSUME NEW m, IsVariableMap(m), NEW v \in Value
  PROVE  KeepsKinds(m, RegisterVariable(m, v))
BY InfoTyping, PutKeepsKinds DEF RegisterVariable, Follows, SameClass, Grown

(* SetSizeForPointerVariable writes the size only. *)
LEMMA SetSizeKeepsKinds ==
  ASSUME NEW m, IsVariableMap(m), NEW v \in Value, NEW size \in Size
  PROVE  KeepsKinds(m, SetSizeForPointerVariable(m, v, size))
<1> DEFINE i == [Info(m, v) EXCEPT !.size = size]
<1>1. i \in VariableInfo /\ Follows(i, Info(m, v))
  BY InfoTyping DEF VariableInfo, Follows, SameClass, Grown
<1>. QED
  BY <1>1, PutKeepsKinds DEF SetSizeForPointerVariable

(* SetExplicitSizeVariableForPointerVariable writes one flag. *)
LEMMA SetExplicitKeepsKinds ==
  ASSUME NEW m, IsVariableMap(m), NEW v \in Value
  PROVE  KeepsKinds(m, SetExplicitSizeVariableForPointerVariable(m, v))
<1> DEFINE i == [Info(m, v) EXCEPT !.hasExplicitSizeVariable = TRUE]
<1>1. i \in VariableInfo /\ Follows(i, Info(m, v))
  BY InfoTyping DEF VariableInfo, Follows, SameClass, Grown
<1>. QED
  BY <1>1, PutKeepsKinds DEF SetExplicitSizeVariableForPointerVariable

(* SetInstantiatedExplicitSizeVariable writes one flag, where there is a size
   variable to read. *)
LEMMA SetInstantiatedKeepsKinds ==
  ASSUME NEW m, IsVariableMap(m), NEW v \in Value, Info(m, v).hasExplicitSizeVariable
  PROVE  KeepsKinds(m, SetInstantiatedExplicitSizeVariable(m, v, TRUE))
<1> DEFINE i == [Info(m, v) EXCEPT !.instantiatedExplicitSizeVariable = TRUE]
<1>1. i \in VariableInfo /\ Follows(i, Info(m, v))
  BY InfoTyping DEF VariableInfo, Follows, SameClass, Grown
<1>. QED
  BY <1>1, PutKeepsKinds DEF SetInstantiatedExplicitSizeVariable

(* SetHasMetadataTableEntry writes one flag. *)
LEMMA SetHasMetadataKeepsKinds ==
  ASSUME NEW m, IsVariableMap(m), NEW v \in Value
  PROVE  KeepsKinds(m, SetHasMetadataTableEntry(m, v))
<1> DEFINE i == [Info(m, v) EXCEPT !.hasMetadataTableEntry = TRUE]
<1>1. i \in VariableInfo /\ Follows(i, Info(m, v))
  BY InfoTyping DEF VariableInfo, Follows, SameClass, Grown
<1>. QED
  BY <1>1, PutKeepsKinds DEF SetHasMetadataTableEntry

(* Recording the dependent functions changes no class, and records them. *)
LEMMA AddDependentKeepsKinds ==
  ASSUME NEW m, IsVariableMap(m), NEW vs \in SUBSET Value, NEW f \in Fn
  PROVE  /\ KeepsKinds(m, AddDependentFunction(m, vs, f))
         /\ \A x \in vs : f \in Info(AddDependentFunction(m, vs, f), x).dependentFunctions
<1> DEFINE i(x) == [Info(m, x) EXCEPT !.dependentFunctions = @ \cup {f}]
<1>1. ASSUME NEW x
      PROVE  /\ i(x) \in VariableInfo /\ Follows(i(x), Info(m, x))
             /\ f \in i(x).dependentFunctions
  BY InfoTyping DEF VariableInfo, Follows, SameClass, Grown
<1> DEFINE n == AddDependentFunction(m, vs, f)
<1>2. n = [x \in DOMAIN m \cup vs |-> IF x \in vs THEN i(x) ELSE m[x]]
  BY DEF AddDependentFunction
<1> HIDE DEF i, n
<1>3. IsVariableMap(n)
  BY <1>1, <1>2 DEF IsVariableMap
<1>4. \A x \in Value : Follows(Info(n, x), Info(m, x))
  BY <1>1, <1>2 DEF Follows, SameClass, Grown, Info
<1>5. \A x \in vs : f \in Info(n, x).dependentFunctions
  BY <1>1, <1>2 DEF Info
<1>. QED
  BY <1>2, <1>3, <1>4, <1>5 DEF KeepsKinds, n

(* Clearing the sizes behind a freed pointer changes no class. *)
LEMMA ClearSizesKeepsKinds ==
  ASSUME NEW m, IsVariableMap(m), NEW vs \in SUBSET Value
  PROVE  KeepsKinds(m, ClearSizes(m, vs))
<1> DEFINE i(x) == [Info(m, x) EXCEPT !.size = "zero"]
<1>1. ASSUME NEW x PROVE i(x) \in VariableInfo /\ Follows(i(x), Info(m, x))
  BY InfoTyping DEF VariableInfo, Follows, SameClass, Grown, Size
<1> DEFINE n == ClearSizes(m, vs)
<1>2. n = [x \in DOMAIN m \cup vs |-> IF x \in vs THEN i(x) ELSE m[x]]
  BY DEF ClearSizes
<1> HIDE DEF i, n
<1>3. IsVariableMap(n)
  BY <1>1, <1>2 DEF IsVariableMap
<1>4. \A x \in Value : Follows(Info(n, x), Info(m, x))
  BY <1>1, <1>2 DEF Follows, SameClass, Grown, Info
<1>. QED
  BY <1>2, <1>3, <1>4 DEF KeepsKinds, n

(* ClassifyPointerVariable raises the class of v to kind when it is lower,
   leaves it otherwise, flags a raised global, and touches no other entry. *)
LEMMA ClassifyRaises ==
  ASSUME NEW m, IsVariableMap(m), NEW v \in Value, NEW kind \in Kind \cup {UNKNOWN}
  PROVE  /\ IsVariableMap(ClassifyPointerVariable(m, v, kind))
         /\ Tracks(m, ClassifyPointerVariable(m, v, kind))
         /\ \A x \in Value : KindOf(ClassifyPointerVariable(m, v, kind), x) =
                     IF x = v /\ KindOf(m, v) < kind THEN kind ELSE KindOf(m, x)
<1> DEFINE i == Info(m, v)
           j == IF i.classification < kind
                THEN [i EXCEPT !.classification = kind,
                               !.didClassificationChange = @ \/ i.isGlobal]
                ELSE i
           n == ClassifyPointerVariable(m, v, kind)
<1>1. i \in VariableInfo
  BY InfoTyping
<1>2. i.classification < kind => kind \in Kind
  BY <1>1 DEF VariableInfo, Kind, SAFE, SEQ, DYN, UNKNOWN
<1>3. j \in VariableInfo
  BY <1>1, <1>2 DEF VariableInfo
<1>4. /\ j.classification = IF i.classification < kind THEN kind ELSE i.classification
      /\ j.isGlobal = i.isGlobal
      /\ i.isGlobal => ( j.didClassificationChange <=>
                           i.didClassificationChange \/ i.classification < j.classification )
      /\ Grown(i, j)
  BY <1>1, <1>2 DEF VariableInfo, Kind, SAFE, SEQ, DYN, Grown
<1>5. n = Put(m, v, j)
  BY DEF ClassifyPointerVariable
<1>6. i.classification =< j.classification
  BY <1>1, <1>2, <1>4 DEF VariableInfo, Kind, SAFE, SEQ, DYN
<1> HIDE DEF j, n
<1>7. /\ IsVariableMap(n) /\ DOMAIN m \subseteq DOMAIN n
      /\ \A x \in Value : Info(n, x) = IF x = v THEN j ELSE Info(m, x)
  BY <1>3, <1>5, PutInfo
<1>8. \A x \in Value : Info(m, x).classification \in Int
  BY InfoTyping DEF VariableInfo, Kind, SAFE, SEQ, DYN
<1>9. Tracks(m, n)
  BY <1>4, <1>6, <1>7, <1>8 DEF Tracks, Grown
<1>10. \A x \in Value : KindOf(n, x) = IF x = v /\ KindOf(m, v) < kind THEN kind ELSE KindOf(m, x)
  BY <1>4, <1>7 DEF KindOf
<1>. QED
  BY <1>7, <1>9, <1>10 DEF n

(* What keeps every class tracks them. *)
LEMMA KeepsTracks ==
  ASSUME NEW m, IsVariableMap(m), NEW n, KeepsKinds(m, n)
  PROVE  /\ IsVariableMap(n) /\ Tracks(m, n)
         /\ \A x \in Value : KindOf(n, x) = KindOf(m, x)
<1>1. \A x \in Value : Info(m, x).classification \in Int
  BY InfoTyping DEF VariableInfo, Kind, SAFE, SEQ, DYN
<1>. QED
  BY <1>1 DEF KeepsKinds, Tracks, Follows, SameClass, KindOf

(* Tracking is transitive, so any sequence of methods tracks. *)
LEMMA TracksTransitive ==
  ASSUME NEW m, IsVariableMap(m), NEW n, Tracks(m, n), NEW o, Tracks(n, o)
  PROVE  Tracks(m, o)
<1>1. IsVariableMap(n) /\ IsVariableMap(o) /\ DOMAIN m \subseteq DOMAIN o
  BY DEF Tracks
<1>2. \A x \in Value : /\ Info(m, x).classification \in Int
                       /\ Info(n, x).classification \in Int
                       /\ Info(o, x).classification \in Int
  BY <1>1, InfoTyping DEF VariableInfo, Kind, SAFE, SEQ, DYN
<1>. SUFFICES ASSUME NEW x \in Value
              PROVE  LET i == Info(m, x)
                         j == Info(o, x) IN
                     /\ i.classification =< j.classification
                     /\ j.isGlobal = i.isGlobal
                     /\ i.isGlobal => ( j.didClassificationChange <=>
                          i.didClassificationChange \/ i.classification < j.classification )
                     /\ Grown(i, j)
  BY <1>1 DEF Tracks
<1>. QED
  BY <1>2 DEF Tracks, Grown

(* The class read through GetPointerVariableInfo: that of the map, or UNKNOWN
   for null. *)
LEMMA ClassOfTyping ==
  ASSUME NEW m, IsVariableMap(m), NEW v \in Value, HasInfo(m, v)
  PROVE  /\ ClassOf(m, v) \in Kind \cup {UNKNOWN}
         /\ v # Null => ClassOf(m, v) = KindOf(m, v)
         /\ SizeOf(m, v) \in Size
BY DEF IsVariableMap, HasInfo, ClassOf, SizeOf, KindOf, Info, VariableInfo, Size

-----------------------------------------------------------------------------
USE ValueAssumption, NullAssumption

(* A rule of the program calls for class k at x. *)
Rule(x, k) == \/ <<x, k>> \in Demand
              \/ \E a \in Value : <<a, x>> \in Flow /\ KindOf(Variables, a) = k

(* What processing one instruction does, as far as the theorems ask. *)
GoodStep ==
  /\ Tracks(Variables, Variables')
  /\ \A x \in Value : KindOf(Variables', x) # KindOf(Variables, x)
                        => Rule(x, KindOf(Variables', x))
  /\ phase' \in {phase, "crashed"}
  /\ replaced' \subseteq Local
  /\ wrapped' \subseteq Fn \X Nat
  /\ FunctionCallSitesRewritten' \in Nat

(* It leaves f among the functions that depend on the globals it mentions. *)
Records(f, i) ==
  \A g \in Mentioned(<<f, i>>) : f \in Info(Variables', g).dependentFunctions

(* What each kind of instruction carries. *)
LEMMA InstructionTyping ==
  ASSUME NEW I \in Instruction
  PROVE  /\ I.op = "alloca" => I.dst \in Local /\ I.size \in Size
         /\ I.op = "malloc" => I.dst \in Local /\ I.size \in Size
         /\ I.op = "free"   => I.val \in Value
         /\ I.op = "call"   => I.dst \in Local /\ I.size \in Size
         /\ I.op = "store"  => I.val \in Value \cup Scalar /\ I.ptr \in Value
         /\ I.op = "load"   => I.ptr \in Value
         /\ I.op = "gep"    => I.dst \in Local /\ I.ptr \in Value
         /\ I.op = "cast"   => I.dst \in Local /\ I.val \in Value /\ I.size \in Size
BY DEF Instruction

(* The instruction at a position of the module is an instruction. *)
LEMMA PositionTyping ==
  ASSUME mod \in Modules, NEW f \in Fn, NEW i \in DOMAIN Body(f)
  PROVE  Body(f)[i] \in Instruction /\ <<f, i>> \in Positions /\ At(<<f, i>>) = Body(f)[i]
         /\ i \in Nat
<1>1. mod \in Module
  BY ModulesAssumption
<1>2. Body(f) \in Seq(Instruction)
  BY <1>1 DEF Module, Body
<1>3. i \in 1..Len(Body(f)) /\ i \in Nat
  BY <1>2
<1>. QED
  BY <1>2, <1>3 DEF Positions, At

(* A replaced operand stands for one of the forms of the original one. *)
LEMMA NowTyping ==
  ASSUME replaced \subseteq Local, NEW v \in Value
  PROVE  Now(v) \in Forms(v) /\ Now(v) \in Value
BY DEF Now, Forms

(* The walk back from a pointer stays among the pointer values. *)
LEMMA BehindTyping ==
  ASSUME NEW v, NEW castOk
  PROVE  Behind(v, castOk) \subseteq Value
BY DEF Behind

(* Keeping classes is transitive. *)
LEMMA KeepsTransitive ==
  ASSUME NEW m, NEW n, NEW o, KeepsKinds(m, n), KeepsKinds(n, o)
  PROVE  KeepsKinds(m, o)
BY DEF KeepsKinds, Follows, SameClass, Grown

(* A map keeps its own classes. *)
LEMMA KeepsReflexive ==
  ASSUME NEW m, IsVariableMap(m)
  PROVE  KeepsKinds(m, m)
BY DEF KeepsKinds, Follows, SameClass, Grown

(* Recording the dependent functions keeps every class, and records them. *)
LEMMA SeenKeeps ==
  ASSUME IsVariableMap(Variables), NEW f \in Fn, NEW i
  PROVE  /\ KeepsKinds(Variables, Seen(f, i)) /\ IsVariableMap(Seen(f, i))
         /\ KeepsKinds(Seen(f, i), Seen(f, i))
         /\ \A g \in Mentioned(<<f, i>>) : g \in Value /\ f \in Info(Seen(f, i), g).dependentFunctions
<1>1. Mentioned(<<f, i>>) \subseteq Value
  BY DEF Mentioned
<1>. QED
  BY <1>1, AddDependentKeepsKinds, KeepsReflexive DEF Seen, KeepsKinds

(* Recording a metadata entry keeps every class. *)
LEMMA MetadataKeeps ==
  ASSUME NEW m, IsVariableMap(m), NEW f, NEW v \in Value
  PROVE  KeepsKinds(m, MetadataSet(m, f, v)) /\ IsVariableMap(MetadataSet(m, f, v))
BY SetHasMetadataKeepsKinds, KeepsReflexive DEF MetadataSet, KeepsKinds

(* Giving a constant an entry keeps every class. *)
LEMMA KonstKeeps ==
  ASSUME NEW m, IsVariableMap(m), NEW v \in Value
  PROVE  KeepsKinds(m, WithKonst(m, v)) /\ IsVariableMap(WithKonst(m, v))
<1>1. KeepsKinds(m, SetSizeForPointerVariable(m, v, "const"))
  BY SetSizeKeepsKinds DEF Size
<1>2. KeepsKinds(m, m)
  BY DEF KeepsKinds, Follows, SameClass, Grown
<1>3. WithKonst(m, v) \in {m, SetSizeForPointerVariable(m, v, "const")}
  BY DEF WithKonst
<1>. QED
  BY <1>1, <1>2, <1>3 DEF KeepsKinds

(* What follows the recording of the dependent functions leaves them there. *)
LEMMA MentionsStay ==
  ASSUME TypeOK, NEW f \in Fn, NEW i, Tracks(Seen(f, i), Variables')
  PROVE  Tracks(Variables, Variables') /\ Records(f, i)
<1>1. Tracks(Variables, Seen(f, i)) /\ IsVariableMap(Seen(f, i))
  BY SeenKeeps, KeepsTracks DEF TypeOK
<1>2. Tracks(Variables, Variables')
  BY <1>1, TracksTransitive DEF TypeOK
<1>. QED
  BY <1>2, SeenKeeps DEF TypeOK, Tracks, Grown, Records

(* An instruction that keeps every class takes a good step. *)
LEMMA KeepingIsGood ==
  ASSUME TypeOK, NEW f \in Fn, NEW i, KeepsKinds(Seen(f, i), Variables'),
         phase' \in {phase, "crashed"}, replaced' \subseteq Local, wrapped' \subseteq Fn \X Nat,
         FunctionCallSitesRewritten' \in Nat
  PROVE  GoodStep /\ Records(f, i)
<1> DEFINE S == Seen(f, i)
<1>1. KeepsKinds(Variables, S) /\ IsVariableMap(S)
  BY SeenKeeps DEF TypeOK
<1>2. \A x \in Value : KindOf(Variables', x) = KindOf(Variables, x)
  <2>. HIDE DEF S
  <2>1. KeepsKinds(S, Variables')
    BY DEF S
  <2>. QED
    BY <1>1, <2>1, KeepsTracks DEF TypeOK
<1>3. Tracks(S, Variables')
  BY <1>1, KeepsTracks
<1>. QED
  BY <1>2, <1>3, MentionsStay DEF GoodStep

(* An instruction that classifies one value, where a rule calls for the class,
   and otherwise keeps every class takes a good step. *)
LEMMA RaisingIsGood ==
  ASSUME TypeOK, NEW f \in Fn, NEW i, NEW m, KeepsKinds(Seen(f, i), m), NEW v \in Value,
         NEW k \in Kind \cup {UNKNOWN}, k \in Kind => Rule(v, k),
         KeepsKinds(ClassifyPointerVariable(m, v, k), Variables'),
         phase' = phase, UNCHANGED programVars
  PROVE  GoodStep /\ Records(f, i)
<1> DEFINE C == ClassifyPointerVariable(m, v, k)
           S == Seen(f, i)
<1>1. IsVariableMap(Variables) /\ IsVariableMap(S) /\ KeepsKinds(Variables, S)
  BY SeenKeeps DEF TypeOK
<1>. HIDE DEF S
<1>2. Tracks(S, m) /\ \A x \in Value : KindOf(m, x) = KindOf(Variables, x)
  <2>1. KeepsKinds(S, m)
    BY DEF S
  <2>2. Tracks(S, m) /\ \A x \in Value : KindOf(m, x) = KindOf(S, x)
    BY <1>1, <2>1, KeepsTracks
  <2>. QED
    BY <1>1, <2>2, KeepsTracks
<1>3. /\ IsVariableMap(m) /\ IsVariableMap(C) /\ Tracks(m, C)
      /\ \A x \in Value : KindOf(C, x) =
                     IF x = v /\ KindOf(m, v) < k THEN k ELSE KindOf(m, x)
  BY <1>2, ClassifyRaises DEF Tracks
<1>4. Tracks(C, Variables') /\ \A x \in Value : KindOf(Variables', x) = KindOf(C, x)
  <2>. HIDE DEF C
  <2>1. KeepsKinds(C, Variables')
    BY DEF C
  <2>. QED
    BY <1>3, <2>1, KeepsTracks
<1>. HIDE DEF C
<1>5. Tracks(S, Variables')
  <2>1. Tracks(S, C)
    BY <1>1, <1>2, <1>3, TracksTransitive
  <2>. QED
    BY <1>1, <1>4, <2>1, TracksTransitive
<1>6. \A x \in Value : KindOf(Variables', x) # KindOf(Variables, x)
                          => Rule(x, KindOf(Variables', x))
  <2>. SUFFICES ASSUME NEW x \in Value, KindOf(Variables', x) # KindOf(Variables, x)
                PROVE  Rule(x, KindOf(Variables', x))
    OBVIOUS
  <2>1. x = v /\ KindOf(m, v) < k /\ KindOf(Variables', x) = k
    BY <1>2, <1>3, <1>4
  <2>2. KindOf(m, v) \in Kind
    BY <1>3, InfoTyping
  <2>3. k \in Kind
    BY <2>1, <2>2 DEF Kind, SAFE, SEQ, DYN, UNKNOWN
  <2>. QED
    BY <2>1, <2>3
<1>. QED
  BY <1>5, <1>6, MentionsStay DEF GoodStep, TypeOK, programVars, S

-----------------------------------------------------------------------------
(* One lemma per kind of instruction. *)

(* A stack allocation registers its result or sets its size. *)
LEMMA AllocaStep ==
  ASSUME TypeOK, NEW f \in Fn, NEW i \in DOMAIN Body(f), Alloca(f, i)
  PROVE  GoodStep /\ Records(f, i)
<1> DEFINE I == Body(f)[i]
           S == Seen(f, i)
<1>1. I.dst \in Value /\ I.size \in Size
  BY PositionTyping, InstructionTyping DEF TypeOK, Alloca
<1>2. KeepsKinds(Variables, S) /\ IsVariableMap(S) /\ KeepsKinds(S, S)
  BY SeenKeeps DEF TypeOK
<1> HIDE DEF S
<1>3. /\ KeepsKinds(S, RegisterVariable(S, I.dst))
      /\ KeepsKinds(S, SetSizeForPointerVariable(S, I.dst, I.size))
  BY <1>1, <1>2, RegisterKeepsKinds, SetSizeKeepsKinds
<1>4. KeepsKinds(S, Variables')
  BY <1>3 DEF Alloca, S
<1>. QED
  BY <1>4, KeepingIsGood DEF Alloca, TypeOK, programVars, S

(* malloc and realloc set the size of their result. *)
LEMMA MallocStep ==
  ASSUME TypeOK, NEW f \in Fn, NEW i \in DOMAIN Body(f), Malloc(f, i)
  PROVE  GoodStep /\ Records(f, i)
<1> DEFINE I == Body(f)[i]
           S == Seen(f, i)
<1>1. I.dst \in Value /\ I.size \in Size
  BY PositionTyping, InstructionTyping DEF TypeOK, Malloc
<1>2. KeepsKinds(Variables, S) /\ IsVariableMap(S) /\ KeepsKinds(S, S)
  BY SeenKeeps DEF TypeOK
<1> HIDE DEF S
<1>3. KeepsKinds(S, SetSizeForPointerVariable(S, I.dst, I.size))
  BY <1>1, <1>2, SetSizeKeepsKinds
<1>4. KeepsKinds(S, Variables')
  BY <1>3 DEF Malloc, S
<1>. QED
  BY <1>4, KeepingIsGood DEF Malloc, TypeOK, programVars, S

(* free clears sizes. *)
LEMMA FreeStep ==
  ASSUME TypeOK, NEW f \in Fn, NEW i \in DOMAIN Body(f), Free(f, i)
  PROVE  GoodStep /\ Records(f, i)
<1> DEFINE S == Seen(f, i)
           B == Behind(Now(Body(f)[i].val), FALSE)
<1>1. KeepsKinds(Variables, S) /\ IsVariableMap(S) /\ KeepsKinds(S, S)
  BY SeenKeeps DEF TypeOK
<1>2. B \in SUBSET Value
  BY BehindTyping
<1> HIDE DEF B, S
<1>3. KeepsKinds(S, ClearSizes(S, B))
  BY <1>1, <1>2, ClearSizesKeepsKinds
<1>4. KeepsKinds(S, Variables')
  BY <1>3 DEF Free, S, B
<1>. QED
  BY <1>4, KeepingIsGood DEF Free, TypeOK, programVars, S

(* A return changes what the program is, not the classes. *)
LEMMA RetStep ==
  ASSUME TypeOK, NEW f \in Fn, NEW i \in DOMAIN Body(f), Ret(f, i)
  PROVE  GoodStep /\ Records(f, i)
<1>1. KeepsKinds(Seen(f, i), Variables')
  BY SeenKeeps DEF TypeOK, Ret
<1>2. i \in Nat
  BY PositionTyping DEF TypeOK
<1>3. wrapped' \in {wrapped, wrapped \cup {<<f, i>>}}
  BY DEF Ret
<1>4. wrapped' \subseteq Fn \X Nat
  BY <1>2, <1>3 DEF TypeOK
<1>. QED
  BY <1>1, <1>4, KeepingIsGood DEF Ret, TypeOK

(* A call, rewritten or not, sets sizes: of its result, and of the value
   that takes the place of its result. *)
LEMMA CallStep ==
  ASSUME TypeOK, NEW f \in Fn, NEW i \in DOMAIN Body(f), Call(f, i)
  PROVE  GoodStep /\ Records(f, i)
<1> DEFINE I == Body(f)[i]
           S == Seen(f, i)
           m == IF I.pointer THEN SetSizeForPointerVariable(S, I.dst, I.size) ELSE S
           n == SetSizeForPointerVariable(m, OrigRet[I.dst], "runtime")
<1>1. I.dst \in Local /\ OrigRet[I.dst] \in Value /\ I.dst \in Value /\ I.size \in Size
  BY PositionTyping, InstructionTyping DEF TypeOK, Call
<1>2. KeepsKinds(Variables, S) /\ IsVariableMap(S) /\ KeepsKinds(S, S)
  BY SeenKeeps DEF TypeOK
<1>3. KeepsKinds(S, m) /\ IsVariableMap(m)
  <2>1. KeepsKinds(S, SetSizeForPointerVariable(S, I.dst, I.size))
    BY <1>1, <1>2, SetSizeKeepsKinds
  <2>2. m \in {S, SetSizeForPointerVariable(S, I.dst, I.size)}
    OBVIOUS
  <2>. HIDE DEF m, S
  <2>. QED
    BY <1>2, <2>1, <2>2 DEF KeepsKinds
<1>4. KeepsKinds(m, n)
  <2>. HIDE DEF m
  <2>. QED
    BY <1>1, <1>3, SetSizeKeepsKinds DEF Size
<1>5. Variables' \in {m, n}
  BY DEF Call
<1>6. KeepsKinds(S, Variables')
  <2>. HIDE DEF m, n
  <2>. QED
    BY <1>3, <1>4, <1>5, KeepsTransitive
<1>7. /\ phase' \in {phase, "crashed"}
      /\ replaced' \subseteq Local
      /\ wrapped' = wrapped
      /\ FunctionCallSitesRewritten' \in Nat
  BY <1>1 DEF Call, TypeOK, Crash
<1>. QED
  BY <1>6, <1>7, KeepingIsGood DEF TypeOK

(* A store of a pointer in the block of its target copies the class. *)
LEMMA StoreStep ==
  ASSUME TypeOK, NEW f \in Fn, NEW i \in DOMAIN Body(f), Store(f, i)
  PROVE  GoodStep /\ Records(f, i)
<1> DEFINE I == Body(f)[i]
           val == Now(I.val)
           ptr == Now(I.ptr)
           S == Seen(f, i)
           m == WithKonst(S, val)
           C == ClassifyPointerVariable(m, ptr, ClassOf(m, val))
           n == SetSizeForPointerVariable(C, ptr, SizeOf(m, val))
<1>1. /\ I \in Instruction /\ I.op = "store" /\ I.val \in Value \cup Scalar /\ I.ptr \in Value
      /\ <<f, i>> \in Positions /\ At(<<f, i>>) = I
  BY PositionTyping, InstructionTyping DEF TypeOK, Store
<1>2. ptr \in Value /\ ptr \in Forms(I.ptr)
  BY <1>1, NowTyping DEF TypeOK
<1>3. KeepsKinds(Variables, S) /\ IsVariableMap(S) /\ KeepsKinds(S, S)
  BY SeenKeeps DEF TypeOK
<1>4. phase' = phase /\ UNCHANGED programVars
  BY DEF Store
<1>5. CASE val \notin Value
  <2>1. Variables' = S
    BY <1>5 DEF Store
  <2>. QED
    BY <1>3, <1>4, <2>1, KeepingIsGood DEF TypeOK, programVars
<1>6. CASE val \in Value
  <2>1. KeepsKinds(S, m) /\ KeepsKinds(Variables, m) /\ IsVariableMap(m)
    <3>. HIDE DEF S, val
    <3>. QED
      BY <1>3, <1>6, KonstKeeps, KeepsTransitive
  <2>2. CASE I.far
    <3>1. Variables' = SetExplicitSizeVariableForPointerVariable(m, ptr)
      BY <1>6, <2>2 DEF Store
    <3>2. KeepsKinds(S, Variables')
      <4>. HIDE DEF m, ptr, I, S
      <4>. QED
        BY <1>2, <2>1, <3>1, SetExplicitKeepsKinds, KeepsTransitive
    <3>. QED
      BY <1>4, <3>2, KeepingIsGood DEF TypeOK, programVars
  <2>3. CASE ~I.far /\ ~HasInfo(m, val)
    <3>1. Variables' = m
      BY <1>6, <2>3 DEF Store
    <3>. HIDE DEF m
    <3>. QED
      BY <1>4, <2>1, <3>1, KeepingIsGood DEF TypeOK, programVars
  <2>4. CASE ~I.far /\ HasInfo(m, val)
    <3>1. Variables' \in {n, MetadataSet(n, f, ptr)}
      BY <1>6, <2>4 DEF Store
    <3>2. /\ ClassOf(m, val) \in Kind \cup {UNKNOWN}
          /\ val # Null => ClassOf(m, val) = KindOf(m, val)
          /\ SizeOf(m, val) \in Size
      <4>. HIDE DEF m, val
      <4>. QED
        BY <1>6, <2>1, <2>4, ClassOfTyping
    <3>3. ClassOf(m, val) \in Kind => Rule(ptr, ClassOf(m, val))
      <4>. SUFFICES ASSUME ClassOf(m, val) \in Kind
                    PROVE  Rule(ptr, ClassOf(m, val))
        OBVIOUS
      <4>1. val # Null
        BY DEF ClassOf, Kind, SAFE, SEQ, DYN, UNKNOWN
      <4>2. ClassOf(m, val) = KindOf(Variables, val)
        BY <1>6, <2>1, <3>2, <4>1, KeepsTracks DEF TypeOK
      <4>3. I.val \in Value /\ val \in Forms(I.val)
        BY <1>1, <1>6, NowTyping DEF Now, TypeOK
      <4>4. <<val, ptr>> \in FlowOf(I)
        BY <1>1, <1>2, <2>4, <4>3 DEF FlowOf
      <4>5. <<val, ptr>> \in Flow
        BY <1>1, <4>4 DEF Flow
      <4>. QED
        BY <1>6, <4>2, <4>5 DEF Rule
    <3>4. IsVariableMap(C)
      <4>. HIDE DEF m, val, ptr
      <4>. QED
        BY <1>2, <2>1, <3>2, ClassifyRaises
    <3>5. KeepsKinds(C, n) /\ IsVariableMap(n)
      <4>. HIDE DEF m, val, ptr, C
      <4>. QED
        BY <1>2, <3>2, <3>4, SetSizeKeepsKinds DEF KeepsKinds
    <3>6. KeepsKinds(C, Variables')
      <4>. HIDE DEF n, C, ptr
      <4>. QED
        BY <1>2, <3>1, <3>5, MetadataKeeps, KeepsTransitive
    <3>. HIDE DEF m, val, ptr
    <3>. QED
      BY <1>2, <1>4, <2>1, <3>2, <3>3, <3>6, RaisingIsGood
  <2>. QED
    BY <2>2, <2>3, <2>4
<1>. QED
  BY <1>5, <1>6

(* A load of a pointer copies the class of what it reads from. *)
LEMMA LoadStep ==
  ASSUME TypeOK, NEW f \in Fn, NEW i \in DOMAIN Body(f), Load(f, i)
  PROVE  GoodStep /\ Records(f, i)
<1> DEFINE I == Body(f)[i]
           ptr == Now(I.ptr)
           S == Seen(f, i)
           m == WithKonst(S, ptr)
           sized == SetSizeForPointerVariable(m, ptr, "runtime")
           read == SetInstantiatedExplicitSizeVariable(sized, ptr, TRUE)
           C(n) == ClassifyPointerVariable(n, I.dst, ClassOf(n, ptr))
           From(n) == SetSizeForPointerVariable(C(n), I.dst, SizeOf(n, ptr))
<1>1. /\ I \in Instruction /\ I.op = "load" /\ I.ptr \in Value
      /\ <<f, i>> \in Positions /\ At(<<f, i>>) = I
  BY PositionTyping, InstructionTyping DEF TypeOK, Load
<1>2. ptr \in Value /\ ptr \in Forms(I.ptr)
  BY <1>1, NowTyping DEF TypeOK
<1>3. KeepsKinds(Variables, S) /\ IsVariableMap(S) /\ KeepsKinds(S, S)
  BY SeenKeeps DEF TypeOK
<1>4. KeepsKinds(S, m) /\ IsVariableMap(m)
  <2>. HIDE DEF S, ptr
  <2>. QED
    BY <1>2, <1>3, KonstKeeps
<1>5. ASSUME ptr \in DOMAIN m, m[ptr].hasExplicitSizeVariable
      PROVE  KeepsKinds(S, read) /\ IsVariableMap(read) /\ HasInfo(read, ptr)
  <2>1. KeepsKinds(m, sized) /\ IsVariableMap(sized)
    <3>. HIDE DEF m, ptr
    <3>. QED
      BY <1>2, <1>4, SetSizeKeepsKinds DEF KeepsKinds, Size
  <2>2. KeepsKinds(sized, read)
    <3>. HIDE DEF m, sized, ptr
    <3>1. Info(sized, ptr).hasExplicitSizeVariable
      BY <1>2, <1>5, <2>1 DEF KeepsKinds, Follows, Grown, Info
    <3>. QED
      BY <1>2, <2>1, <3>1, SetInstantiatedKeepsKinds
  <2>3. ptr \in DOMAIN read
    BY DEF SetInstantiatedExplicitSizeVariable, Put
  <2>. HIDE DEF m, sized, read, ptr
  <2>. QED
    BY <1>4, <2>1, <2>2, <2>3, KeepsTransitive DEF KeepsKinds, HasInfo
<1>6. ASSUME NEW n, KeepsKinds(S, n), HasInfo(n, ptr), I.dst \in Local,
             Variables' = From(n), phase' = phase, UNCHANGED programVars
      PROVE  GoodStep /\ Records(f, i)
  <2>1. IsVariableMap(n) /\ I.dst \in Value /\ KeepsKinds(Variables, n)
    <3>. HIDE DEF S
    <3>. QED
      BY <1>3, <1>6, KeepsTransitive DEF KeepsKinds
  <2>2. /\ ClassOf(n, ptr) \in Kind \cup {UNKNOWN}
        /\ ptr # Null => ClassOf(n, ptr) = KindOf(n, ptr)
        /\ SizeOf(n, ptr) \in Size
    <3>. HIDE DEF ptr
    <3>. QED
      BY <1>2, <1>6, <2>1, ClassOfTyping
  <2>3. ClassOf(n, ptr) \in Kind => Rule(I.dst, ClassOf(n, ptr))
    <3>. SUFFICES ASSUME ClassOf(n, ptr) \in Kind
                  PROVE  Rule(I.dst, ClassOf(n, ptr))
      OBVIOUS
    <3>1. ptr # Null
      BY DEF ClassOf, Kind, SAFE, SEQ, DYN, UNKNOWN
    <3>2. ClassOf(n, ptr) = KindOf(Variables, ptr)
      BY <1>2, <2>1, <2>2, <3>1, KeepsTracks DEF TypeOK
    <3>3. <<ptr, I.dst>> \in Flow
      BY <1>1, <1>2, <1>6 DEF FlowOf, Flow
    <3>. QED
      BY <1>2, <3>2, <3>3 DEF Rule
  <2>4. IsVariableMap(C(n))
    <3>. HIDE DEF ptr, I
    <3>. QED
      BY <2>1, <2>2, ClassifyRaises
  <2>5. KeepsKinds(C(n), Variables')
    <3>. HIDE DEF C, ptr, I
    <3>. QED
      BY <1>6, <2>1, <2>2, <2>4, SetSizeKeepsKinds
  <2>. HIDE DEF ptr, I
  <2>. QED
    BY <1>6, <2>1, <2>2, <2>3, <2>5, RaisingIsGood
<1>7. UNCHANGED programVars
  BY DEF Load
<1>8. CASE Variables' \in {S, m} /\ phase' \in {phase, "crashed"}
  <2>1. KeepsKinds(S, Variables')
    <3>. HIDE DEF S, m
    <3>. QED
      BY <1>3, <1>4, <1>8
  <2>. QED
    BY <1>7, <1>8, <2>1, KeepingIsGood DEF TypeOK, programVars
<1>9. CASE I.dst \in Local /\ HasInfo(m, ptr) /\ Variables' = From(m) /\ phase' = phase
  <2>. HIDE DEF m, ptr, I, From
  <2>. QED
    BY <1>4, <1>6, <1>7, <1>9
<1>10. CASE /\ I.dst \in Local /\ Variables' = From(read) /\ phase' = phase
            /\ ptr \in DOMAIN m /\ m[ptr].hasExplicitSizeVariable
  <2>. HIDE DEF m, read, ptr, I, From
  <2>. QED
    BY <1>5, <1>6, <1>7, <1>10
<1>11. \/ Variables' \in {S, m} /\ phase' \in {phase, "crashed"}
       \/ I.dst \in Local /\ HasInfo(m, ptr) /\ Variables' = From(m) /\ phase' = phase
       \/ /\ I.dst \in Local /\ Variables' = From(read) /\ phase' = phase
          /\ ptr \in DOMAIN m /\ m[ptr].hasExplicitSizeVariable
  BY DEF Load, Crash, HasInfo
<1>. QED
  BY <1>8, <1>9, <1>10, <1>11

(* Indexing at an offset demands SEQ of the pointer; the rest of a GEP is
   entries, sizes and metadata. *)
LEMMA GepStep ==
  ASSUME TypeOK, NEW f \in Fn, NEW i \in DOMAIN Body(f), Gep(f, i)
  PROVE  /\ GoodStep /\ Records(f, i)
         /\ ~Body(f)[i].zero => KindOf(Variables', Now(Body(f)[i].ptr)) >= SEQ
<1> DEFINE I == Body(f)[i]
           ptr == Now(I.ptr)
           S == Seen(f, i)
           C == IF I.zero THEN S ELSE ClassifyPointerVariable(S, ptr, SEQ)
           m == RegisterVariable(C, I.dst)
           meta == IF HasInfo(m, ptr) THEN MetadataSet(m, f, ptr) ELSE m
           looked == SetSizeForPointerVariable(meta, I.dst,
                       IF f \in mod.uninstrumented THEN "const" ELSE "runtime")
           size == IF I.zero THEN SizeOf(m, ptr) ELSE SubSize(SizeOf(m, ptr), I.size)
<1>1. /\ I \in Instruction /\ I.op = "gep" /\ I.ptr \in Value /\ I.dst \in Value
      /\ <<f, i>> \in Positions /\ At(<<f, i>>) = I
  BY PositionTyping, InstructionTyping DEF TypeOK, Gep
<1>2. ptr \in Value /\ ptr \in Forms(I.ptr)
  BY <1>1, NowTyping DEF TypeOK
<1>3. KeepsKinds(Variables, S) /\ IsVariableMap(S) /\ KeepsKinds(S, S)
  BY SeenKeeps DEF TypeOK
<1>4. IsVariableMap(C)
  <2>. HIDE DEF S, ptr
  <2>. QED
    BY <1>2, <1>3, ClassifyRaises DEF Kind
<1>5. KeepsKinds(C, m) /\ IsVariableMap(m)
  <2>. HIDE DEF C
  <2>. QED
    BY <1>1, <1>4, RegisterKeepsKinds DEF KeepsKinds
<1>6. KeepsKinds(C, meta) /\ IsVariableMap(meta)
  <2>1. meta \in {m, MetadataSet(m, f, ptr)}
    OBVIOUS
  <2>. HIDE DEF C, m, meta, ptr
  <2>. QED
    BY <1>2, <1>5, <2>1, MetadataKeeps, KeepsTransitive DEF KeepsKinds
<1>7. KeepsKinds(C, looked) /\ IsVariableMap(looked)
  <2>1. (IF f \in mod.uninstrumented THEN "const" ELSE "runtime") \in Size
    BY DEF Size
  <2>2. KeepsKinds(meta, looked)
    <3>. HIDE DEF meta
    <3>. QED
      BY <1>1, <1>6, <2>1, SetSizeKeepsKinds
  <2>. HIDE DEF C, meta, looked
  <2>. QED
    BY <1>6, <2>2, KeepsTransitive DEF KeepsKinds
<1>8. HasInfo(m, ptr) => KeepsKinds(C, SetSizeForPointerVariable(m, I.dst, size))
  <2>1. HasInfo(m, ptr) => size \in Size
    <3>1. SubSize(SizeOf(m, ptr), I.size) \in Size
      BY DEF SubSize, Size
    <3>2. HasInfo(m, ptr) => SizeOf(m, ptr) \in Size
      <4>. HIDE DEF m, ptr
      <4>. QED
        BY <1>2, <1>5, ClassOfTyping
    <3>. QED
      BY <3>1, <3>2
  <2>. HIDE DEF C, m, ptr, size
  <2>. QED
    BY <1>1, <1>5, <2>1, SetSizeKeepsKinds, KeepsTransitive
<1>9. KeepsKinds(C, Variables')
  <2>1. \/ Variables' = MetadataSet(looked, f, I.dst)
        \/ Variables' = m
        \/ HasInfo(m, ptr) /\ Variables' = SetSizeForPointerVariable(m, I.dst, size)
    BY DEF Gep
  <2>2. KeepsKinds(C, MetadataSet(looked, f, I.dst))
    <3>. HIDE DEF C, looked
    <3>. QED
      BY <1>1, <1>7, MetadataKeeps, KeepsTransitive
  <2>. HIDE DEF C, m, looked, ptr, size
  <2>. QED
    BY <1>5, <1>8, <2>1, <2>2
<1>10. phase' = phase /\ UNCHANGED programVars
  BY DEF Gep
<1>11. CASE I.zero
  <2>. QED
    BY <1>9, <1>10, <1>11, KeepingIsGood DEF TypeOK, programVars
<1>12. CASE ~I.zero
  <2>1. <<ptr, SEQ>> \in Demand
    BY <1>1, <1>2, <1>12 DEF DemandOf, Demand
  <2>2. Rule(ptr, SEQ) /\ SEQ \in Kind
    BY <2>1 DEF Rule, Kind
  <2>3. KeepsKinds(ClassifyPointerVariable(S, ptr, SEQ), Variables')
    BY <1>9, <1>12
  <2>4. KindOf(Variables', ptr) >= SEQ
    <3>. DEFINE R == ClassifyPointerVariable(S, ptr, SEQ)
    <3>1. /\ IsVariableMap(R) /\ KindOf(S, ptr) \in Kind
          /\ KindOf(R, ptr) = IF KindOf(S, ptr) < SEQ THEN SEQ ELSE KindOf(S, ptr)
      <4>. HIDE DEF S, ptr
      <4>. QED
        BY <1>2, <1>3, <2>2, ClassifyRaises, InfoTyping
    <3>. HIDE DEF R
    <3>2. KeepsKinds(R, Variables')
      BY <2>3 DEF R
    <3>3. KindOf(Variables', ptr) = KindOf(R, ptr)
      <4>. HIDE DEF ptr
      <4>. QED
        BY <1>2, <3>1, <3>2, KeepsTracks
    <3>. QED
      BY <3>1, <3>3 DEF Kind, SAFE, SEQ, DYN
  <2>5. GoodStep /\ Records(f, i)
    <3>. HIDE DEF ptr
    <3>. QED
      BY <1>2, <1>3, <1>10, <2>2, <2>3, RaisingIsGood
  <2>. QED
    BY <2>4, <2>5
<1>. QED
  BY <1>11, <1>12

(* An unsafe cast demands DYN: of the pointer it takes when that is loaded,
   and of its own result too when it takes the result of a call. *)
LEMMA CastStep ==
  ASSUME TypeOK, NEW f \in Fn, NEW i \in DOMAIN Body(f), Cast(f, i)
  PROVE  GoodStep /\ Records(f, i)
<1> DEFINE I == Body(f)[i]
           val == Now(I.val)
           s == Seen(f, i)
           called == IsA(val, {"call", "malloc"})
           loaded == IsA(val, {"load"})
           sized == IF I.bit /\ SizeOf(s, val) = "one"
                    THEN SetSizeForPointerVariable(s, val, I.size) ELSE s
           C == ClassifyPointerVariable(sized, val, DYN)
           D == ClassifyPointerVariable(C, I.dst, DYN)
           L == ClassifyPointerVariable(s, val, DYN)
           m == IF loaded THEN L ELSE IF called THEN D ELSE s
<1>1. /\ I \in Instruction /\ I.op = "cast" /\ I.val \in Value /\ I.dst \in Value
      /\ I.size \in Size /\ <<f, i>> \in Positions /\ At(<<f, i>>) = I
  BY PositionTyping, InstructionTyping DEF TypeOK, Cast
<1>2. val \in Value /\ val \in Forms(I.val)
  BY <1>1, NowTyping DEF TypeOK
<1>3. KeepsKinds(Variables, s) /\ IsVariableMap(s) /\ KeepsKinds(s, s)
  BY SeenKeeps DEF TypeOK
<1>4. UNCHANGED programVars
  BY DEF Cast
<1>5. CASE ~I.unsafe \/ (called /\ I.bit /\ ~HasInfo(s, val))
  <2>1. Variables' = s /\ phase' \in {phase, "crashed"}
    BY <1>5 DEF Cast, Crash
  <2>. QED
    BY <1>3, <1>4, <2>1, KeepingIsGood DEF TypeOK, programVars
<1>6. CASE I.unsafe /\ ~(called /\ I.bit /\ ~HasInfo(s, val))
  <2>1. /\ phase' = phase
        /\ \/ Variables' = m
           \/ HasInfo(s, val) /\ Variables' = SetSizeForPointerVariable(m, I.dst, SizeOf(m, val))
    BY <1>6 DEF Cast
  <2>2. /\ loaded \/ called => \A x \in {val} : <<x, DYN>> \in Demand
        /\ called => <<I.dst, DYN>> \in Demand
    <3>1. /\ loaded \/ called => DefinedAs(val, {"load", "call", "malloc"})
          /\ called => DefinedAs(val, {"call", "malloc"})
      BY DEF IsA, DefinedBy, DefinedAs
    <3>2. /\ loaded \/ called => <<val, DYN>> \in DemandOf(I)
          /\ called => <<I.dst, DYN>> \in DemandOf(I)
      <4>. HIDE DEF loaded, called, val
      <4>. QED
        BY <1>1, <1>2, <1>6, <3>1 DEF DemandOf
    <3>. HIDE DEF loaded, called, val, I
    <3>. QED
      BY <1>1, <3>2 DEF Demand
  <2>3. KeepsKinds(s, sized) /\ IsVariableMap(sized)
    <3>1. sized \in {s, SetSizeForPointerVariable(s, val, I.size)}
      OBVIOUS
    <3>2. KeepsKinds(s, SetSizeForPointerVariable(s, val, I.size))
      <4>. HIDE DEF s, val, I
      <4>. QED
        BY <1>1, <1>2, <1>3, SetSizeKeepsKinds
    <3>. HIDE DEF s, val, sized, I
    <3>. QED
      BY <1>3, <3>1, <3>2 DEF KeepsKinds
  <2>4. ASSUME NEW o, KeepsKinds(o, o), IsVariableMap(o), o = m
        PROVE  KeepsKinds(o, Variables')
    <3>1. HasInfo(s, val) => HasInfo(o, val)
      <4>1. DOMAIN s \subseteq DOMAIN sized
        BY DEF SetSizeForPointerVariable, Put
      <4>2. DOMAIN sized \subseteq DOMAIN C /\ DOMAIN C \subseteq DOMAIN D /\ DOMAIN s \subseteq DOMAIN L
        <5>. HIDE DEF sized, s, val
        <5>. QED
          BY DEF ClassifyPointerVariable, Put
      <4>3. o \in {L, D, s}
        BY <2>4
      <4>. HIDE DEF s, sized, C, D, L
      <4>. QED
        BY <4>1, <4>2, <4>3 DEF HasInfo
    <3>2. HasInfo(s, val) => SizeOf(o, val) \in Size
      <4>. HIDE DEF val, s, m
      <4>. QED
        BY <1>2, <2>4, <3>1, ClassOfTyping
    <3>3. HasInfo(s, val) => KeepsKinds(o, SetSizeForPointerVariable(o, I.dst, SizeOf(o, val)))
      <4>. HIDE DEF val, s, m, I
      <4>. QED
        BY <1>1, <2>4, <3>2, SetSizeKeepsKinds
    <3>. HIDE DEF val, s, m, I
    <3>. QED
      BY <2>1, <2>4, <3>3
  <2>5. \A o : IsVariableMap(o) => KeepsKinds(o, o)
    BY KeepsReflexive
  <2>6. CASE loaded
    <3>1. IsVariableMap(L)
      <4>. HIDE DEF s, val
      <4>. QED
        BY <1>2, <1>3, ClassifyRaises DEF Kind
    <3>2. KeepsKinds(L, Variables')
      <4>1. L = m
        BY <2>6
      <4>. HIDE DEF L, m
      <4>. QED
        BY <2>4, <2>5, <3>1, <4>1
    <3>3. Rule(val, DYN) /\ DYN \in Kind
      BY <2>2, <2>6 DEF Rule, Kind
    <3>. HIDE DEF val, loaded
    <3>. QED
      BY <1>2, <1>3, <1>4, <2>1, <3>2, <3>3, RaisingIsGood
  <2>7. CASE ~loaded /\ ~called
    <3>1. s = m
      BY <2>7
    <3>2. KeepsKinds(s, Variables')
      <4>. HIDE DEF s, m
      <4>. QED
        BY <1>3, <2>4, <2>5, <3>1
    <3>. QED
      BY <1>4, <2>1, <3>2, KeepingIsGood DEF TypeOK, programVars
  <2>8. CASE ~loaded /\ called
    <3>1. /\ IsVariableMap(C) /\ Tracks(sized, C)
          /\ \A x \in Value : KindOf(C, x) =
                IF x = val /\ KindOf(sized, val) < DYN THEN DYN ELSE KindOf(sized, x)
      <4>1. DYN \in Kind \cup {UNKNOWN}
        BY DEF Kind
      <4>. HIDE DEF sized, val
      <4>. QED
        BY <1>2, <2>3, <4>1, ClassifyRaises
    <3>2. /\ IsVariableMap(D) /\ Tracks(C, D)
          /\ \A x \in Value : KindOf(D, x) =
                IF x = I.dst /\ KindOf(C, I.dst) < DYN THEN DYN ELSE KindOf(C, x)
      <4>1. DYN \in Kind \cup {UNKNOWN}
        BY DEF Kind
      <4>. HIDE DEF C, I
      <4>. QED
        BY <1>1, <3>1, <4>1, ClassifyRaises
    <3>3. KeepsKinds(D, Variables')
      <4>1. D = m
        BY <2>8
      <4>. HIDE DEF D, m
      <4>. QED
        BY <2>4, <2>5, <3>2, <4>1
    <3>4. Rule(val, DYN) /\ Rule(I.dst, DYN)
      BY <2>2, <2>8 DEF Rule
    <3>5. Tracks(s, sized) /\ \A x \in Value : KindOf(sized, x) = KindOf(Variables, x)
      <4>. HIDE DEF s, sized
      <4>1. Tracks(s, sized) /\ \A x \in Value : KindOf(sized, x) = KindOf(s, x)
        BY <1>3, <2>3, KeepsTracks
      <4>. QED
        BY <1>3, <4>1, KeepsTracks DEF TypeOK
    <3>6. Tracks(D, Variables') /\ \A x \in Value : KindOf(Variables', x) = KindOf(D, x)
      <4>. HIDE DEF D
      <4>. QED
        BY <3>2, <3>3, KeepsTracks
    <3>. HIDE DEF s, val, sized, C, D, I
    <3>7. Tracks(s, Variables')
      <4>1. Tracks(s, C)
        BY <1>3, <3>1, <3>5, TracksTransitive
      <4>2. Tracks(s, D)
        BY <1>3, <3>2, <4>1, TracksTransitive
      <4>. QED
        BY <1>3, <3>6, <4>2, TracksTransitive
    <3>8. \A x \in Value : KindOf(Variables', x) # KindOf(Variables, x)
                            => Rule(x, KindOf(Variables', x))
      BY <3>1, <3>2, <3>4, <3>5, <3>6
    <3>. QED
      BY <1>4, <2>1, <3>7, <3>8, MentionsStay DEF GoodStep, TypeOK, programVars, s
  <2>. QED
    BY <2>6, <2>7, <2>8
<1>. QED
  BY <1>5, <1>6

(* Whatever the instruction is, processing it is a good step. *)
LEMMA ProcessInstructionStep ==
  ASSUME TypeOK, NEW f \in Fn, NEW i \in DOMAIN Body(f), processInstruction(f, i)
  PROVE  GoodStep /\ Records(f, i)
BY AllocaStep, MallocStep, FreeStep, CallStep, RetStep, StoreStep, LoadStep, GepStep, CastStep
   DEF processInstruction

-----------------------------------------------------------------------------
(* The inductive invariant: nothing is in the map before the globals are. *)

AtStart == phase = "start" => Variables = [x \in {} |-> NewInfo]
IInv == TypeOK /\ FlagExact /\ AtStart

(* Rewriting a signature gives the parameters entries and raises nothing. *)
LEMMA RewriteKeeps ==
  ASSUME TypeOK, NEW f \in Fn, rewriteFunctionSignature(f)
  PROVE  /\ KeepsKinds(Variables, Variables')
         /\ f \notin mod.whitelisted =>
              \A v \in mod.params[f] : Info(Variables', v).instantiatedExplicitSizeVariable
<1> DEFINE whitelisted == f \in mod.whitelisted
           P(v) == [Info(Variables, v) EXCEPT
                      !.size = IF whitelisted THEN "const" ELSE "argument",
                      !.hasExplicitSizeVariable = @ \/ ~whitelisted,
                      !.instantiatedExplicitSizeVariable = @ \/ ~whitelisted]
<1>1. IsVariableMap(Variables) /\ mod.params[f] \subseteq Value
  BY ModulesAssumption DEF TypeOK, Module
<1>2. ASSUME NEW v
      PROVE  /\ P(v) \in VariableInfo /\ Follows(P(v), Info(Variables, v))
             /\ ~whitelisted => P(v).instantiatedExplicitSizeVariable
  <2>1. ASSUME NEW i \in VariableInfo, NEW s \in Size, NEW b \in BOOLEAN
        PROVE  LET j == [i EXCEPT !.size = s, !.hasExplicitSizeVariable = @ \/ b,
                                  !.instantiatedExplicitSizeVariable = @ \/ b]
               IN  /\ j \in VariableInfo /\ Follows(j, i)
                   /\ b => j.instantiatedExplicitSizeVariable
    BY DEF VariableInfo, Follows, SameClass, Grown
  <2>2. (IF whitelisted THEN "const" ELSE "argument") \in Size
    BY DEF Size
  <2>3. Info(Variables, v) \in VariableInfo
    BY <1>1, InfoTyping
  <2>. HIDE DEF whitelisted
  <2>. QED
    BY <2>1, <2>2, <2>3
<1>3. Variables' = [v \in DOMAIN Variables \cup mod.params[f] |->
                      IF v \in mod.params[f] THEN P(v) ELSE Variables[v]]
  BY DEF rewriteFunctionSignature
<1> HIDE DEF P
<1>4. IsVariableMap(Variables') /\ DOMAIN Variables \subseteq DOMAIN Variables'
  BY <1>1, <1>2, <1>3 DEF IsVariableMap
<1>5. \A x \in Value : Follows(Info(Variables', x), Info(Variables, x))
  BY <1>2, <1>3 DEF Follows, SameClass, Grown, Info
<1>6. ~whitelisted => \A v \in mod.params[f] : Info(Variables', v).instantiatedExplicitSizeVariable
  BY <1>2, <1>3 DEF Info
<1>. QED
  BY <1>4, <1>5, <1>6 DEF KeepsKinds

(* The instruction the analysis or the propagation takes next exists. *)
LEMMA AnalysisTakesAnInstruction ==
  ASSUME TypeOK, analyzeFunction
  PROVE  GoodStep /\ Records(at.f, at.j + 1) /\ at' \in [f: Fn \cup {NoValue}, i: Nat, u: Nat, j: Nat]
<1>1. at.f \in Fn /\ at.j \in Nat /\ at.j < Len(Body(at.f))
  BY DEF analyzeFunction, TypeOK
<1>2. Body(at.f) \in Seq(Instruction)
  BY <1>1, ModulesAssumption DEF TypeOK, Module, Body
<1>3. at.j + 1 \in DOMAIN Body(at.f)
  BY <1>1, <1>2
<1>4. GoodStep /\ Records(at.f, at.j + 1)
  BY <1>1, <1>3, ProcessInstructionStep DEF analyzeFunction
<1>5. at' = [at EXCEPT !.j = at.j + 1]
  BY DEF analyzeFunction
<1>. QED
  BY <1>1, <1>4, <1>5 DEF TypeOK

LEMMA ReanalysisTakesAnInstruction ==
  ASSUME TypeOK, Reanalyze
  PROVE  GoodStep /\ at' \in [f: Fn \cup {NoValue}, i: Nat, u: Nat, j: Nat]
<1>1. PICK j \in Aliases : at' = [at EXCEPT !.j = j] /\ processInstruction(at.f, j)
  BY DEF Reanalyze
<1>2. at.f \in Fn
  BY DEF Reanalyze
<1>3. j \in DOMAIN Body(at.f)
  BY <1>1 DEF Aliases
<1>4. j \in Nat
  BY <1>2, <1>3, PositionTyping DEF TypeOK
<1>5. GoodStep
  BY <1>1, <1>2, <1>3, ProcessInstructionStep
<1>. QED
  BY <1>1, <1>4, <1>5 DEF TypeOK

-----------------------------------------------------------------------------
(* The initial state satisfies the invariant. *)
LEMMA InitInvariant ==
  ASSUME Init
  PROVE  IInv
BY DEF Init, IInv, TypeOK, FlagExact, AtStart, Phase, Nowhere, IsVariableMap

(* Operands are numbered. *)
LEMMA OperandsDomain ==
  ASSUME NEW p, At(p) \in Instruction
  PROVE  DOMAIN Operands(p) \subseteq Nat
<1> DEFINE I == At(p)
<1>1. I.op \in {"alloca", "malloc", "free", "call", "ret", "store", "load", "gep", "cast"}
  BY DEF Instruction
<1>2. CASE I.op \in {"alloca", "malloc"}
  BY <1>2 DEF Operands
<1>3. CASE I.op \in {"free", "cast"}
  BY <1>3 DEF Operands
<1>4. CASE I.op = "ret"
  BY <1>4 DEF Operands
<1>5. CASE I.op \in {"load", "gep"}
  BY <1>5 DEF Operands
<1>6. CASE I.op = "store"
  BY <1>6 DEF Operands
<1>7. CASE I.op = "call"
  <2>1. I.args \in Seq(Value \cup Scalar)
    BY <1>7 DEF Instruction
  <2>2. DOMAIN I.args \subseteq Nat
    BY <2>1
  <2>3. Operands(p) = [k \in DOMAIN I.args |-> Now(I.args[k])]
    BY <1>7 DEF Operands
  <2>. QED
    BY <2>2, <2>3
<1>. QED
  BY <1>1, <1>2, <1>3, <1>4, <1>5, <1>6, <1>7

(* Every step keeps the state typed. *)
LEMMA TypeStep ==
  ASSUME IInv, [Next]_vars
  PROVE  TypeOK'
<1>. USE DEF IInv, TypeOK, loopVars, rewriteVars, programVars
<1>1. CASE RegisterGlobals
  <2>1. [NewInfo EXCEPT !.isGlobal = TRUE, !.size = "const"] \in VariableInfo
    BY DEF NewInfo, VariableInfo, Size, Kind
  <2>2. IsVariableMap(Variables')
    <3>. DEFINE i == [NewInfo EXCEPT !.isGlobal = TRUE, !.size = "const"]
    <3>1. Variables' = [g \in Global |-> i]
      BY <1>1 DEF RegisterGlobals
    <3>. HIDE DEF i
    <3>. QED
      BY <2>1, <3>1 DEF IsVariableMap, i
  <2>. QED
    BY <1>1, <2>2 DEF RegisterGlobals, Phase
<1>2. ASSUME NEW f \in Fn, rewriteFunctionSignature(f) PROVE TypeOK'
  <2>1. IsVariableMap(Variables')
    BY <1>2, RewriteKeeps DEF KeepsKinds
  <2>2. FunctionsToRemove' \in {FunctionsToRemove, FunctionsToRemove \cup {f}}
    BY <1>2 DEF rewriteFunctionSignature
  <2>3. /\ FunctionsAddedWithNewReturnType' \subseteq FunctionsToRemove'
        /\ FunctionsToRemove \subseteq FunctionsToRemove'
    BY <1>2 DEF rewriteFunctionSignature
  <2>. QED
    BY <1>2, <2>1, <2>2, <2>3 DEF rewriteFunctionSignature
<1>3. CASE analyzeFunction
  <2>1. GoodStep /\ at' \in [f: Fn \cup {NoValue}, i: Nat, u: Nat, j: Nat]
    BY <1>3, AnalysisTakesAnInstruction
  <2>2. IsVariableMap(Variables') /\ phase' \in Phase
    BY <2>1 DEF GoodStep, Tracks, Phase
  <2>. QED
    BY <1>3, <2>1, <2>2 DEF analyzeFunction, GoodStep
<1>4. CASE Reanalyze
  <2>1. GoodStep /\ at' \in [f: Fn \cup {NoValue}, i: Nat, u: Nat, j: Nat]
    BY <1>4, ReanalysisTakesAnInstruction
  <2>2. IsVariableMap(Variables') /\ phase' \in Phase
    BY <2>1 DEF GoodStep, Tracks, Phase
  <2>. QED
    BY <1>4, <2>1, <2>2 DEF Reanalyze, GoodStep
<1>5. ASSUME NEW g \in Global, VisitGlobal(g) PROVE TypeOK'
  <2>1. g \in DOMAIN Variables /\ Variables[g] \in VariableInfo
    BY <1>5 DEF VisitGlobal, FlagExact, IsVariableMap
  <2>2. IsVariableMap([Variables EXCEPT ![g].didClassificationChange = FALSE])
    BY <2>1 DEF IsVariableMap, VariableInfo
  <2>3. Variables[g].dependentFunctions \subseteq Fn
    BY <2>1 DEF VariableInfo
  <2>. QED
    BY <1>5, <2>2, <2>3 DEF VisitGlobal
<1>6. ASSUME NEW f \in Fn, EnterAnalysis(f) \/ EnterFunction(f) PROVE TypeOK'
  BY <1>6 DEF EnterAnalysis, EnterFunction, Nowhere
<1>7. CASE LeaveAnalysis \/ LeaveFunction \/ LeaveGlobal
  BY <1>7 DEF LeaveAnalysis, LeaveFunction, LeaveGlobal, Nowhere
<1>8. CASE NextUse
  <2>1. PICK p \in LaterUses : at' = [at EXCEPT !.i = p[1], !.u = p[2], !.j = 0]
    BY <1>8 DEF NextUse
  <2>2. at.f \in Fn
    BY <1>8 DEF NextUse
  <2>3. PICK i \in DOMAIN Body(at.f) : p \in {i} \X UsesIn(<<at.f, i>>)
    <3>1. p \in Uses
      BY <2>1 DEF LaterUses
    <3>. HIDE DEF IInv, TypeOK, loopVars, rewriteVars, programVars
    <3>. QED
      BY <3>1 DEF Uses
  <2>4. p[1] \in Nat /\ p[2] \in Nat
    <3>1. i \in Nat /\ <<at.f, i>> \in Positions /\ At(<<at.f, i>>) \in Instruction
      BY <2>2, <2>3, PositionTyping
    <3>2. p[2] \in DOMAIN Operands(<<at.f, i>>)
      BY <2>3 DEF UsesIn
    <3>3. DOMAIN Operands(<<at.f, i>>) \subseteq Nat
      BY <3>1, OperandsDomain
    <3>. QED
      BY <2>3, <3>1, <3>2, <3>3
  <2>. QED
    BY <1>8, <2>1, <2>4 DEF NextUse
<1>9. CASE BeginAnalysis \/ BeginPropagation \/ BeginRemoval \/ Finish
  BY <1>9 DEF BeginAnalysis, BeginPropagation, BeginRemoval, Finish, Phase
<1>10. ASSUME NEW f \in Fn, RemoveOldFunction(f) PROVE TypeOK'
  BY <1>10 DEF RemoveOldFunction
<1>11. CASE UNCHANGED vars
  BY <1>11 DEF vars
<1>. HIDE DEF IInv, TypeOK, loopVars, rewriteVars, programVars
<1>. QED
  BY <1>1, <1>2, <1>3, <1>4, <1>5, <1>6, <1>7, <1>8, <1>9, <1>10, <1>11
     DEF Next, Step, Terminating

(* What tracks the classes keeps the flags exact. *)
LEMMA TrackingKeepsFlags ==
  ASSUME IInv, Tracks(Variables, Variables'), phase # "start",
         UNCHANGED <<visiting, visited>>
  PROVE  FlagExact'
<1>. SUFFICES ASSUME NEW g \in Global
              PROVE  /\ g \in DOMAIN Variables' /\ Variables'[g].isGlobal
                     /\ g \notin visited \cup {visiting} =>
                          (Variables'[g].didClassificationChange
                             <=> Variables'[g].classification # SAFE)
  BY DEF FlagExact
<1>1. /\ g \in DOMAIN Variables /\ Variables[g].isGlobal
      /\ g \notin visited \cup {visiting} =>
           (Variables[g].didClassificationChange <=> Variables[g].classification # SAFE)
  BY DEF IInv, FlagExact
<1>2. g \in DOMAIN Variables' /\ IsVariableMap(Variables) /\ IsVariableMap(Variables')
  BY <1>1 DEF Tracks, IInv, TypeOK
<1>3. /\ Variables[g].classification =< Variables'[g].classification
      /\ Variables'[g].isGlobal = Variables[g].isGlobal
      /\ Variables'[g].didClassificationChange <=>
           \/ Variables[g].didClassificationChange
           \/ Variables[g].classification < Variables'[g].classification
  BY <1>1, <1>2 DEF Tracks, Info
<1>4. Variables[g].classification \in Kind /\ Variables'[g].classification \in Kind
  BY <1>1, <1>2 DEF IsVariableMap, VariableInfo
<1>. QED
  BY <1>1, <1>2, <1>3, <1>4 DEF Kind, SAFE, SEQ, DYN

(* Every step keeps the flags exact. *)
LEMMA FlagStep ==
  ASSUME IInv, [Next]_vars
  PROVE  FlagExact'
<1>1. CASE RegisterGlobals
  BY <1>1 DEF RegisterGlobals, FlagExact, NewInfo
<1>2. ASSUME NEW f \in Fn, rewriteFunctionSignature(f) PROVE FlagExact'
  BY <1>2, RewriteKeeps, KeepsTracks, TrackingKeepsFlags
     DEF IInv, TypeOK, rewriteFunctionSignature
<1>3. CASE analyzeFunction
  BY <1>3, AnalysisTakesAnInstruction, TrackingKeepsFlags DEF IInv, GoodStep, analyzeFunction
<1>4. CASE Reanalyze
  BY <1>4, ReanalysisTakesAnInstruction, TrackingKeepsFlags DEF IInv, GoodStep, Reanalyze
<1>5. ASSUME NEW g \in Global, VisitGlobal(g) PROVE FlagExact'
  <2>1. /\ IsVariableMap(Variables)
        /\ \A h \in Global : h \in DOMAIN Variables /\ Variables[h].isGlobal
    BY <1>5 DEF IInv, TypeOK, FlagExact, VisitGlobal
  <2>2. CASE Variables[g].didClassificationChange
    <3>1. /\ Variables' = [Variables EXCEPT ![g].didClassificationChange = FALSE]
          /\ visiting' = g /\ visited' = visited /\ visiting = NoValue
      BY <1>5, <2>2 DEF VisitGlobal
    <3>2. \A h \in Global : /\ h \in DOMAIN Variables'
                            /\ Variables'[h].isGlobal = Variables[h].isGlobal
                            /\ h # g => Variables'[h] = Variables[h]
      BY <2>1, <3>1 DEF IsVariableMap, VariableInfo
    <3>. QED
      BY <1>5, <2>1, <3>1, <3>2 DEF FlagExact, IInv, VisitGlobal
  <2>3. CASE ~Variables[g].didClassificationChange
    BY <1>5, <2>3 DEF IInv, FlagExact, VisitGlobal
  <2>. QED
    BY <2>2, <2>3
<1>6. ASSUME NEW f \in Fn, EnterAnalysis(f) \/ EnterFunction(f) \/ RemoveOldFunction(f)
      PROVE  FlagExact'
  BY <1>6 DEF IInv, FlagExact, EnterAnalysis, EnterFunction, RemoveOldFunction
<1>7. CASE LeaveAnalysis \/ LeaveFunction \/ NextUse
  BY <1>7 DEF IInv, FlagExact, LeaveAnalysis, LeaveFunction, NextUse
<1>8. CASE LeaveGlobal
  BY <1>8 DEF IInv, FlagExact, LeaveGlobal
<1>9. CASE BeginAnalysis \/ BeginPropagation \/ BeginRemoval \/ Finish
  BY <1>9 DEF IInv, FlagExact, BeginAnalysis, BeginPropagation, BeginRemoval, Finish, loopVars
<1>10. CASE UNCHANGED vars
  BY <1>10 DEF IInv, FlagExact, vars, loopVars
<1>. QED
  BY <1>1, <1>2, <1>3, <1>4, <1>5, <1>6, <1>7, <1>8, <1>9, <1>10 DEF Next, Step, Terminating

(* No step returns to the start. *)
LEMMA StartStep ==
  ASSUME IInv, [Next]_vars
  PROVE  AtStart'
<1>1. phase' = "start" => phase = "start" /\ Variables' = Variables
  <2>1. CASE analyzeFunction
    BY <2>1, AnalysisTakesAnInstruction DEF IInv, GoodStep, analyzeFunction
  <2>2. CASE Reanalyze
    BY <2>2, ReanalysisTakesAnInstruction DEF IInv, GoodStep, Reanalyze
  <2>. QED
    BY <2>1, <2>2
       DEF Next, Step, Terminating, vars, RegisterGlobals, BeginAnalysis, BeginPropagation,
           BeginRemoval, Finish, rewriteFunctionSignature, EnterAnalysis, EnterFunction,
           RemoveOldFunction, VisitGlobal, LeaveAnalysis, NextUse, LeaveFunction, LeaveGlobal
<1>. QED
  BY <1>1 DEF IInv, AtStart

(* The inductive invariant holds throughout. *)
THEOREM Invariant == Spec => []IInv
<1>1. Init => IInv
  BY InitInvariant
<1>2. IInv /\ [Next]_vars => IInv'
  BY TypeStep, FlagStep, StartStep DEF IInv
<1>. QED
  BY <1>1, <1>2, PTL DEF Spec

(* Every variable keeps its type. *)
THEOREM TypeCorrect == Spec => []TypeOK
<1>1. IInv => TypeOK
  BY DEF IInv
<1>. QED
  BY <1>1, Invariant, PTL

(* The change flags of the globals the propagation has yet to visit are exact:
   no handler raises a class behind the propagation's back. *)
THEOREM FlagsAreExact == Spec => []FlagExact
<1>1. IInv => FlagExact
  BY DEF IInv
<1>. QED
  BY <1>1, Invariant, PTL
-----------------------------------------------------------------------------
(* What the map never forgets: dependent functions and size variables. *)

(* No step after the globals are registered loses a dependent function or a
   size variable, or lowers a class. *)
LEMMA MapGrows ==
  ASSUME IInv, [Next]_vars, phase # "start"
  PROVE  \A x \in Value : /\ Grown(Info(Variables, x), Info(Variables', x))
                          /\ KindOf(Variables, x) =< KindOf(Variables', x)
<1> DEFINE Goal == \A x \in Value : /\ Grown(Info(Variables, x), Info(Variables', x))
                                    /\ KindOf(Variables, x) =< KindOf(Variables', x)
<1>. SUFFICES Goal
  OBVIOUS
<1>. IsVariableMap(Variables)
  BY DEF IInv, TypeOK
<1>1. ASSUME Tracks(Variables, Variables') PROVE Goal
  BY <1>1 DEF Tracks, KindOf
<1>2. ASSUME NEW f \in Fn, rewriteFunctionSignature(f) PROVE Goal
  BY <1>1, <1>2, RewriteKeeps, KeepsTracks DEF IInv
<1>3. CASE analyzeFunction
  BY <1>1, <1>3, AnalysisTakesAnInstruction DEF IInv, GoodStep
<1>4. CASE Reanalyze
  BY <1>1, <1>4, ReanalysisTakesAnInstruction DEF IInv, GoodStep
<1>5. ASSUME Variables' = Variables PROVE Goal
  <2>1. \A x \in Value : KindOf(Variables, x) \in Int
    BY InfoTyping DEF Kind, SAFE, SEQ, DYN
  <2>. QED
    BY <1>5, <2>1 DEF Grown
<1>6. ASSUME NEW g \in Global, VisitGlobal(g) PROVE Goal
  <2>1. CASE Variables' = Variables
    BY <1>5, <2>1
  <2>2. CASE Variables' = [Variables EXCEPT ![g].didClassificationChange = FALSE]
    <3>1. g \in DOMAIN Variables /\ Variables[g] \in VariableInfo
      BY <1>6 DEF VisitGlobal, IInv, FlagExact, IsVariableMap
    <3>2. \A x \in Value : Info(Variables, x).classification \in Int
      BY InfoTyping DEF VariableInfo, Kind, SAFE, SEQ, DYN
    <3>. QED
      BY <2>2, <3>1, <3>2 DEF Grown, Info, KindOf, VariableInfo
  <2>. QED
    BY <1>6, <2>1, <2>2 DEF VisitGlobal
<1>7. ASSUME NEW f \in Fn, EnterAnalysis(f) \/ EnterFunction(f) \/ RemoveOldFunction(f)
      PROVE  Goal
  BY <1>5, <1>7 DEF EnterAnalysis, EnterFunction, RemoveOldFunction
<1>8. CASE LeaveAnalysis \/ LeaveFunction \/ NextUse \/ LeaveGlobal
  BY <1>5, <1>8 DEF LeaveAnalysis, LeaveFunction, NextUse, LeaveGlobal
<1>9. CASE BeginAnalysis \/ BeginPropagation \/ BeginRemoval \/ Finish
  BY <1>5, <1>9 DEF BeginAnalysis, BeginPropagation, BeginRemoval, Finish
<1>10. CASE UNCHANGED vars
  BY <1>5, <1>10 DEF vars
<1>11. ~RegisterGlobals
  BY DEF RegisterGlobals
<1>. HIDE DEF Goal
<1>. QED
  BY <1>2, <1>3, <1>4, <1>5, <1>6, <1>7, <1>8, <1>9, <1>10, <1>11 DEF Next, Step, Terminating

(* The functions to remove are found by the rewriting of signatures, which
   comes after the globals are registered. *)
SizesInv == SizeVariablesKept /\ (phase = "start" => FunctionsToRemove = {})

(* No step but the rewriting of a signature touches the functions to remove,
   and none returns to the start. *)
LEMMA RemovalStep ==
  ASSUME IInv, [Next]_vars
  PROVE  /\ mod' = mod
         /\ phase' = "start" => phase = "start"
         /\ \/ FunctionsToRemove' = FunctionsToRemove
            \/ \E f \in Fn : /\ rewriteFunctionSignature(f) /\ f \notin mod.whitelisted
                             /\ phase # "start"
                             /\ FunctionsToRemove' = FunctionsToRemove \cup {f}
<1>1. CASE analyzeFunction
  BY <1>1, AnalysisTakesAnInstruction DEF IInv, GoodStep, analyzeFunction, rewriteVars
<1>2. CASE Reanalyze
  BY <1>2, ReanalysisTakesAnInstruction DEF IInv, GoodStep, Reanalyze, rewriteVars
<1>3. ASSUME NEW f \in Fn, rewriteFunctionSignature(f)
      PROVE  /\ mod' = mod /\ phase' = phase /\ phase # "start"
             /\ \/ FunctionsToRemove' = FunctionsToRemove
                \/ f \notin mod.whitelisted /\ FunctionsToRemove' = FunctionsToRemove \cup {f}
  BY <1>3 DEF rewriteFunctionSignature
<1>4. ASSUME NEW f \in Fn, EnterAnalysis(f) \/ EnterFunction(f) \/ RemoveOldFunction(f)
      PROVE  mod' = mod /\ phase' = phase /\ FunctionsToRemove' = FunctionsToRemove
  BY <1>4 DEF EnterAnalysis, EnterFunction, RemoveOldFunction, rewriteVars
<1>5. ASSUME NEW g \in Global, VisitGlobal(g)
      PROVE  mod' = mod /\ phase' = phase /\ FunctionsToRemove' = FunctionsToRemove
  BY <1>5 DEF VisitGlobal, rewriteVars
<1>6. CASE LeaveAnalysis \/ LeaveFunction \/ NextUse \/ LeaveGlobal
  BY <1>6 DEF LeaveAnalysis, LeaveFunction, NextUse, LeaveGlobal, rewriteVars
<1>7. CASE RegisterGlobals \/ BeginAnalysis \/ BeginPropagation \/ BeginRemoval \/ Finish
  BY <1>7 DEF RegisterGlobals, BeginAnalysis, BeginPropagation, BeginRemoval, Finish, rewriteVars
<1>8. CASE UNCHANGED vars
  BY <1>8 DEF vars, rewriteVars
<1>. QED
  BY <1>1, <1>2, <1>3, <1>4, <1>5, <1>6, <1>7, <1>8 DEF Next, Step, Terminating

(* A size stays marked as read only where there is a size variable. *)
LEMMA SizesStep ==
  ASSUME IInv, SizesInv, [Next]_vars
  PROVE  SizesInv'
<1>. IsVariableMap(Variables)
  BY DEF IInv, TypeOK
<1>1. IsVariableMap(Variables')
  BY TypeStep DEF TypeOK
<1>2. CASE phase = "start"
  <2>1. RegisterGlobals \/ (Variables' = Variables /\ phase' = phase)
    <3>1. ASSUME NEW f \in Fn PROVE ~rewriteFunctionSignature(f) /\ ~RemoveOldFunction(f)
      BY <1>2 DEF rewriteFunctionSignature, RemoveOldFunction
    <3>2. ASSUME NEW f \in Fn PROVE ~EnterAnalysis(f) /\ ~EnterFunction(f)
      BY <1>2 DEF EnterAnalysis, EnterFunction
    <3>. QED
      BY <1>2, <3>1, <3>2
         DEF Next, Step, Terminating, vars, BeginAnalysis, BeginPropagation, BeginRemoval, Finish,
             VisitGlobal, analyzeFunction, LeaveAnalysis, NextUse, Reanalyze, LeaveFunction,
             LeaveGlobal
  <2>2. FunctionsToRemove' = {} /\ FunctionsToRemove = {}
    BY <1>2, RemovalStep DEF SizesInv
  <2>3. CASE RegisterGlobals
    <3>1. Variables' = [g \in Global |-> [NewInfo EXCEPT !.isGlobal = TRUE, !.size = "const"]]
      BY <2>3 DEF RegisterGlobals
    <3>2. \A v \in DOMAIN Variables' : ~Variables'[v].instantiatedExplicitSizeVariable
      BY <3>1 DEF NewInfo
    <3>. QED
      BY <2>2, <3>2 DEF SizesInv, SizeVariablesKept
  <2>4. CASE Variables' = Variables /\ phase' = phase
    BY <2>2, <2>4 DEF SizesInv, SizeVariablesKept
  <2>. QED
    BY <2>1, <2>3, <2>4
<1>3. CASE phase # "start"
  <2>1. \A v \in Value : Grown(Info(Variables, v), Info(Variables', v))
    BY <1>3, MapGrows
  <2>2. ASSUME NEW v \in DOMAIN Variables', Variables'[v].instantiatedExplicitSizeVariable
        PROVE  Variables'[v].hasExplicitSizeVariable
    <3>1. v \in Value /\ Info(Variables', v) = Variables'[v]
      BY <1>1 DEF IsVariableMap, Info
    <3>2. Info(Variables, v).instantiatedExplicitSizeVariable
            => Info(Variables, v).hasExplicitSizeVariable
      BY DEF SizesInv, SizeVariablesKept, Info, NewInfo
    <3>. QED
      BY <2>1, <2>2, <3>1, <3>2 DEF Grown
  <2>3. ASSUME NEW f \in FunctionsToRemove', NEW v \in mod'.params[f]
        PROVE  Info(Variables', v).instantiatedExplicitSizeVariable
    <3>1. f \in Fn /\ v \in Value
      <4>1. f \in Fn /\ mod' \in Modules
        BY TypeStep DEF TypeOK
      <4>. QED
        BY <4>1, ModulesAssumption DEF Module
    <3>2. CASE f \in FunctionsToRemove
      <4>1. Info(Variables, v).instantiatedExplicitSizeVariable
        BY <3>2, RemovalStep DEF SizesInv, SizeVariablesKept
      <4>. QED
        BY <2>1, <3>1, <4>1 DEF Grown
    <3>3. CASE f \notin FunctionsToRemove
      <4>1. rewriteFunctionSignature(f) /\ f \notin mod.whitelisted
        BY <3>3, RemovalStep
      <4>. QED
        BY <3>1, <4>1, RewriteKeeps, RemovalStep DEF IInv
    <3>. QED
      BY <3>2, <3>3
  <2>. QED
    BY <1>3, <2>2, <2>3, RemovalStep DEF SizesInv, SizeVariablesKept
<1>. QED
  BY <1>2, <1>3

(* A size is only marked as read out of a size variable when there is one, and
   a parameter of a rewritten function never loses its size argument. *)
THEOREM SizesAreKept == Spec => []SizeVariablesKept
<1>1. Init => SizesInv
  BY DEF Init, SizesInv, SizeVariablesKept
<1>2. IInv /\ SizesInv /\ [Next]_vars => SizesInv'
  BY SizesStep
<1>3. SizesInv => SizeVariablesKept
  BY DEF SizesInv
<1>. QED
  BY <1>1, <1>2, <1>3, Invariant, PTL DEF Spec

-----------------------------------------------------------------------------
(* What the analysis has passed stays recorded, while calls are replaced. *)

(* What processing an instruction does to the program: a call whose result is
   given may be replaced, and a return wrapped. *)
LEMMA ProgramStep ==
  ASSUME NEW f \in Fn, NEW i, processInstruction(f, i)
  PROVE  /\ replaced' = replaced \/ (Body(f)[i].op = "call" /\ replaced' = replaced \cup {Body(f)[i].dst})
         /\ wrapped \subseteq wrapped'
         /\ Body(f)[i].op = "gep" => Gep(f, i) /\ replaced' = replaced
<1>1. CASE Call(f, i)
  BY <1>1 DEF Call
<1>2. CASE Ret(f, i)
  BY <1>2 DEF Ret
<1>3. CASE Gep(f, i)
  BY <1>3 DEF Gep, programVars
<1>4. CASE Alloca(f, i) \/ Malloc(f, i) \/ Free(f, i)
  BY <1>4 DEF Alloca, Malloc, Free, programVars
<1>5. CASE Store(f, i) \/ Load(f, i) \/ Cast(f, i)
  BY <1>5 DEF Store, Load, Cast, programVars
<1>. QED
  BY <1>1, <1>2, <1>3, <1>4, <1>5 DEF processInstruction

(* The instructions of two positions of the module. *)
LEMMA AtTyping ==
  ASSUME mod \in Modules, NEW p \in Positions
  PROVE  /\ p = <<p[1], p[2]>> /\ p[1] \in Fn /\ p[2] \in DOMAIN Body(p[1]) /\ p[2] \in Nat
         /\ p[2] =< Len(Body(p[1])) /\ p[2] > 0
         /\ At(p) \in Instruction /\ At(p) = mod.code[p[1]][p[2]]
<1>1. p[1] \in Fn /\ p[2] \in DOMAIN Body(p[1]) /\ p = <<p[1], p[2]>>
  BY DEF Positions
<1>2. Body(p[1]) \in Seq(Instruction)
  BY <1>1, ModulesAssumption DEF Module, Body
<1>. QED
  BY <1>1, <1>2, PositionTyping DEF At, Body

(* The replacement of a call brings no new mention of a global: it is no
   global, and no instruction of the module has it for its result. *)
LEMMA MentionsShrink ==
  ASSUME TypeOK, mod' = mod, wrapped \subseteq wrapped',
         \/ replaced' = replaced
         \/ \E q \in Positions : At(q).op = "call" /\ replaced' = replaced \cup {At(q).dst},
         NEW p \in Positions
  PROVE  Mentioned(p)' \subseteq Mentioned(p)
<1>. DEFINE Names(v, g) == v = g \/ IsGEPOn(v, g)
<1>1. At(p)' = At(p) /\ Positions' = Positions /\ \A q : At(q)' = At(q)
  BY DEF At, Positions, Body
<1>2. At(p) \in Instruction
  BY AtTyping DEF TypeOK
<1>3. ASSUME NEW v \in replaced', v \notin replaced
      PROVE  /\ v \in Local /\ OrigRet[v] \in Local
             /\ \A I \in {At(q) : q \in Positions} : I.op \in Results => I.dst # OrigRet[v]
  <2>1. PICK q \in Positions : At(q).op = "call" /\ v = At(q).dst
    BY <1>3
  <2>2. v \in Local /\ OrigRet[v] \in Local
    BY <2>1, AtTyping, InstructionTyping DEF TypeOK
  <2>3. ASSUME NEW r \in Positions, At(r).op \in Results PROVE At(r).dst # OrigRet[v]
    <3>1. ReplacementsAreNew(mod)
      BY ModulesAssumption DEF TypeOK
    <3>2. /\ q[1] \in Fn /\ q[2] \in DOMAIN mod.code[q[1]] /\ At(q) = mod.code[q[1]][q[2]]
          /\ r[1] \in Fn /\ r[2] \in DOMAIN mod.code[r[1]] /\ At(r) = mod.code[r[1]][r[2]]
      BY <2>1, <2>3, AtTyping DEF TypeOK, Body
    <3>3. mod.code[q[1]][q[2]].op = "call" /\ mod.code[r[1]][r[2]].op \in Results
      BY <2>1, <2>3, <3>2
    <3>4. mod.code[r[1]][r[2]].dst # OrigRet[mod.code[q[1]][q[2]].dst]
      BY <3>1, <3>2, <3>3 DEF ReplacementsAreNew
    <3>. QED
      BY <2>1, <3>2, <3>4
  <2>. QED
    BY <2>2, <2>3
<1>4. ASSUME NEW v, NEW g \in Global, Now(v)' = g PROVE Now(v) = g
  <2>1. CASE v \in replaced' /\ v \notin replaced
    BY <1>3, <1>4, <2>1 DEF Now
  <2>2. CASE v \notin replaced' \/ v \in replaced
    BY <1>4, <2>2 DEF Now
  <2>. QED
    BY <2>1, <2>2
<1>5. ASSUME NEW v, NEW g \in Global, IsGEPOn(Now(v), g)' PROVE IsGEPOn(Now(v), g)
  <2>1. Now(v)' = Now(v)
    <3>1. CASE v \in replaced' /\ v \notin replaced
      <4>1. Now(v)' = OrigRet[v]
        BY <3>1 DEF Now
      <4>2. OrigRet[v] \notin Konst
        BY <1>3, <3>1
      <4>3. PICK I \in DefinedBy(Now(v), {"gep"})' : TRUE
        BY <1>5, <4>1, <4>2 DEF IsGEPOn
      <4>4. I \in {At(q) : q \in Positions} /\ I.op = "gep" /\ I.dst = OrigRet[v]
        BY <1>1, <4>1, <4>3 DEF DefinedBy
      <4>. QED
        BY <1>3, <3>1, <4>4 DEF Results
    <3>2. CASE v \notin replaced' \/ v \in replaced
      BY <3>2 DEF Now
    <3>. QED
      BY <3>1, <3>2
  <2>2. CASE Now(v) \in Konst /\ KonstBase[Now(v)] = g
    BY <2>2 DEF IsGEPOn
  <2>3. CASE \E I \in DefinedBy(Now(v), {"gep"})' : Now(I.ptr)' = g
    <3>1. PICK I \in DefinedBy(Now(v), {"gep"})' : Now(I.ptr)' = g
      BY <2>3
    <3>2. I \in DefinedBy(Now(v), {"gep"})
      BY <1>1, <2>1, <3>1 DEF DefinedBy
    <3>3. Now(I.ptr) = g
      BY <1>4, <3>1
    <3>. QED
      BY <3>2, <3>3 DEF IsGEPOn
  <2>. QED
    BY <1>5, <2>1, <2>2, <2>3 DEF IsGEPOn
<1>6. SUFFICES ASSUME NEW g \in Global, NEW k \in DOMAIN Operands(p)',
                      Names(Operands(p)[k], g)'
               PROVE  k \in DOMAIN Operands(p) /\ Names(Operands(p)[k], g)
  BY DEF Mentioned
<1>. DEFINE I == At(p)
<1>7. \A v : Names(Now(v), g)' => Names(Now(v), g)
  BY <1>4, <1>5
<1>8. I.op \in {"alloca", "malloc", "free", "call", "ret", "store", "load", "gep", "cast"}
  BY <1>2 DEF Instruction
<1>. HIDE DEF Names
<1>9. CASE I.op \in {"alloca", "malloc"}
  BY <1>1, <1>6, <1>9 DEF Operands
<1>10. CASE I.op \in {"free", "cast"}
  BY <1>1, <1>6, <1>7, <1>10 DEF Operands
<1>11. CASE I.op = "ret"
  BY <1>1, <1>6, <1>7, <1>11 DEF Operands
<1>12. CASE I.op \in {"load", "gep"}
  BY <1>1, <1>6, <1>7, <1>12 DEF Operands
<1>13. CASE I.op = "store"
  BY <1>1, <1>6, <1>7, <1>13 DEF Operands
<1>14. CASE I.op = "call"
  BY <1>1, <1>6, <1>7, <1>14 DEF Operands
<1>. QED
  BY <1>8, <1>9, <1>10, <1>11, <1>12, <1>13, <1>14 DEF Names

(* The analysis passes one position at a time. *)
LEMMA PassedStep ==
  ASSUME IInv, [Next]_vars, NEW p \in Positions, Passed(p)', ~Passed(p)
  PROVE  analyzeFunction /\ p = <<at.f, at.j + 1>>
<1>1. /\ p = <<p[1], p[2]>> /\ p[1] \in Fn /\ p[2] \in Nat
      /\ p[2] =< Len(Body(p[1])) /\ p[2] > 0
  BY AtTyping DEF IInv, TypeOK
<1>. USE DEF Passed, Analyzed
<1>2. CASE analyzeFunction
  <2>1. phase' \in {phase, "crashed"} /\ phase = "analyze"
    BY <1>2, AnalysisTakesAnInstruction DEF IInv, GoodStep, analyzeFunction
  <2>2. /\ phase' = "analyze" /\ p[1] \notin pending /\ pending' = pending
        /\ at.f = p[1] /\ ~(p[2] =< at.j)
    <3>1. at' = [at EXCEPT !.j = at.j + 1] /\ pending' = pending /\ at'.f = at.f
      BY <1>2 DEF analyzeFunction, IInv, TypeOK
    <3>. QED
      BY <2>1, <3>1
  <2>3. p[2] =< at.j + 1 /\ at.j \in Nat
    BY <1>2, <2>1, <2>2 DEF analyzeFunction, IInv, TypeOK
  <2>. QED
    BY <1>1, <1>2, <2>2, <2>3
<1>3. CASE Reanalyze
  BY <1>3, ReanalysisTakesAnInstruction DEF IInv, GoodStep, Reanalyze
<1>4. ASSUME NEW f \in Fn, rewriteFunctionSignature(f) PROVE FALSE
  BY <1>4 DEF rewriteFunctionSignature
<1>5. ASSUME NEW f \in Fn, EnterAnalysis(f) PROVE FALSE
  <2>1. /\ phase' = "analyze" /\ phase = "analyze" /\ at = Nowhere /\ at'.f = f /\ at'.j = 0
        /\ pending' = pending \ {f}
    BY <1>5 DEF EnterAnalysis, Nowhere
  <2>2. at.f # p[1]
    BY <1>1, <2>1 DEF Nowhere
  <2>. QED
    BY <1>1, <2>1, <2>2
<1>6. ASSUME NEW f \in Fn, EnterFunction(f) \/ RemoveOldFunction(f) PROVE FALSE
  BY <1>6 DEF EnterFunction, RemoveOldFunction
<1>7. ASSUME NEW g \in Global, VisitGlobal(g) PROVE FALSE
  BY <1>7 DEF VisitGlobal
<1>8. CASE LeaveAnalysis
  <2>1. /\ phase' = "analyze" /\ phase = "analyze" /\ pending' = pending
        /\ at.j = Len(Body(at.f))
    BY <1>8 DEF LeaveAnalysis
  <2>. QED
    BY <1>1, <2>1
<1>9. CASE LeaveFunction \/ NextUse \/ LeaveGlobal
  BY <1>9 DEF LeaveFunction, NextUse, LeaveGlobal
<1>10. CASE RegisterGlobals \/ BeginAnalysis \/ BeginRemoval \/ Finish
  BY <1>1, <1>10 DEF RegisterGlobals, BeginAnalysis, BeginRemoval, Finish
<1>11. CASE BeginPropagation
  <2>1. phase = "analyze" /\ pending = {} /\ at = Nowhere
    BY <1>11 DEF BeginPropagation
  <2>2. at.f # p[1]
    BY <1>1, <2>1 DEF Nowhere
  <2>. QED
    BY <2>1, <2>2
<1>12. CASE UNCHANGED vars
  BY <1>12 DEF vars, loopVars
<1>. QED
  BY <1>2, <1>3, <1>4, <1>5, <1>6, <1>7, <1>8, <1>9, <1>10, <1>11, <1>12 DEF Next, Step, Terminating

(* Every step either leaves the program as it is, or processes an instruction
   of it. *)
LEMMA StepOfTheProgram ==
  ASSUME IInv, [Next]_vars
  PROVE  /\ wrapped \subseteq wrapped'
         /\ \/ replaced' = replaced
            \/ \E q \in Positions :
                 /\ At(q).op = "call" /\ replaced' = replaced \cup {At(q).dst}
                 /\ phase' = "analyze" => analyzeFunction /\ q = <<at.f, at.j + 1>>
                 /\ phase' \in {"analyze", "crashed"}
<1>1. CASE analyzeFunction
  <2>1. /\ at.f \in Fn /\ at.j + 1 \in DOMAIN Body(at.f) /\ processInstruction(at.f, at.j + 1)
        /\ phase' \in {"analyze", "crashed"}
    <3>1. at.f \in Fn /\ at.j \in Nat /\ at.j < Len(Body(at.f))
      BY <1>1 DEF analyzeFunction, IInv, TypeOK
    <3>2. Body(at.f) \in Seq(Instruction)
      BY <3>1, ModulesAssumption DEF IInv, TypeOK, Module, Body
    <3>. QED
      BY <1>1, <3>1, <3>2, AnalysisTakesAnInstruction DEF IInv, GoodStep, analyzeFunction
  <2>2. <<at.f, at.j + 1>> \in Positions /\ At(<<at.f, at.j + 1>>) = Body(at.f)[at.j + 1]
    BY <2>1, PositionTyping DEF IInv, TypeOK
  <2>. QED
    BY <1>1, <2>1, <2>2, ProgramStep
<1>2. CASE Reanalyze
  <2>1. PICK j \in Aliases : processInstruction(at.f, j)
    BY <1>2 DEF Reanalyze
  <2>2. at.f \in Fn /\ j \in DOMAIN Body(at.f) /\ phase = "propagate"
    BY <1>2, <2>1 DEF Reanalyze, Aliases
  <2>3. <<at.f, j>> \in Positions /\ At(<<at.f, j>>) = Body(at.f)[j]
    BY <2>2, PositionTyping DEF IInv, TypeOK
  <2>4. replaced' # replaced => phase' = "crashed"
    BY <2>1, <2>2 DEF processInstruction, programVars, Crash, Alloca, Malloc, Free, Call, Ret,
                      Store, Load, Gep, Cast
  <2>. QED
    BY <2>1, <2>2, <2>3, <2>4, ProgramStep
<1>3. ASSUME UNCHANGED programVars
      PROVE  wrapped \subseteq wrapped' /\ replaced' = replaced
  BY <1>3 DEF programVars
<1>4. ASSUME NEW f \in Fn, \/ EnterAnalysis(f) \/ EnterFunction(f) \/ RemoveOldFunction(f)
                          \/ rewriteFunctionSignature(f)
      PROVE  UNCHANGED programVars
  BY <1>4 DEF EnterAnalysis, EnterFunction, RemoveOldFunction, rewriteFunctionSignature
<1>5. ASSUME NEW g \in Global, VisitGlobal(g) PROVE UNCHANGED programVars
  BY <1>5 DEF VisitGlobal
<1>6. CASE LeaveAnalysis \/ LeaveFunction \/ NextUse \/ LeaveGlobal
  BY <1>3, <1>6 DEF LeaveAnalysis, LeaveFunction, NextUse, LeaveGlobal
<1>7. CASE RegisterGlobals \/ BeginAnalysis \/ BeginPropagation \/ BeginRemoval \/ Finish
  BY <1>3, <1>7 DEF RegisterGlobals, BeginAnalysis, BeginPropagation, BeginRemoval, Finish
<1>8. CASE UNCHANGED vars
  BY <1>3, <1>8 DEF vars
<1>. QED
  BY <1>1, <1>2, <1>3, <1>4, <1>5, <1>6, <1>7, <1>8 DEF Next, Step, Terminating

(* The functions that depend on a global stay recorded. *)
LEMMA DependentsStep ==
  ASSUME IInv, DependentsComplete, [Next]_vars
  PROVE  DependentsComplete'
<1>1. mod' = mod /\ Positions' = Positions
  BY RemovalStep DEF Positions, Body
<1>2. SUFFICES ASSUME NEW p \in Positions, Passed(p)', NEW g \in Mentioned(p)'
               PROVE  p[1] \in Info(Variables', g).dependentFunctions
  BY <1>1 DEF DependentsComplete
<1>3. g \in Mentioned(p) /\ g \in Value
  <2>1. /\ wrapped \subseteq wrapped'
        /\ \/ replaced' = replaced
           \/ \E q \in Positions : At(q).op = "call" /\ replaced' = replaced \cup {At(q).dst}
    BY StepOfTheProgram
  <2>2. g \in Mentioned(p)
    BY <1>1, <1>2, <2>1, MentionsShrink DEF IInv
  <2>. QED
    BY <2>2 DEF Mentioned
<1>4. CASE Passed(p)
  <2>1. phase # "start"
    BY <1>4 DEF Passed, Analyzed
  <2>2. p[1] \in Info(Variables, g).dependentFunctions
    BY <1>2, <1>3, <1>4 DEF DependentsComplete
  <2>. QED
    BY <1>3, <2>1, <2>2, MapGrows DEF Grown
<1>5. CASE ~Passed(p)
  <2>1. analyzeFunction /\ p = <<at.f, at.j + 1>>
    BY <1>2, <1>5, PassedStep
  <2>2. Records(at.f, at.j + 1)
    BY <2>1, AnalysisTakesAnInstruction DEF IInv
  <2>. QED
    BY <1>3, <2>1, <2>2 DEF Records
<1>. QED
  BY <1>4, <1>5

(* When the propagation asks which functions depend on a global, every function
   with an instruction that names it is in the list, also while calls are
   being replaced under it. *)
THEOREM DependentsAreComplete == Spec => []DependentsComplete
<1>1. Init => DependentsComplete
  BY DEF Init, DependentsComplete, Passed, Analyzed
<1>2. IInv /\ DependentsComplete /\ [Next]_vars => DependentsComplete'
  BY DependentsStep
<1>. QED
  BY <1>1, <1>2, Invariant, PTL DEF Spec

-----------------------------------------------------------------------------
(* Indexing, on modules laid out in order. *)

(* A call that is still to be replaced does not give a pointer the analysis
   has already seen indexed. *)
LEMMA IndexedNameStays ==
  ASSUME CallsBeforeIndexing(Modules), IInv, [Next]_vars, NEW p \in Positions, Passed(p)',
         At(p).op = "gep", ~At(p).zero
  PROVE  Now(At(p).ptr)' = Now(At(p).ptr)
<1>1. At(p)' = At(p)
  BY RemovalStep DEF At, Body
<1>2. SUFFICES ASSUME ~(At(p).ptr \in replaced' <=> At(p).ptr \in replaced)
               PROVE  FALSE
  BY <1>1 DEF Now
<1>3. PICK q \in Positions :
        /\ At(q).op = "call" /\ At(q).dst = At(p).ptr
        /\ phase' = "analyze" => analyzeFunction /\ q = <<at.f, at.j + 1>>
        /\ phase' \in {"analyze", "crashed"}
  BY <1>2, StepOfTheProgram
<1>4. phase' = "analyze" /\ analyzeFunction /\ q = <<at.f, at.j + 1>>
  BY <1>3 DEF Passed, Analyzed
<1>5. q[1] = p[1] /\ q[2] < p[2]
  <2>1. /\ q[1] \in Fn /\ q[2] \in DOMAIN mod.code[q[1]] /\ At(q) = mod.code[q[1]][q[2]]
        /\ p[1] \in Fn /\ p[2] \in DOMAIN mod.code[p[1]] /\ At(p) = mod.code[p[1]][p[2]]
    BY AtTyping DEF IInv, TypeOK, Body
  <2>2. mod \in Modules
    BY DEF IInv, TypeOK
  <2>. QED
    BY <1>3, <2>1, <2>2 DEF CallsBeforeIndexing
<1>6. at'.f = at.f /\ at'.j = at.j + 1
  BY <1>4 DEF analyzeFunction, IInv, TypeOK
<1>7. p[2] \in Nat /\ at.j \in Nat
  BY AtTyping DEF IInv, TypeOK
<1>. QED
  BY <1>4, <1>5, <1>6, <1>7 DEF Passed, Analyzed

(* An indexed pointer is SEQ from the step that passes the indexing on. *)
LEMMA ArithmeticStep ==
  ASSUME CallsBeforeIndexing(Modules), IInv, ArithmeticIsSeq, [Next]_vars
  PROVE  ArithmeticIsSeq'
<1>1. mod' = mod /\ Positions' = Positions /\ \A q : At(q)' = At(q)
  BY RemovalStep DEF Positions, Body, At
<1>2. SUFFICES ASSUME NEW p \in Positions, Passed(p)', At(p).op = "gep", ~At(p).zero
               PROVE  KindOf(Variables', Now(At(p).ptr)) >= SEQ
  BY <1>1, IndexedNameStays DEF ArithmeticIsSeq
<1>. DEFINE v == Now(At(p).ptr)
<1>3. v \in Value
  BY <1>2, AtTyping, InstructionTyping, NowTyping DEF IInv, TypeOK
<1>4. CASE Passed(p)
  <2>1. phase # "start"
    BY <1>4 DEF Passed, Analyzed
  <2>2. KindOf(Variables, v) >= SEQ
    BY <1>2, <1>4 DEF ArithmeticIsSeq
  <2>3. KindOf(Variables, v) =< KindOf(Variables', v)
    BY <1>3, <2>1, MapGrows
  <2>4. KindOf(Variables, v) \in Int /\ KindOf(Variables', v) \in Int
    BY TypeStep, InfoTyping DEF IInv, TypeOK, Kind, SAFE, SEQ, DYN
  <2>. QED
    BY <2>2, <2>3, <2>4 DEF SEQ
<1>5. CASE ~Passed(p)
  <2>1. analyzeFunction /\ p = <<at.f, at.j + 1>>
    BY <1>2, <1>5, PassedStep
  <2>2. /\ at.f \in Fn /\ at.j + 1 \in DOMAIN Body(at.f) /\ At(p) = Body(at.f)[at.j + 1]
        /\ processInstruction(at.f, at.j + 1)
    BY <2>1, AtTyping DEF IInv, TypeOK, At, analyzeFunction
  <2>3. Gep(at.f, at.j + 1)
    BY <1>2, <2>2, ProgramStep
  <2>. QED
    BY <1>2, <2>2, <2>3, GepStep DEF IInv
<1>. QED
  BY <1>4, <1>5

(* Where the results of calls are indexed after the calls in layout order, a
   pointer indexed at an offset is at least SEQ once its function is analysed,
   under the name it then has. *)
THEOREM IndexedPointersAreSeq ==
  ASSUME CallsBeforeIndexing(Modules)
  PROVE  Spec => []ArithmeticIsSeq
<1>1. Init => ArithmeticIsSeq
  BY DEF Init, ArithmeticIsSeq, Passed, Analyzed
<1>2. IInv /\ ArithmeticIsSeq /\ [Next]_vars => ArithmeticIsSeq'
  BY ArithmeticStep
<1>. QED
  BY <1>1, <1>2, Invariant, PTL DEF Spec

-----------------------------------------------------------------------------
(* The refinement. *)

(* The rules of a program relate values of it. *)
LEMMA RulesTyping ==
  ASSUME mod \in Modules
  PROVE  Flow \subseteq Value \X Value /\ Demand \subseteq Value \X Kind
<1>1. ASSUME NEW v \in Value PROVE Forms(v) \subseteq Value
  BY DEF Forms
<1>2. ASSUME NEW p \in Positions PROVE At(p) \in Instruction
  <2>1. PICK f \in Fn : p \in {f} \X DOMAIN Body(f)
    BY DEF Positions
  <2>2. p[2] \in DOMAIN Body(f) /\ p = <<f, p[2]>>
    BY <2>1
  <2>. QED
    BY <2>2, PositionTyping
<1>3. ASSUME NEW I \in Instruction PROVE FlowOf(I) \subseteq Value \X Value
  <2>1. CASE I.op = "store" /\ I.val \in Value
    BY <1>1, <2>1, InstructionTyping DEF FlowOf
  <2>2. CASE I.op = "load" /\ I.dst \in Local
    BY <1>1, <2>2, InstructionTyping DEF FlowOf
  <2>. QED
    BY <2>1, <2>2 DEF FlowOf
<1>4. ASSUME NEW I \in Instruction PROVE DemandOf(I) \subseteq Value \X Kind
  <2>1. CASE I.op = "gep"
    BY <1>1, <2>1, InstructionTyping DEF DemandOf, Kind
  <2>2. CASE I.op = "cast"
    BY <1>1, <2>2, InstructionTyping DEF DemandOf, Kind
  <2>. QED
    BY <2>1, <2>2 DEF DemandOf
<1>. QED
  BY <1>2, <1>3, <1>4 DEF Flow, Demand

(* The rules belong to the program, which the pass only reads. *)
LEMMA RulesStay ==
  ASSUME mod' = mod
  PROVE  Flow' = Flow /\ Demand' = Demand
BY DEF Flow, FlowOf, Demand, DemandOf, DefinedAs, Positions, At, Body

(* A good step is a raise of the classification. *)
LEMMA GoodStepRaises ==
  ASSUME TypeOK, GoodStep, mod' = mod
  PROVE  KI!ClassNext
<1>1. /\ IsVariableMap(Variables) /\ IsVariableMap(Variables')
      /\ \A x \in Value : KindOf(Variables, x) =< KindOf(Variables', x)
  BY DEF TypeOK, GoodStep, Tracks, KindOf
<1>2. \A x \in Value : KindOf(Variables, x) \in Kind /\ KindOf(Variables', x) \in Kind
  BY <1>1, InfoTyping
<1>3. \A x \in Value : KindOf(Variables', x) # KindOf(Variables, x) =>
         /\ KindOf(Variables, x) < KindOf(Variables', x)
         /\ Rule(x, KindOf(Variables', x))
  BY <1>1, <1>2 DEF GoodStep, Kind, SAFE, SEQ, DYN
<1>4. [v \in Value |-> KindOf(Variables', v)] \in [Value -> Kind]
  BY <1>2
<1>. QED
  BY <1>3, <1>4, RulesStay DEF KI!ClassNext, KI!Raise, KI!Called, Rule

(* A step that keeps every class is a stutter of the classification. *)
LEMMA KeepingStutters ==
  ASSUME mod' = mod, \A x \in Value : KindOf(Variables', x) = KindOf(Variables, x)
  PROVE  UNCHANGED KI!classVars
BY RulesStay DEF KI!classVars

(* The initial states are initial states of the classification. *)
LEMMA InitImplements ==
  ASSUME Init
  PROVE  KI!ClassInit
<1>1. \A v \in Value : KindOf(Variables, v) = SAFE
  BY DEF Init, KindOf, Info, NewInfo
<1>2. SAFE \in Kind /\ KI!Bottom(SAFE)
  BY DEF KI!Bottom, Kind, SAFE, SEQ, DYN
<1>. QED
  BY <1>1, <1>2, RulesTyping DEF Init, KI!ClassInit

(* Every step is a raise or a stutter of the classification. *)
LEMMA StepImplements ==
  ASSUME IInv, [Next]_vars
  PROVE  [KI!ClassNext]_(KI!classVars)
<1>. TypeOK
  BY DEF IInv
<1>1. CASE RegisterGlobals
  <2>1. \A x \in Value : KindOf(Variables, x) = SAFE /\ KindOf(Variables', x) = SAFE
    BY <1>1 DEF RegisterGlobals, IInv, AtStart, KindOf, Info, NewInfo
  <2>. QED
    BY <1>1, <2>1, KeepingStutters DEF RegisterGlobals
<1>2. ASSUME NEW f \in Fn, rewriteFunctionSignature(f) PROVE UNCHANGED KI!classVars
  BY <1>2, RewriteKeeps, KeepsTracks, KeepingStutters DEF TypeOK, rewriteFunctionSignature
<1>3. CASE analyzeFunction
  BY <1>3, AnalysisTakesAnInstruction, GoodStepRaises DEF analyzeFunction
<1>4. CASE Reanalyze
  BY <1>4, ReanalysisTakesAnInstruction, GoodStepRaises DEF Reanalyze
<1>5. ASSUME NEW g \in Global, VisitGlobal(g) PROVE UNCHANGED KI!classVars
  <2>1. g \in DOMAIN Variables /\ Variables[g] \in VariableInfo
    BY <1>5 DEF VisitGlobal, IInv, FlagExact, TypeOK, IsVariableMap
  <2>2. Variables' \in {Variables, [Variables EXCEPT ![g].didClassificationChange = FALSE]}
    BY <1>5 DEF VisitGlobal
  <2>3. \A x \in Value : KindOf(Variables', x) = KindOf(Variables, x)
    BY <2>1, <2>2 DEF KindOf, Info, VariableInfo
  <2>. QED
    BY <1>5, <2>3, KeepingStutters DEF VisitGlobal
<1>6. ASSUME mod' = mod, Variables' = Variables PROVE UNCHANGED KI!classVars
  BY <1>6, KeepingStutters
<1>7. ASSUME NEW f \in Fn, EnterAnalysis(f) \/ EnterFunction(f) \/ RemoveOldFunction(f)
      PROVE  UNCHANGED KI!classVars
  BY <1>6, <1>7 DEF EnterAnalysis, EnterFunction, RemoveOldFunction
<1>8. CASE LeaveAnalysis \/ LeaveFunction \/ NextUse \/ LeaveGlobal
  BY <1>6, <1>8 DEF LeaveAnalysis, LeaveFunction, NextUse, LeaveGlobal
<1>9. CASE BeginAnalysis \/ BeginPropagation \/ BeginRemoval \/ Finish
  BY <1>6, <1>9 DEF BeginAnalysis, BeginPropagation, BeginRemoval, Finish
<1>10. CASE UNCHANGED vars
  BY <1>6, <1>10 DEF vars
<1>. QED
  BY <1>1, <1>2, <1>3, <1>4, <1>5, <1>7, <1>8, <1>9, <1>10 DEF Next, Step, Terminating

(* The pass implements the classification: no class is ever lowered, and none
   is given to a value unless a rule of the program calls for it. *)
THEOREM Implements == Spec => ImplementsKindInference
<1>1. Init => KI!ClassInit
  BY InitImplements
<1>2. IInv /\ [Next]_vars => [KI!ClassNext]_(KI!classVars)
  BY StepImplements
<1>. QED
  BY <1>1, <1>2, Invariant, PTL DEF Spec, ImplementsKindInference, KI!ClassSpec

-----------------------------------------------------------------------------
(* What the abstract classification guarantees, the pass does: it never puts a
   pointer above a solution of the rules of the program. *)
COROLLARY PassStaysBelowSolutions == Spec => []KI!BelowSolutions
<1>1. Init => KI!BelowSolutions
  BY InitImplements DEF KI!ClassInit, KI!BelowSolutions, KI!Bottom
<1>2. IInv /\ KI!BelowSolutions /\ [Next]_vars => KI!BelowSolutions'
  <2>1. ASSUME IInv, KI!BelowSolutions, KI!ClassNext PROVE KI!BelowSolutions'
    <3> DEFINE class == [v \in Value |-> KindOf(Variables, v)]
    <3>. SUFFICES ASSUME NEW s \in [Value -> Kind], KI!Solves(s), NEW v \in Value
                  PROVE  class'[v] =< s[v]
      BY <2>1 DEF KI!BelowSolutions, KI!Solves, KI!ClassNext, KI!Raise
    <3>1. class' \in [Value -> Kind] /\ \A b \in Value : class[b] =< s[b]
      BY <2>1 DEF KI!BelowSolutions, KI!ClassNext, KI!Raise
    <3>2. class \in [Value -> Kind]
      BY <2>1, InfoTyping DEF IInv, TypeOK, KindOf, VariableInfo
    <3>3. \A a \in Value : \A b \in Value : <<a, b>> \in Flow => s[a] =< s[b]
      BY DEF KI!Solves
    <3>4. \A b \in Value : \A k \in Kind : <<b, k>> \in Demand => k =< s[b]
      BY DEF KI!Solves
    <3>5. class'[v] # class[v] =>
            \/ <<v, class'[v]>> \in Demand
            \/ \E a \in Value : <<a, v>> \in Flow /\ class[a] = class'[v]
      BY <2>1 DEF KI!ClassNext, KI!Raise, KI!Called
    <3>6. Kind \subseteq Int
      BY DEF Kind, SAFE, SEQ, DYN
    <3> HIDE DEF class
    <3>7. CASE class'[v] = class[v]
      BY <3>1, <3>7
    <3>8. CASE <<v, class'[v]>> \in Demand
      BY <3>1, <3>4, <3>8
    <3>9. CASE \E a \in Value : <<a, v>> \in Flow /\ class[a] = class'[v]
      <4>1. PICK a \in Value : <<a, v>> \in Flow /\ class[a] = class'[v]
        BY <3>9
      <4>2. class[a] =< s[a] /\ s[a] =< s[v]
        BY <3>1, <3>3, <4>1
      <4>3. class[a] \in Int /\ s[a] \in Int /\ s[v] \in Int
        BY <3>2, <3>6
      <4>. QED
        BY <4>1, <4>2, <4>3
    <3>. QED
      BY <3>5, <3>7, <3>8, <3>9
  <2>2. ASSUME KI!BelowSolutions, UNCHANGED KI!classVars PROVE KI!BelowSolutions'
    BY <2>2 DEF KI!BelowSolutions, KI!Solves, KI!classVars
  <2>. QED
    BY <2>1, <2>2, StepImplements
<1>. QED
  BY <1>1, <1>2, Invariant, PTL DEF Spec
=============================================================================
