--------------------------- MODULE AnalysisState ---------------------------
(***************************************************************************)
(* The database of the CCured pass: the map Variables from pointer values  *)
(* to a VariableInfo, and the methods of class AnalysisState that read and *)
(* write it.  Every writing method is an operator from a map to the map it *)
(* leaves behind.  The map is partial, as std::map is: a key enters it the *)
(* first time a method or an operator[] names it, and never leaves.        *)
(***************************************************************************)
EXTENDS Integers

CONSTANTS Value,   \* llvm::Value addresses that can be a key
          Null,    \* ConstantPointerNull, one of them
          Fn       \* functions of the module

ASSUME NullAssumption == Null \in Value

(* enum class VariableStates.  RegisterVariable always starts an entry at
   SAFE, so UNKNOWN only ever appears in the temporary entry that
   GetPointerVariableInfo makes for the null constant. *)
UNKNOWN == -1
SAFE    == 0
SEQ     == 1
DYN     == 2
Kind    == {SAFE, SEQ, DYN}

(* A size is an llvm::Value.  The pass tells apart the constants 0 and 1,
   other constants, the size parameter of a rewritten function, and a value
   that instructions of the instrumented program compute. *)
Size == {"zero", "one", "const", "argument", "runtime"}

VariableInfo ==
  [ classification                  : Kind,
    size                            : Size,
    hasMetadataTableEntry           : BOOLEAN,
    hasExplicitSizeVariable         : BOOLEAN,
    instantiatedExplicitSizeVariable: BOOLEAN,
    isGlobal                        : BOOLEAN,
    didClassificationChange         : BOOLEAN,
    dependentFunctions              : SUBSET Fn ]

IsVariableMap(m) == DOMAIN m \subseteq Value /\ m \in [DOMAIN m -> VariableInfo]

NewInfo ==
  [ classification                   |-> SAFE,
    size                             |-> "zero",
    hasMetadataTableEntry            |-> FALSE,
    hasExplicitSizeVariable          |-> FALSE,
    instantiatedExplicitSizeVariable |-> FALSE,
    isGlobal                         |-> FALSE,
    didClassificationChange          |-> FALSE,
    dependentFunctions               |-> {} ]

(* The entry of v, or the one RegisterVariable would make for it. *)
Info(m, v) == IF v \in DOMAIN m THEN m[v] ELSE NewInfo

(* The map in which v has entry i. *)
Put(m, v, i) == [x \in DOMAIN m \cup {v} |-> IF x = v THEN i ELSE m[x]]

(* The class a map gives to v; a value without an entry counts as SAFE. *)
KindOf(m, v) == Info(m, v).classification

-----------------------------------------------------------------------------
(* GetPointerVariableInfo: null has an entry of its own, made on the spot. *)

HasInfo(m, v) == v = Null \/ v \in DOMAIN m
ClassOf(m, v) == IF v = Null THEN UNKNOWN ELSE m[v].classification
SizeOf(m, v)  == IF v = Null THEN "zero" ELSE m[v].size

-----------------------------------------------------------------------------
(* The methods that write. *)

RegisterVariable(m, v) == Put(m, v, Info(m, v))

(* Faulty variants, which the checks must tell from the real methods: a raise
   that is not flagged, one that overwrites, one that misses a step of one
   class, and a size that replaces the whole entry. *)
ClassifyUnflagged(m, v, kind) ==
  Put(m, v, [Info(m, v) EXCEPT !.classification = IF @ < kind THEN kind ELSE @])
ClassifyOverwriting(m, v, kind) == Put(m, v, [Info(m, v) EXCEPT !.classification = kind])
ClassifyOffByOne(m, v, kind) ==
  Put(m, v, [Info(m, v) EXCEPT !.classification = IF @ + 1 < kind THEN kind ELSE @])
SetSizeOfNewEntry(m, v, size) == Put(m, v, [NewInfo EXCEPT !.size = size])

(* Raises the class of v and never lowers it; a raised global is flagged
   for the propagation that follows the analysis. *)
ClassifyPointerVariable(m, v, kind) ==
  LET i == Info(m, v) IN
  Put(m, v, IF i.classification < kind
            THEN [i EXCEPT !.classification = kind,
                           !.didClassificationChange = @ \/ i.isGlobal]
            ELSE i)

SetSizeForPointerVariable(m, v, size) ==
  Put(m, v, [Info(m, v) EXCEPT !.size = size])

(* The size variable passed is never NULL where the pass calls it. *)
SetExplicitSizeVariableForPointerVariable(m, v) ==
  Put(m, v, [Info(m, v) EXCEPT !.hasExplicitSizeVariable = TRUE])

SetInstantiatedExplicitSizeVariable(m, v, b) ==
  Put(m, v, [Info(m, v) EXCEPT !.instantiatedExplicitSizeVariable = b])

SetHasMetadataTableEntry(m, v) ==
  Put(m, v, [Info(m, v) EXCEPT !.hasMetadataTableEntry = TRUE])

(* Variables[GV].dependentFunctions.insert(name), for every GV in vs. *)
AddDependentFunction(m, vs, f) ==
  [x \in DOMAIN m \cup vs |->
     IF x \in vs THEN [Info(m, x) EXCEPT !.dependentFunctions = @ \cup {f}]
                 ELSE m[x]]

(* free() walks back through loads and bitcasts and clears every size. *)
ClearSizes(m, vs) ==
  [x \in DOMAIN m \cup vs |->
     IF x \in vs THEN [Info(m, x) EXCEPT !.size = "zero"] ELSE m[x]]
=============================================================================
