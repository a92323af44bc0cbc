--------------------------- MODULE KindInference ---------------------------
(***************************************************************************)
(* What the CCured classification promises, without the pass: the class of *)
(* a pointer is raised, one rule application at a time, along the flow     *)
(* edges of the program (a store or a load copies the class of its source) *)
(* or to the class an arithmetic use or an unsafe cast demands.  In which  *)
(* order, and whether every rule is applied, is left open; that no raise   *)
(* happens without a rule that calls for it is not.                        *)
(***************************************************************************)
EXTENDS Integers

CONSTANTS Value, Kind
ASSUME KindOrder == Kind \subseteq Int

VARIABLES flow,    \* <<a, b>>: the class of a flows into b
          demand,  \* <<v, k>>: some instruction demands class k of v
          kind     \* the class each value has now
classVars == <<flow, demand, kind>>

ClassTypeOK ==
  /\ flow \subseteq Value \X Value
  /\ demand \subseteq Value \X Kind
  /\ kind \in [Value -> Kind]

Bottom(k) == k \in Kind /\ \A j \in Kind : k =< j

ClassInit ==
  /\ flow \in SUBSET (Value \X Value)
  /\ demand \in SUBSET (Value \X Kind)
  /\ \E k \in Kind : Bottom(k) /\ kind = [v \in Value |-> k]

(* Faulty variants: a class taken from any value, and one raised unasked. *)
CalledWithoutFlow(v, k) == <<v, k>> \in demand \/ \E a \in Value : kind[a] = k
RaiseUnasked ==
  /\ \E v \in Value : kind' = [kind EXCEPT ![v] = @ + 1]
  /\ UNCHANGED <<flow, demand>>

(* A rule of the program calls for class k at v. *)
Called(v, k) ==
  \/ <<v, k>> \in demand
  \/ \E a \in Value : <<a, v>> \in flow /\ kind[a] = k

Raise ==
  /\ kind' \in [Value -> Kind]
  /\ \A v \in Value : kind'[v] # kind[v] => /\ kind[v] < kind'[v]
                                            /\ Called(v, kind'[v])
  /\ UNCHANGED <<flow, demand>>

ClassNext == Raise
ClassSpec == ClassInit /\ [][ClassNext]_classVars

-----------------------------------------------------------------------------
(* An assignment of classes that satisfies every rule of the program. *)
Solves(s) ==
  /\ \A a, b \in Value : <<a, b>> \in flow => s[a] =< s[b]
  /\ \A v \in Value, k \in Kind : <<v, k>> \in demand => k =< s[v]

(* No value is ever classified above a solution of the rules: the pass
   reports a pointer as SEQ or DYN only when the program makes it so. *)
BelowSolutions ==
  \A s \in [Value -> Kind] : Solves(s) => \A v \in Value : kind[v] =< s[v]
=============================================================================
