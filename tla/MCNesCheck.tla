---------------------------- MODULE MCNesCheck ----------------------------
(***************************************************************************)
(* Two-function modules for TLC.  A has the pointer parameter p and        *)
(* returns a pointer; B calls A.  The families combine a few instructions  *)
(* for each place of a body, each body in the order a compiler lays out:   *)
(* a value is defined before it is used, except where a family says so.    *)
(***************************************************************************)
EXTENDS NesCheck

MCFn     == {"A", "B"}
MCGlobal == {"g", "h"}
MCLocal  == {"p", "x", "y", "c", "r", "z"}
MCKonst  == {"k"}
MCNull   == "null"
MCScalar == {"s"}
MCValue  == MCGlobal \cup MCLocal \cup MCKonst \cup {MCNull}
MCNoValue == "none"
MCOrigRet == [v \in MCLocal |-> IF v = "c" THEN "r" ELSE v]
MCKonstBase == [v \in MCKonst |-> "g"]
MCExternal == {"ext"}

load(d, v)   == [op |-> "load", dst |-> d, ptr |-> v]
store(v, d)  == [op |-> "store", val |-> v, ptr |-> d, far |-> FALSE]
farStore(v, d) == [op |-> "store", val |-> v, ptr |-> d, far |-> TRUE]
gep(d, v, zero, pointer) ==
  [op |-> "gep", dst |-> d, ptr |-> v, zero |-> zero, pointer |-> pointer, size |-> "const"]
cast(d, v, unsafe, bit) ==
  [op |-> "cast", dst |-> d, val |-> v, unsafe |-> unsafe, bit |-> bit, size |-> "const"]
call(d, f, args, size) ==
  [op |-> "call", dst |-> d, callee |-> f, pointer |-> TRUE, args |-> args, size |-> size]
ret(v)    == [op |-> "ret", val |-> v]
free(v)   == [op |-> "free", val |-> v]
malloc(d) == [op |-> "malloc", dst |-> d, size |-> "one"]
alloca(d, pointer) == [op |-> "alloca", dst |-> d, pointer |-> pointer, size |-> "const"]

(* Any two instructions alias (their points-to sets hold unknown memory), or
   only loads do. *)
AllPairs(n) == (1..n) \X (1..n)
LoadsOnly(code, f) ==
  {q \in AllPairs(Len(code[f])) : \A k \in 1..2 : code[f][q[k]].op = "load"}

Program(code, aliasAll, taken) ==
  [ code |-> code, params |-> [f \in MCFn |-> IF f = "A" THEN {"p"} ELSE {}],
    returnsPointer |-> {"A"},
    alias |-> [f \in MCFn |-> IF aliasAll THEN AllPairs(Len(code[f])) ELSE LoadsOnly(code, f)],
    addressTaken |-> taken, whitelisted |-> {}, uninstrumented |-> {} ]

(* Globals: A reads g twice and hands what it reads on; B raises g. *)
GlobalModules ==
  { Program([f \in MCFn |-> IF f = "A" THEN <<load("x", "g"), load("y", "g"), i>>
                                       ELSE <<load("z", "h"), j, k>>], b, {}) :
      i \in {store("y", "h"), store("x", "g"), ret("y"), gep("c", "y", FALSE, TRUE)},
      j \in {gep("c", "z", FALSE, FALSE), gep("c", "z", TRUE, FALSE),
             cast("c", "z", TRUE, TRUE), cast("c", "z", FALSE, TRUE)},
      k \in {store("z", "g"), store("c", "g"), store("k", "g"), gep("r", "g", FALSE, TRUE)},
      b \in BOOLEAN }

(* Calls: B calls A with an argument that has an entry, has none yet, or is an
   integer, and indexes, casts, stores or frees what it gets. *)
CallModules ==
  { Program([f \in MCFn |-> IF f = "A" THEN <<i[1], ret(i[2])>>
                            ELSE <<call("c", "A", <<a>>, "one"), j, load("z", "g")>>], b, t) :
      i \in {<<store("p", "g"), "p">>, <<store("p", "g"), "k">>, <<load("x", "p"), "x">>,
             <<store("k", "p"), "null">>},
      a \in {"g", "null", "k", "s"},
      j \in {gep("y", "c", FALSE, FALSE), cast("y", "c", TRUE, TRUE), store("c", "g"),
             free("c"), load("y", "c")},
      b \in BOOLEAN, t \in {{}, {"A"}} }

(* Memory: stack, heap and null pointers, and stores from other blocks. *)
MemoryModules ==
  { Program([f \in MCFn |-> IF f = "A" THEN <<alloca("x", pt), i, load("y", "x")>>
                            ELSE <<malloc("c"), j, free("z")>>], FALSE, {}) :
      pt \in BOOLEAN,
      i \in {store("p", "x"), farStore("p", "x"), store("null", "x"), store("s", "x"),
             load("c", "null"), store("x", "p")},
      j \in {cast("z", "c", TRUE, TRUE), cast("z", "c", TRUE, FALSE), gep("z", "c", TRUE, TRUE),
             load("z", "c"), load("s", "c"), store("null", "c")} }

(* B raises g; A reads g in one place only. *)
ReadOnceModules ==
  { Program([f \in MCFn |-> IF f = "A" THEN <<load("x", "g"), i>>
                                       ELSE <<gep("c", "g", FALSE, TRUE), j>>], b, {}) :
      i \in {ret("x"), ret("p"), store("x", "h"), load("y", "h")},
      j \in {ret("s"), load("z", "h")},
      b \in BOOLEAN }

MCModules == GlobalModules \cup CallModules \cup MemoryModules

(* A parameter whose size is computed, read in another block. *)
ParameterModules ==
  { Program([f \in MCFn |-> IF f = "A" THEN <<load("x", "g"), gep("y", "x", TRUE, TRUE),
                                              store("y", "p"), load("z", "p")>>
                                       ELSE <<i>>], FALSE, {}) :
      i \in {ret("s"), call("c", "A", <<"k">>, "const")} }

(* The block that indexes the result is laid out before the one that calls. *)
UseFirstModules ==
  { Program([f \in MCFn |-> IF f = "A" THEN <<i, ret("p")>>
                            ELSE <<gep("y", "c", FALSE, FALSE), call("c", "A", <<"g">>, "one"), j>>],
            FALSE, {}) :
      i \in {load("x", "p"), store("p", "g"), gep("x", "p", FALSE, FALSE), free("p")},
      j \in {load("z", "g"), store("y", "g"), ret("s")} }

(* A is on the whitelist. *)
WhitelistedModules ==
  { [m EXCEPT !.whitelisted = {"A"}, !.uninstrumented = {"A"}] : m \in MemoryModules }

PassModules == MCModules \cup ParameterModules \cup WhitelistedModules

ASSUME LayoutAssumption ==
  CallsBeforeIndexing(PassModules) /\ ~CallsBeforeIndexing(UseFirstModules)
=============================================================================
