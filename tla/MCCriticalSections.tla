------------------------- MODULE MCCriticalSections -------------------------
(***************************************************************************)
(* Programs for TLC: a boundary function with each shape of locking, one   *)
(* it calls with a lock of its own, and one nobody reports; parameter trees *)
(* with pointers, embedded structs and fields up to a null.                *)
(***************************************************************************)
EXTENDS SyncStub, TLC

(* struct S { x; y; struct V {v} *p; struct V {v} *q; struct E {z} e; a pointer
   to a function } *s, with q private; struct T { x; struct W {w} *all, up to a
   null; char arr[], too; struct T *next, cut; union G u } t. *)
S(field) == [tree |-> "s", field |-> field]
T(field) == [tree |-> "t", field |-> field]
MCTreeNode ==
  {S(field) : field \in {"s", "*s", "x", "y", "p", "*p", "p.v", "q", "*q", "q.v", "e", "e.z", "call"}} \cup
  {T(field) : field \in {"t", "x", "all", "*all", "w", "arr", "next", "u"}}
sx == S("x")
sy == S("y")
tx == T("x")
MCShared == {sx, tx, S("p"), S("p.v"), S("q.v"), S("e"), S("e.z"), T("next")}
MCSentinel == {T("all"), T("arr")}
MCGlobal   == {T("u"), T("w")}
Tree(root, children, kind) ==
  LET nodes == {n \in MCTreeNode : n.tree = root.tree}
  IN [root |-> root,
      children |-> [n \in nodes |-> IF n \in DOMAIN children THEN children[n] ELSE << >>],
      kind |-> [n \in nodes |-> IF n \in DOMAIN kind THEN kind[n] ELSE "scalar"],
      parent |-> [n \in nodes |->
        IF n = root THEN n ELSE CHOOSE m \in DOMAIN children : n \in Range(children[m])]]
MCTreeNamed ==
  ("s" :> Tree(S("s"),
     (S("s") :> <<S("*s")>>) @@ (S("*s") :> <<sx, S("p"), S("q"), sy, S("e"), S("call")>>)
       @@ (S("p") :> <<S("*p")>>) @@ (S("*p") :> <<S("p.v")>>)
       @@ (S("q") :> <<S("*q")>>) @@ (S("*q") :> <<S("q.v")>>) @@ (S("e") :> <<S("e.z")>>),
     [n \in {S("s"), S("p"), S("q")} |-> "pointer"] @@ [n \in {S("*s"), S("*p"), S("*q"), S("e")} |-> "struct"]
       @@ (S("call") :> "function"))) @@
  ("t" :> Tree(T("t"),
     (T("t") :> <<T("all"), tx, T("arr"), T("next"), T("u")>>)
       @@ (T("all") :> <<T("*all")>>) @@ (T("*all") :> <<T("w")>>),
     (T("t") :> "struct") @@ (T("all") :> "pointer") @@ (T("*all") :> "struct")
       @@ (T("next") :> "pointer") @@ (T("u") :> "union")))
(* Callees read or write some of the fields that pointers lead to. *)
MCElsewhere ==
  {[n \in MCTreeNode |-> IF n \in {S("p"), T("all")} THEN p ELSE
                         IF n \in {S("q"), S("e"), T("next")} THEN q ELSE
                         IF n \in {S("p.v"), S("q.v"), S("e.z"), T("w"), T("u")} THEN v ELSE
                         IF n \in {S("call"), T("arr")} THEN {"read"} ELSE {}] :
     p \in {{}, {"read"}, {"write"}}, q \in {{}, {"read"}}, v \in {{}, {"read"}, {"write"}}}
MCNothingElse == {[n \in MCTreeNode |-> {}]}

I(id, op) == [id |-> id, op |-> op, lock |-> "mutex", object |-> 1, versioned |-> FALSE,
              callee |-> "none", nodes |-> {}, alias |-> TRUE, counter |-> FALSE]
Lock(id, kind)       == [I(id, "lock") EXCEPT !.lock = kind]
Unlock(id, kind)     == [I(id, "unlock") EXCEPT !.lock = kind]
LockOf(id, object)   == [I(id, "lock") EXCEPT !.object = object]
UnlockOfObject(id, object) == [I(id, "unlock") EXCEPT !.object = object]
Load(id, nodes)      == [I(id, "load") EXCEPT !.nodes = nodes]
Store(id, nodes)     == [I(id, "store") EXCEPT !.nodes = nodes]
Private(id, nodes)   == [Store(id, nodes) EXCEPT !.alias = FALSE]
Atomic(id, nodes)    == [I(id, "atomic") EXCEPT !.nodes = nodes]
Counter(id)          == [Atomic(id, {sx}) EXCEPT !.counter = TRUE]
Call(id, f)          == [I(id, "call") EXCEPT !.callee = f]
Br(id)  == I(id, "br")
Ret(id) == I(id, "ret")

Line(code) == [blocks |-> <<"b1">>, succ |-> ("b1" :> << >>), code |-> ("b1" :> code)]

(* Straight functions: with one lock, two in turn, one kind inside the other,
   a lock under a versioned name, two of a kind one inside the other. *)
Lines(n) ==
  {Line(<<Load(n+1, {sx}), Lock(n+2, "mutex"), Load(n+3, {sx}), Store(n+4, {sx, sy}), Call(n+5, "g"),
          Unlock(n+6, "mutex"), Atomic(n+7, {sx}), Ret(n+8)>>),
   Line(<<Lock(n+1, "mutex"), Store(n+2, {sx}), Unlock(n+3, "mutex"), Call(n+4, "h"),
          Lock(n+5, "mutex"), Load(n+6, {tx}), Unlock(n+7, "mutex"), Ret(n+8)>>),
   Line(<<Lock(n+1, "mutex"), Load(n+2, {S("p")}), Load(n+3, {S("p.v")}), Store(n+4, {S("p.v")}),
          Store(n+5, {S("q.v"), S("e.z")}), Unlock(n+6, "mutex"), Ret(n+7)>>),
   Line(<<Lock(n+1, "mutex"), Load(n+2, {sx}), Lock(n+3, "spin"), Store(n+4, {tx}), Private(n+5, {sy}),
          Unlock(n+6, "spin"), Unlock(n+7, "mutex"), Call(n+8, "g"), Ret(n+9)>>),
   Line(<<[Lock(n+1, "mutex") EXCEPT !.versioned = TRUE], Store(n+2, {sx}), Unlock(n+3, "mutex"), Ret(n+4)>>),
   Line(<<LockOf(n+1, 1), LockOf(n+2, 2), Store(n+3, {sx}), UnlockOfObject(n+4, 2),
          Store(n+5, {tx}), UnlockOfObject(n+6, 1), Ret(n+7)>>)}

(* With branches: both sides under the lock; an early return that releases it;
   a loop; a path that goes past the unlock. *)
Diamond(n, left, right) ==
  [blocks |-> <<"b1", "b2", "b3", "b4">>,
   succ |-> [b \in {"b1", "b2", "b3", "b4"} |->
               CASE b = "b1" -> <<"b2", "b3">> [] b = "b4" -> << >> [] OTHER -> <<"b4">>],
   code |-> [b \in {"b1", "b2", "b3", "b4"} |->
               CASE b = "b1" -> <<Lock(n+1, "mutex"), Br(n+2)>>
                 [] b = "b2" -> left
                 [] b = "b3" -> right
                 [] b = "b4" -> <<Unlock(n+3, "mutex"), Ret(n+4)>>]]
Early(n) ==
  [blocks |-> <<"b1", "b2", "b3">>,
   succ |-> [b \in {"b1", "b2", "b3"} |-> IF b = "b1" THEN <<"b2", "b3">> ELSE << >>],
   code |-> [b \in {"b1", "b2", "b3"} |->
               CASE b = "b1" -> <<Lock(n+1, "mutex"), Br(n+2)>>
                 [] b = "b2" -> <<Unlock(n+3, "mutex"), Ret(n+4)>>
                 [] b = "b3" -> <<Store(n+5, {sx}), Unlock(n+6, "mutex"), Ret(n+7)>>]]
Loop(n) ==
  [blocks |-> <<"b1", "b2", "b3">>,
   succ |-> [b \in {"b1", "b2", "b3"} |->
               CASE b = "b1" -> <<"b2">> [] b = "b2" -> <<"b1", "b3">> [] OTHER -> << >>],
   code |-> [b \in {"b1", "b2", "b3"} |->
               CASE b = "b1" -> <<Lock(n+1, "mutex"), Br(n+2)>>
                 [] b = "b2" -> <<Atomic(n+3, {tx}), Unlock(n+4, "mutex"), Br(n+5)>>
                 [] b = "b3" -> <<Ret(n+6)>>]]
Branching(n) ==
  {Diamond(n, <<Load(n+5, {sx}), Br(n+6)>>, <<Store(n+7, {tx}), Atomic(n+8, {sx}), Br(n+9)>>),
   Diamond(n, <<Store(n+5, {sx}), Br(n+6)>>, <<Atomic(n+7, {sx}), Atomic(n+8, {tx}), Br(n+9)>>),
   Diamond(n, <<Unlock(n+5, "mutex"), Ret(n+6)>>, <<Call(n+7, "g"), Br(n+8)>>),
   Early(n), Loop(n)}

Callee ==
  {Line(<<Ret(20)>>),
   Line(<<Lock(21, "spin"), Store(22, {sy}), Unlock(23, "spin"), Counter(24), Ret(25)>>),
   Line(<<Atomic(21, {sx}), Call(22, "h"), Lock(23, "mutex"), Load(24, {tx}), Store(25, {tx}),
          Unlock(26, "mutex"), Ret(27)>>),
   Early(20)}
Unreported == {Line(<<Lock(31, "mutex"), Store(32, {sx}), Unlock(33, "mutex"), Atomic(34, {sx}), Ret(35)>>)}

MCPrograms ==
  {[functions |-> [n \in {"f", "g", "h"} |-> CASE n = "f" -> f [] n = "g" -> g [] n = "h" -> h],
    boundary |-> boundary] :
     f \in Lines(0) \cup Branching(0), g \in Callee, h \in Unreported,
     boundary \in {{"f"}, {"f", "h"}}}
=============================================================================
