---------------------------- MODULE MetadataMap ----------------------------
(* What the runtime metadata table promises the instrumented program: a size
   for every address, 0 until one is set, and the last one set after that. *)
EXTENDS Integers

CONSTANTS Addr, Size
VARIABLES size,   \* the size each address has
          last    \* the last call: what was set, or looked up and answered
vars == <<size, last>>

Init == size = [p \in Addr |-> 0] /\ last = << >>
Set(p, s) == size' = [size EXCEPT ![p] = s] /\ last' = <<"set", p, s>>
Lookup(p) == last' = <<"lookup", p, size[p]>> /\ UNCHANGED size

Next == \E p \in Addr : Lookup(p) \/ \E s \in Size : Set(p, s)
Spec == Init /\ [][Next]_vars
=============================================================================
