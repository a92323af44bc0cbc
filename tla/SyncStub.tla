------------------------------ MODULE SyncStub ------------------------------
(***************************************************************************)
(* The stubs written for a lock, AtomicRegionAnalysis.cpp: the walk of the *)
(* parameter tree CriticalSections finds for it, which decides what is     *)
(* copied when the lock is taken, fields that are read, and when it is     *)
(* released, fields that are written.  The stubs are written once the      *)
(* warnings are; then the program runs.                                    *)
(*                                                                         *)
(* A tree is [root, children, parent, kind].  What a type is reduces to    *)
(* its kind: a pointer to a struct, with the struct as its only child, or  *)
(* none where the tree was cut at its depth; a struct, with its fields;    *)
(* "union" for what may be projected but has no fields in a tree, arrays   *)
(* of structs too; a pointer to a function; anything else.                 *)
(***************************************************************************)
EXTENDS CriticalSections

CONSTANTS TreeNamed,          \* the trees by their names
          sentinelField,      \* the nodes that are arrays up to a null
          globalStructField,  \* the nodes whose field is of a type of globals
          Elsewhere,          \* what callees may do to fields
          NoLock

Access == {"read", "write"}
Kind == {"pointer", "struct", "union", "function", "scalar"}
NodesOf(name) == {n \in TreeNode : n.tree = name}
TreeShape(name) ==
  LET t == TreeNamed[name]
  IN /\ t.root \in NodesOf(name)
     /\ t.children \in [NodesOf(name) -> Seq(NodesOf(name))]
     /\ t.parent \in [NodesOf(name) -> NodesOf(name)]
     /\ t.kind \in [NodesOf(name) -> Kind]
     /\ \A n \in NodesOf(name) :
          /\ \A i \in DOMAIN t.children[n] : t.parent[t.children[n][i]] = n /\ t.children[n][i] # t.root
          /\ t.kind[n] = "pointer" => \/ t.children[n] = << >>
                                      \/ Len(t.children[n]) = 1 /\ t.kind[t.children[n][1]] = "struct"
          /\ t.kind[n] \notin {"pointer", "struct"} => t.children[n] = << >>
ASSUME TreeAssumption ==
  /\ DOMAIN TreeNamed = {n.tree : n \in TreeNode} /\ \A name \in DOMAIN TreeNamed : TreeShape(name)
  /\ Elsewhere \subseteq [TreeNode -> SUBSET Access]

VARIABLES
  tags,              \* the accesses found for each node
  lock,              \* the lock whose stubs are written
  node_queue,
  read_proj_str,     \* the fields named in the stub at its start
  write_proj_str,    \* and in the one at its end
  stubs              \* per lock, when written
stubVars == <<tags, lock, node_queue, read_proj_str, write_proj_str, stubs>>

tree == TreeNamed[_sync_data_inst_tree_map[lock]]
isProjectableType(n) == tree.kind[n] \in {"pointer", "struct", "union"}

(* A node is tagged with what the functions do to it, and what they call. *)
Accesses(n) ==
  {access \in Access : \E i \in Insts :
     n \in i.nodes /\ i.op = (IF access = "read" THEN "load" ELSE "store")}
SyncInit ==
  /\ Init
  /\ \E more \in Elsewhere : tags = [n \in TreeNode |-> Accesses(n) \cup more[n]]
  /\ lock = NoLock /\ node_queue = << >> /\ read_proj_str = << >> /\ write_proj_str = << >>
  /\ stubs = [l \in {} |-> [access \in Access |-> {}]]

Warned == phase = "warnings" /\ unwarned = {} /\ _atomic_operations = {}
(* runOnModule: a lock of the map, in an order of addresses; the stubs stay
   empty when the root of its tree may not be projected. *)
BeginStub(l) ==
  /\ Warned /\ lock = NoLock /\ l \in DOMAIN _sync_data_inst_tree_map \ DOMAIN stubs
  /\ lock' = l
  /\ LET t == TreeNamed[_sync_data_inst_tree_map[l]]
     IN node_queue' = IF t.kind[t.root] \in {"pointer", "struct", "union"} THEN <<t.root>> ELSE << >>
  /\ read_proj_str' = << >> /\ write_proj_str' = << >>
  /\ UNCHANGED <<tags, stubs>>

(* A faulty variant: without the test for shared fields. *)
NamedIfAccessed(c) == tags[c] # {} \/ tree.kind[c] = "function"
(* A field is passed over when no access of it was found, and when it is
   private, unless it is of a kind that is always copied. *)
Named(c) ==
  LET callback == tree.kind[c] = "function"
  IN /\ tags[c] # {} \/ callback
     /\ c \in sharedField \cup sentinelField \cup globalStructField \/ callback
Followed(c) == c \in sentinelField \/ tree.kind[c] = "pointer"

(* A faulty variant: the pointer itself is taken for what it points to. *)
ObjectItself(n) == n
Object(n) ==
  IF tree.kind[n] = "pointer" /\ tree.children[n] # << >> THEN tree.children[n][1] ELSE n

(* generateSyncStubProjFromTreeNode: the fields of a struct; the ones to go into
   are put at the end of the queue. *)
Write(fields, queue) ==
  LET Copied(access) == SelectSeq(fields, LAMBDA c : access \in tags[c])
  IN /\ read_proj_str' = read_proj_str \o Copied("read")
     /\ write_proj_str' = write_proj_str \o Copied("write")
     /\ node_queue' = queue
Project(n) ==
  LET fields == SelectSeq(tree.children[n], Named)
  IN Write(fields, Tail(node_queue) \o SelectSeq(fields, Followed))

(* generateSyncStubForTree: one round of its loop. *)
Projection ==
  /\ node_queue # << >> /\ isProjectableType(Head(node_queue))
  /\ Project(Object(Head(node_queue)))
  /\ UNCHANGED <<tags, lock, stubs>>
NoProjection ==
  /\ node_queue # << >> /\ ~isProjectableType(Head(node_queue))
  /\ node_queue' = Tail(node_queue)
  /\ UNCHANGED <<tags, lock, read_proj_str, write_proj_str, stubs>>

EndStub ==
  /\ lock # NoLock /\ node_queue = << >>
  /\ stubs' = [l \in DOMAIN stubs \cup {lock} |->
       IF l # lock THEN stubs[l]
       ELSE [access \in Access |-> Range(IF access = "read" THEN read_proj_str ELSE write_proj_str)]]
  /\ lock' = NoLock /\ UNCHANGED <<tags, node_queue, read_proj_str, write_proj_str>>

Written == Warned /\ lock = NoLock /\ DOMAIN _sync_data_inst_tree_map \subseteq DOMAIN stubs
WriteStubs == (\E l \in DOMAIN _sync_data_inst_tree_map : BeginStub(l)) \/ Projection \/ NoProjection \/ EndStub
Analysis == \/ (Analyse \/ Warn) /\ UNCHANGED stubVars
            \/ WriteStubs /\ UNCHANGED vars
SyncNext ==
  \/ Analysis
  \/ Written /\ (\E f \in FunctionName : Start(f)) /\ UNCHANGED stubVars
  \/ Execution /\ UNCHANGED stubVars
syncVars == <<vars, stubVars>>
SyncSpec == SyncInit /\ [][SyncNext \/ (Resting /\ UNCHANGED stubVars)]_syncVars

-----------------------------------------------------------------------------
(* What is above a node of a tree: the nodes from it to the root. *)
Above(t, n) ==
  LET A[m \in DOMAIN t.kind] == IF m = t.root THEN {} ELSE {t.parent[m]} \cup A[t.parent[m]]
  IN A[n]
FieldsOf(t) == {c \in DOMAIN t.kind \ {t.root} : t.kind[t.parent[c]] = "struct"}
FieldsAbove(t, n) == Above(t, n) \cap FieldsOf(t)
Copies == [access \in Access |-> Range(IF access = "read" THEN read_proj_str ELSE write_proj_str)]

(* A shared field of a parameter that is loaded with a lock held is in the stub
   at the start of the lock, one that is stored to in the stub at its end: when
   the section touches one tree, and the way to the field goes through pointers
   to structs that are shared and accessed themselves. *)
OnSharedWay(t, n) ==
  n \in FieldsOf(t) /\ \A a \in FieldsAbove(t, n) :
    t.kind[a] = "pointer" /\ a \in sharedField /\ tags[a] # {}
HeldIsCopied ==
  (Running /\ Reported(Now.fn) /\ Ahead.op \in {"load", "store"} /\ Ahead.alias) =>
    \A l \in Now.held : \A n \in Ahead.nodes \cap sharedField :
      (OneTree(l) /\ OnSharedWay(TreeNamed[n.tree], n)) =>
        l \in DOMAIN stubs /\ n \in stubs[l][IF Ahead.op = "load" THEN "read" ELSE "write"]

(* Nothing is copied from behind what is private or was not accessed: each field
   in a stub was accessed so, and is shared, of a global's type, an array up to
   a null or a pointer to a function, as are the pointers on the way to it, but
   for the last. *)
NothingFromPrivate ==
  lock # NoLock =>
    \A access \in Access : \A c \in Copies[access] :
      /\ access \in tags[c]
      /\ \/ tree.kind[c] = "function"
         \/ c \in sharedField \cup sentinelField \cup globalStructField
      /\ \A a \in FieldsAbove(tree, c) :
           a \in sharedField \cup sentinelField \cup globalStructField /\ tags[a] # {}
=============================================================================
