------------------------------ MODULE NoteTree ------------------------------
(***************************************************************************)
(* What a mutation does to one workspace, once as a change of the durable  *)
(* git tree (Storage) and once as a change of the Redis working set        *)
(* (WorkingSet).  Both are functions from paths to bodies, so the app      *)
(* replicas and the writer of HaStorage share one vocabulary.              *)
(*                                                                         *)
(* A body is the set of the pieces of text it holds (one piece per request *)
(* that added text) and whether it carries the note's mdnest marker.  Root *)
(* stands for the workspace itself: its folder on disk, its entry in the   *)
(* namespace registry in Redis.                                            *)
(***************************************************************************)
EXTENDS Naturals, FiniteSets

CONSTANTS
  Note,       \* note paths of the workspace
  Root,       \* the workspace itself
  None,       \* no such entry
  Linked,     \* note paths that run through a symbolic link on disk
  System,     \* note paths of a reserved system namespace
  Cap         \* maxBytes: the largest body held in Redis, in pieces

ASSUME TreeAssumption ==
  /\ Root \notin Note
  /\ Linked \subseteq Note
  /\ System \subseteq Note
  /\ Cap \in Nat
  /\ None \notin [text : SUBSET Nat, mark : BOOLEAN]

Path == Note \cup {Root}

Body == [text : SUBSET Nat, mark : BOOLEAN]
Tree == [Path -> Body \cup {None}]

Folder    == [text |-> {}, mark |-> FALSE]
EmptyTree == [p \in Path |-> None]

Size(b) == Cardinality(b.text)

Kind == {"write", "mkdir", "remove", "removeAll", "rename"}

\* DurabilityOp: path and to are the same path except in a rename; data is the
\* whole new body of a write and unused otherwise.
Op == {op \in [kind : Kind, path : Path, to : Path, data : Body] :
         op.kind = "rename" => op.path \in Note /\ op.to \in Note}

(***************************************************************************)
(* The durable tree                                                        *)
(***************************************************************************)

\* LinkResolver's verdict on an op: a path that runs through a link.
LinkedOp(op) == op.path \in Linked \/ op.to \in Linked

\* What one op does to the tree.  A remove or a rename of a missing path is
\* not an error and changes nothing.
Effect(tree, op) ==
  IF LinkedOp(op) THEN tree
  ELSE IF op.kind = "write"     THEN [tree EXCEPT ![Root] = Folder, ![op.path] = op.data]
  ELSE IF op.kind = "remove"    THEN [tree EXCEPT ![op.path] = None]
  ELSE IF op.kind = "removeAll" THEN EmptyTree
  ELSE IF op.kind = "rename" /\ tree[op.path] # None
       THEN [tree EXCEPT ![Root] = Folder, ![op.to] = tree[op.path], ![op.path] = None]
  ELSE [tree EXCEPT ![Root] = Folder]

\* GitStorage keeps a path's marker: the marker of the body on disk wins, a
\* path without one may get back the marker its git history remembers.
Marks(cur, data, remembered) ==
  IF cur # None /\ cur.mark THEN {TRUE}
  ELSE {data.mark} \cup (IF remembered THEN {TRUE} ELSE {})

WithMark(op, m) == [op EXCEPT !.data = [text |-> op.data.text, mark |-> m]]

\* A body and a tree without their markers: the text alone.
Unmarked(b)     == IF b = None THEN None ELSE [text |-> b.text, mark |-> FALSE]
TextOf(tree)    == [p \in Path |-> Unmarked(tree[p])]

(***************************************************************************)
(* The working set                                                         *)
(***************************************************************************)

\* cacheBody: Set, or Delete when the body is over the cap.
CacheBody(ws, p, b) ==
  IF Size(b) <= Cap THEN [ws EXCEPT ![Root] = Folder, ![p] = b]
                    ELSE [ws EXCEPT ![p] = None]

\* Mutant: the writer's copy always wins.
SetAlways(ws, p, old, b) == [ws EXCEPT ![Root] = Folder, ![p] = b]

\* CompareAndSet: only while the cached body is still old, or missing.
CompareAndSet(ws, p, old, b) ==
  IF ws[p] \in {None, old} THEN [ws EXCEPT ![Root] = Folder, ![p] = b] ELSE ws

\* What an app replica publishes before it enqueues the op.
Published(ws, op) ==
  IF op.kind = "write"          THEN CacheBody(ws, op.path, op.data)
  ELSE IF op.kind = "remove"    THEN [ws EXCEPT ![op.path] = None]
  ELSE IF op.kind = "removeAll" THEN EmptyTree
  ELSE IF op.kind = "rename"
       THEN [ws EXCEPT ![Root] = Folder, ![op.to] = op.data, ![op.path] = None]
  ELSE [ws EXCEPT ![Root] = Folder]

\* recacheDest: put what is now on disk at a rename's destination back.
RecacheDest(ws, disk, to) ==
  IF disk[to] = None THEN ws ELSE CacheBody(ws, to, disk[to])

\* Mutant: publish the queued bytes, not what landed.
PublishQueued(ws, disk, op) == CompareAndSet(ws, op.path, op.data, op.data)

\* Publish what landed in a write, while the working set still holds the
\* queued bytes.
PublishLanded(ws, disk, op) ==
  LET landed == IF disk[op.path] = None THEN op.data ELSE disk[op.path]
  IN  IF Size(landed) <= Cap THEN CompareAndSet(ws, op.path, op.data, landed) ELSE ws

\* What the writer reflects into the working set once the op is on disk.
Reflected(ws, disk, op) ==
  IF LinkedOp(op) \/ op.kind = "remove" THEN [ws EXCEPT ![op.path] = None]
  ELSE IF op.kind = "write"     THEN PublishLanded(ws, disk, op)
  ELSE IF op.kind = "removeAll" THEN EmptyTree
  ELSE IF op.kind = "rename"
       THEN RecacheDest([ws EXCEPT ![op.path] = None, ![op.to] = None], disk, op.to)
  ELSE [ws EXCEPT ![Root] = Folder]

\* hydrate's step for one path: fill what is missing, overwrite a system note.
Hydrated(ws, disk, p) ==
  IF disk[p] = None \/ p \in Linked \/ Size(disk[p]) > Cap THEN ws
  ELSE IF p \in System \/ ws[p] = None
       THEN [ws EXCEPT ![Root] = Folder, ![p] = disk[p]] ELSE ws
=============================================================================
