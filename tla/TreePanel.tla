------------------------------- MODULE TreePanel -------------------------------
(***************************************************************************)
(* The file tree in the sidebar (frontend/src/App.jsx, tree-refresh.js,    *)
(* tab-sync.js): read after the tab's own changes, when another tab or the *)
(* server says that something changed, when the tab comes to the front,    *)
(* and every half minute, because a file that git or the host writes is    *)
(* announced by nobody.  Any answer is shown, whichever workspace it is of.*)
(***************************************************************************)
EXTENDS WebBase

CONSTANTS
  Space,   \* the workspaces
  Front,   \* the one that is open at first
  Entry    \* the paths in a workspace

VARIABLES
  disk,    \* workspace -> its paths
  side,    \* ns (the workspace that is open), shown (its tree), hidden, live (the
           \* socket is up), bell (a refresh waits for its debounce)
  walks,   \* reads of the tree whose answers are to come: <<workspace, paths>>
  chore    \* the workspace in which the tab is changing a path, or None

treeVars == <<disk, side, walks, chore>>

TreeInit ==
  /\ disk = [n \in Space |-> {}]
  /\ side = [ns |-> Front, shown |-> {}, hidden |-> FALSE, live |-> TRUE, bell |-> FALSE]
  /\ walks = {} /\ chore = None

\* A path is created, deleted, or moved there or away.
Flip(n, f) ==
  disk' = [disk EXCEPT ![n] = IF f \in @ THEN @ \ {f} ELSE @ \cup {f}]

\* refreshTree, of the workspace it is told.
Walk(n) == walks' = walks \cup {<<n, disk[n]>>}

-----------------------------------------------------------------------------
(* Others.                                                                 *)

\* git-sync, an editor on the host, a restored backup.
HostChanges(n, f) ==
  /\ Spend("host") /\ Flip(n, f)
  /\ UNCHANGED <<side, walks, chore>>

\* Another user or program, through the API: the sockets of notes in
\* that workspace ring, as the tab's own changes do.
ApiChanges(n, f) ==
  /\ Spend("api") /\ Flip(n, f)
  /\ side' = [side EXCEPT !.bell = @ \/ (side.live /\ n = side.ns)]
  /\ UNCHANGED <<walks, chore>>

\* Another tab of this browser: it rings here, socket or not.
OtherTabChanges(n, f) ==
  /\ Spend("tabs") /\ Flip(n, f)
  /\ side' = [side EXCEPT !.bell = @ \/ n = side.ns]
  /\ UNCHANGED <<walks, chore>>

Socket ==
  /\ Spend("sockets")
  /\ side' = [side EXCEPT !.live = ~@]
  /\ UNCHANGED <<disk, walks, chore>>

-----------------------------------------------------------------------------
(* The tab.                                                                *)

\* handleSelectNs: an empty tree until the new one is read.
SelectNs(n) ==
  /\ n # side.ns /\ Spend("selects")
  /\ side' = [side EXCEPT !.ns = n, !.shown = {}]
  /\ Walk(n)
  /\ UNCHANGED <<disk, chore>>

\* doCreateNote, delete, rename, handleTreeDrop and the like: the change, then
\* the refresh, of the workspace the change was made in.
TabChanges(f) ==
  /\ chore = None /\ Spend("changes")
  /\ Flip(side.ns, f) /\ chore' = side.ns
  /\ side' = [side EXCEPT !.bell = @ \/ side.live]
  /\ UNCHANGED walks

ChoreDone ==
  /\ chore # None /\ chore' = None
  /\ Walk(chore)
  /\ UNCHANGED <<disk, side, plan>>

BellRings ==
  /\ side.bell
  /\ side' = [side EXCEPT !.bell = FALSE]
  /\ Walk(side.ns)
  /\ UNCHANGED <<disk, chore, plan>>

Visibility ==
  /\ Spend("hides")
  /\ side' = [side EXCEPT !.hidden = ~@]
  /\ IF side.hidden THEN Walk(side.ns) ELSE UNCHANGED walks
  /\ UNCHANGED <<disk, chore>>

\* Mutant: a socket that is up makes the poll seem needless.
ShouldPollOffline == ~side.hidden /\ ~side.live

\* shouldPollTree: the socket has no part in it.
ShouldPoll == ~side.hidden

PollTree ==
  /\ ShouldPoll
  /\ Walk(side.ns)
  /\ UNCHANGED <<disk, side, chore, plan>>

TreeRead(w) ==
  /\ walks' = walks \ {w}
  /\ \/ side' = [side EXCEPT !.shown = w[2]] /\ UNCHANGED plan
     \/ Spend("fails") /\ UNCHANGED side
  /\ UNCHANGED <<disk, chore>>

TreeNext ==
  \/ Socket \/ ChoreDone \/ BellRings \/ Visibility \/ PollTree
  \/ \E n \in Space :
       \/ SelectNs(n)
       \/ \E f \in Entry : HostChanges(n, f) \/ ApiChanges(n, f) \/ OtherTabChanges(n, f)
  \/ \E f \in Entry : TabChanges(f)
  \/ \E w \in walks : TreeRead(w)

\* The poll goes on and is answered.
TreeFair ==
  WF_treeVars(Part("tree") /\ PollTree) /\ WF_treeVars(Part("tree") /\ \E w \in walks : TreeRead(w))

-----------------------------------------------------------------------------
(* Properties                                                              *)

\* When things come to rest, a visible tab shows what is in the workspace it has
\* open: no change goes unseen for good, and no late answer stays.
TreeSettles == <>[](side.hidden \/ side.shown = disk[side.ns])
=============================================================================
