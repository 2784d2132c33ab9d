-------------------------------- MODULE WebApp --------------------------------
(***************************************************************************)
(* The parts of the web app and the agents' tools, side by side            *)
(* (frontend/src, mcp-server).  They share no state but the account, so    *)
(* what one does is no step of another: a behaviour is one of one part,    *)
(* and `view` says which.                                                  *)
(***************************************************************************)
EXTENDS NoteTab, ChatPanel, BoardPanel, StickyPanel, ApprovalPanel, TreePanel, AgentTools,
        Decks, Drawings, Places, SignIn, TaskDesk, AdminPanel, GitBackups, ServerPages, Remarks

CONSTANT Plans   \* view -> what happens in its behaviours

\* A piece of a note comes from one place: what it said at first, somebody here
\* or somebody elsewhere.
ASSUME PlansAssumption ==
  "note" \in DOMAIN Plans =>
    \A p \in Plans["note"] :
      /\ DOMAIN p = {"typed", "ticked", "elsewhere", "opens", "fails", "peers"}
      /\ p.typed \cap (p.ticked \cup p.elsewhere \cup UNION {First(n) : n \in Note}) = {}
      /\ p.ticked \cap (p.elsewhere \cup UNION {First(n) : n \in Note}) = {}

\* How somebody signs in, and whether a second factor is required.
ASSUME SignPlansAssumption ==
  "sign" \in DOMAIN Plans => \A p \in Plans["sign"] : {"provider", "required"} \subseteq DOMAIN p

pageVars == <<noteVars, chatVars, boardVars, stickyVars, approvalVars, treeVars>>
toolVars == <<agentVars, deckVars, drawVars>>
restVars == <<placeVars, signVars, deskVars, adminVars, gitVars, serverVars, remarkVars>>

vars == <<view, plan, pageVars, toolVars, restVars>>

Init ==
  /\ NoteInit /\ ChatInit /\ BoardInit /\ StickyInit /\ ApprovalInit /\ TreeInit
  /\ AgentInit /\ DeckInit /\ DrawInit
  /\ PlacesInit /\ SignInit /\ DeskInit /\ AdminInit /\ GitInit /\ ServerInit /\ RemarksInit
  /\ view \in DOMAIN Plans /\ plan \in Plans[view]

PageNext ==
  \/ Part("note") /\ NoteNext /\ UNCHANGED <<chatVars, boardVars, stickyVars, approvalVars, treeVars>>
  \/ Part("chat") /\ ChatNext /\ UNCHANGED <<noteVars, boardVars, stickyVars, approvalVars, treeVars>>
  \/ Part("board") /\ BoardNext /\ UNCHANGED <<noteVars, chatVars, stickyVars, approvalVars, treeVars>>
  \/ Part("sticky") /\ StickyNext /\ UNCHANGED <<noteVars, chatVars, boardVars, approvalVars, treeVars>>
  \/ Part("approval") /\ ApprovalNext /\ UNCHANGED <<noteVars, chatVars, boardVars, stickyVars, treeVars>>
  \/ Part("tree") /\ TreeNext /\ UNCHANGED <<noteVars, chatVars, boardVars, stickyVars, approvalVars>>

ToolNext ==
  \/ Part("agent") /\ AgentNext /\ UNCHANGED <<deckVars, drawVars>>
  \/ Part("deck") /\ DeckNext /\ UNCHANGED <<agentVars, drawVars>>
  \/ Part("draw") /\ DrawNext /\ UNCHANGED <<agentVars, deckVars>>

RestNext ==
  \/ Part("place") /\ PlacesNext /\ UNCHANGED <<signVars, deskVars, adminVars, gitVars, serverVars, remarkVars>>
  \/ Part("sign") /\ SignNext /\ UNCHANGED <<placeVars, deskVars, adminVars, gitVars, serverVars, remarkVars>>
  \/ Part("desk") /\ DeskNext /\ UNCHANGED <<placeVars, signVars, adminVars, gitVars, serverVars, remarkVars>>
  \/ Part("admin") /\ AdminNext /\ UNCHANGED <<placeVars, signVars, deskVars, gitVars, serverVars, remarkVars>>
  \/ Part("git") /\ GitNext /\ UNCHANGED <<placeVars, signVars, deskVars, adminVars, serverVars, remarkVars>>
  \/ Part("server") /\ ServerNext /\ UNCHANGED <<placeVars, signVars, deskVars, adminVars, gitVars, remarkVars>>
  \/ Part("remark") /\ RemarksNext /\ UNCHANGED <<placeVars, signVars, deskVars, adminVars, gitVars, serverVars>>

Next ==
  \/ PageNext /\ UNCHANGED <<toolVars, restVars>>
  \/ ToolNext /\ UNCHANGED <<pageVars, restVars>>
  \/ RestNext /\ UNCHANGED <<pageVars, toolVars>>

Fair == NoteFair /\ ApprovalFair /\ TreeFair

Spec == Init /\ [][Next]_vars /\ Fair

\* When things come to rest, a card and the tree show what the server has.
ScreenSettles == CardSettles /\ TreeSettles

\* What is asked for reaches what was meant, wherever it has moved, and nothing else.
RequestsLand == PlacesRight /\ DeskRight /\ BackupsRight /\ RemarksRight

\* Who somebody is, and what they may do, is what was set up for them, and is shown so.
AccountRight == SignedInRight /\ AdminRight /\ ServerRight
=============================================================================
