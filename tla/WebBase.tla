-------------------------------- MODULE WebBase --------------------------------
(***************************************************************************)
(* What the parts of the web app share (frontend/src): a component of the  *)
(* page keeps its own state, asks the server, and applies an answer        *)
(* whenever it comes.  A request is handled when it is sent; its answer    *)
(* comes later.  What people, other programs and the network do is bounded *)
(* by a plan, one for each behaviour.                                      *)
(***************************************************************************)
EXTENDS Integers, Sequences, FiniteSets

CONSTANTS
  None,
  Hurried    \* something happens before the page is done with the last.  Notes: typing or
             \* drawing between the click on another note and its coming up, in the 200 ms
             \* before a peer's live text arrives, or in a chat that a message is still being
             \* sent to (also one sent before the chat was left and opened again); a note that
             \* comes up although a save of the last one still runs or waits; a checkbox ticked
             \* or a peer's live text shown while a save runs; a chat polled while it is read
             \* again; another note opened while a comment's answer is out or words are marked, a
             \* comment posted while the comments are rewritten; another note opened or something
             \* moved before a move is answered.  Boards and settings: a second click, another
             \* item opened or another save before the last answer; a board or a backup saved
             \* from a copy somebody changed since; a super-admin made an ordinary one on a page
             \* that has not seen them become or stop being a namespace's admin; a second factor
             \* set up in two browsers at once; two saves of a theme between its two files;
             \* another's restart between the two requests of one

VARIABLES
  plan,  \* what is left of the plan: how often each thing may still happen, or
         \* which of them may
  view   \* the part this behaviour is one of

Part(name) == view = name /\ view' = name

Spend(f) == plan[f] > 0 /\ plan' = [plan EXCEPT ![f] = @ - 1]
Take(f, q) == q \in plan[f] /\ plan' = [plan EXCEPT ![f] = @ \ {q}]
=============================================================================
