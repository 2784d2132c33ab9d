------------------------------ MODULE StickyPanel ------------------------------
(***************************************************************************)
(* The sticky board of a page (frontend/src/App.jsx, stickies.js, api.js): *)
(* read whole once, written whole half a second after an edit, with the    *)
(* writes of several edits under way at once, and flushed when the page    *)
(* goes.                                                                   *)
(*                                                                         *)
(* A board is a number: every edit makes a new one.                        *)
(***************************************************************************)
EXTENDS WebBase

VARIABLES
  stored,  \* the account's board on the server, and who wrote it
  board,   \* the page: open, load ("loading", "ready", "error"), latest, timer,
           \* says ("idle", "saving", "error"), gets (boards of reads to come)
  puts,    \* writes on their way, in the order they were sent
  boards   \* boards made so far

stickyVars == <<stored, board, puts, boards>>

Page == [open |-> TRUE, load |-> "loading", latest |-> None, timer |-> FALSE,
         says |-> "idle", gets |-> "none"]

StickyInit ==
  /\ stored = [is |-> 0, by |-> None]
  /\ board = [Page EXCEPT !.gets = "asked"]
  /\ puts = <<>> /\ boards = 0

\* Another page or program of the account writes its board.
OtherBoard ==
  /\ Spend("others") /\ boards' = boards + 1
  /\ stored' = [is |-> boards + 1, by |-> "other"]
  /\ UNCHANGED <<board, puts>>

\* loadStickies, and its answer: a page that has read nothing saves nothing.
Loads ==
  /\ board.open /\ board.gets = "asked"
  /\ \/ /\ board' = [board EXCEPT !.gets = "got", !.latest = stored.is]
        /\ UNCHANGED plan
     \/ Spend("fails") /\ board' = [board EXCEPT !.gets = "failed"]
  /\ UNCHANGED <<stored, puts, boards>>

Loaded ==
  /\ board.open /\ board.gets \in {"got", "failed"}
  /\ board' = [board EXCEPT !.gets = "none", !.load = IF board.gets = "got" THEN "ready" ELSE "error"]
  /\ UNCHANGED <<stored, puts, boards, plan>>

\* The Retry of the pane that stands in for the cards.
Retry ==
  /\ board.open /\ board.load = "error"
  /\ board' = [board EXCEPT !.load = "loading", !.gets = "asked"]
  /\ UNCHANGED <<stored, puts, boards, plan>>

\* updateStickies: a card is added, edited, moved or removed.
EditCards ==
  /\ board.open /\ board.load = "ready"
  /\ Spend("edits") /\ boards' = boards + 1
  /\ board' = [board EXCEPT !.latest = boards + 1, !.timer = TRUE, !.says = "saving"]
  /\ UNCHANGED <<stored, puts>>

Sending(kind) == Append(puts, [is |-> board.latest, kind |-> kind, reply |-> "none"])

BoardTimer ==
  /\ board.open /\ board.timer
  /\ board' = [board EXCEPT !.timer = FALSE]
  /\ puts' = Sending("timer")
  /\ UNCHANGED <<stored, boards, plan>>

\* The server takes the writes of a page in their order; one may never reach it,
\* or its answer not come back.
PutHandled(i) ==
  /\ puts[i].reply = "none" /\ \A j \in 1 .. i - 1 : puts[j].reply # "none"
  /\ \/ /\ stored' = [is |-> puts[i].is, by |-> "page"]
        /\ puts' = [puts EXCEPT ![i].reply = "ok"] /\ UNCHANGED plan
     \/ /\ Spend("fails") /\ puts' = [puts EXCEPT ![i].reply = "failed"]
        /\ stored' \in {stored, [is |-> puts[i].is, by |-> "page"]}
  /\ UNCHANGED <<board, boards>>

\* Mutant: any write that lands clears them.
SaysIdle(put) == IF put.reply = "failed" THEN "error" ELSE "idle"

\* The words beside the board after a write: "saving" stays while a newer
\* board waits.
Says(put) ==
  IF put.reply = "failed" THEN "error"
  ELSE IF board.latest = put.is THEN "idle" ELSE board.says

\* Answers come in any order.
BoardPutAnswered(i) ==
  /\ puts[i].reply # "none"
  /\ board' = IF board.open /\ puts[i].kind = "timer" THEN [board EXCEPT !.says = Says(puts[i])]
              ELSE board
  /\ puts' = [j \in 1 .. Len(puts) - 1 |-> IF j < i THEN puts[j] ELSE puts[j + 1]]
  /\ UNCHANGED <<stored, boards, plan>>

\* The page goes: what waits is sent at once, unless a session that ended took
\* the token away.
Leaves(signedOut) ==
  /\ board.open /\ Spend("leaves")
  /\ board' = [board EXCEPT !.open = FALSE, !.timer = FALSE]
  /\ puts' = IF board.load = "ready" /\ board.timer /\ ~signedOut THEN Sending("flush") ELSE puts
  /\ UNCHANGED <<stored, boards>>

StickyNext ==
  \/ OtherBoard \/ Loads \/ Loaded \/ Retry \/ EditCards \/ BoardTimer
  \/ \E i \in DOMAIN puts : PutHandled(i) \/ BoardPutAnswered(i)
  \/ \E signedOut \in BOOLEAN : Leaves(signedOut)

-----------------------------------------------------------------------------
(* Properties                                                              *)

\* The board on screen is the server's, or somebody else wrote that one later,
\* or the page says that it is not saved.
BoardSaved ==
  (board.open /\ board.load = "ready" /\ board.says = "idle") =>
    (stored.is = board.latest \/ stored.by = "other")
=============================================================================
