------------------------------ MODULE BoardPanel ------------------------------
(***************************************************************************)
(* The task board over one note (frontend/src/components/TaskBoard.jsx,    *)
(* cardKey.js, api.js): a dropped card lands on screen at once and its     *)
(* save waits for the ones before it; the board is read again in the       *)
(* background, and a card is named to the server by its line and its text. *)
(*                                                                         *)
(* Every card has a title of its own, which stands for its key; its text   *)
(* is the title and whether it is ticked.  The status a move writes and    *)
(* the stamp of a ticked card are lines below it, and shift what follows.  *)
(***************************************************************************)
EXTENDS WebBase

CONSTANTS
  Card,         \* the titles
  Column, Done, \* the columns; Done \in Column holds what is ticked
  Inbox         \* where a card is that has no status

ASSUME BoardAssumption == None \notin Column /\ IsFiniteSet(Card)

VARIABLES
  list,   \* the note: lines above its cards, and the cards in order
  cards,  \* the board: card -> what it shows of it, None when it has none
  drag,   \* the card being dragged
  moves,  \* the saves of drops, in drop order
  calls,  \* reads, ticks and deletes whose answers are to come
  wish,   \* card -> where it was last dropped, unless somebody did more to it since
  told    \* the cards of which the board said that a move was not saved

boardVars == <<list, cards, drag, moves, calls, wish, told>>

-----------------------------------------------------------------------------
(* The note, and what the server does to it.                               *)

ColumnOf(k) == IF k.done THEN Done ELSE IF k.status = None THEN Inbox ELSE k.status

Details(k) == (IF k.done THEN 1 ELSE 0) + (IF k.status = None THEN 0 ELSE 1)

\* The line a card is on.
LineOf[i \in Nat] ==
  IF i = 1 THEN list.above + 1 ELSE LineOf[i - 1] + 1 + Details(list.cards[i - 1])

At(c) == {i \in DOMAIN list.cards : list.cards[i].title = c}

Listed ==
  [c \in Card |->
    IF At(c) = {} THEN None
    ELSE LET i == CHOOSE i \in At(c) : TRUE
         IN  [line |-> LineOf[i], done |-> list.cards[i].done, column |-> ColumnOf(list.cards[i])]]

\* The cards a request means: the line must still be this text.
Meant(c, shown) ==
  {i \in At(c) : LineOf[i] = shown.line /\ list.cards[i].done = shown.done}

\* What a move and a tick write.
MovedTo(S, col) ==
  [i \in S |-> [list.cards[i] EXCEPT !.done = (col = Done), !.status = IF col = Done THEN None ELSE col]]
Ticked(S) == [i \in S |-> [list.cards[i] EXCEPT !.done = ~@]]

\* `new` has the cards that change, by their place.
Changes(new) ==
  [list EXCEPT !.cards = [i \in DOMAIN @ |-> IF i \in DOMAIN new THEN new[i] ELSE @[i]]]

\* The lines of the one card that is meant are cut out.
CutAt(i) == [list EXCEPT !.cards = [j \in 1 .. Len(@) - 1 |-> IF j < i THEN @[j] ELSE @[j + 1]]]
Without(S) == IF S = {} THEN list ELSE CutAt(CHOOSE i \in S : TRUE)

\* Any order of the cards will do: nothing tells them apart.
Order == CHOOSE f \in [1 .. Cardinality(Card) -> Card] : {f[i] : i \in DOMAIN f} = Card

BoardInit ==
  /\ list = [above |-> 0,
             cards |-> [i \in DOMAIN Order |-> [title |-> Order[i], done |-> FALSE, status |-> None]]]
  /\ cards = Listed
  /\ drag = None /\ moves = <<>> /\ calls = {}
  /\ wish = [c \in Card |-> None] /\ told = {}

-----------------------------------------------------------------------------
(* Others.                                                                 *)

\* A card is moved by somebody else, or lines are written above the cards.
OtherMoves(c, col) ==
  /\ At(c) # {} /\ Spend("others")
  /\ list' = Changes(MovedTo(At(c), col))
  /\ wish' = [wish EXCEPT ![c] = None]
  /\ UNCHANGED <<cards, drag, moves, calls, told>>

OtherWrites ==
  /\ Spend("others")
  /\ list' = [list EXCEPT !.above = @ + 1]
  /\ UNCHANGED <<cards, drag, moves, calls, wish, told>>

-----------------------------------------------------------------------------
(* Reading the board.                                                      *)

ReadOf(kind) == [kind |-> kind, got |-> Listed]

\* The poll, the page coming to the front, or Refresh.
Reload ==
  /\ drag = None /\ Spend("reads")
  /\ calls' = calls \cup {ReadOf("read")}
  /\ UNCHANGED <<list, cards, drag, moves, wish, told>>

\* The refresh after a drop gives way to the next drag.
ReadAnswered(a) ==
  /\ a.kind \in {"read", "after"} /\ calls' = calls \ {a}
  /\ cards' = IF a.kind = "after" /\ drag # None THEN cards ELSE a.got
  /\ UNCHANGED <<list, drag, moves, wish, told, plan>>

-----------------------------------------------------------------------------
(* Dragging.                                                               *)

DragStart(c) ==
  /\ drag = None /\ cards[c] # None /\ plan.drops > 0
  /\ drag' = c
  /\ UNCHANGED <<list, cards, moves, calls, wish, told, plan>>

DragEnd(col) ==
  LET was == cards[drag]
  IN  /\ drag # None /\ drag' = None
      /\ IF was = None \/ (was # None /\ was.column = col) THEN UNCHANGED <<cards, moves, wish, told, plan>>
         ELSE /\ Spend("drops")
              /\ cards' = [cards EXCEPT ![drag].column = col]
              /\ moves' = Append(moves, [card |-> drag, shown |-> was, to |-> col,
                                         at |-> "queued", reply |-> "none", got |-> None])
              /\ wish' = [wish EXCEPT ![drag] = col]
              /\ told' = told \ {drag}
      /\ UNCHANGED <<list, calls>>

\* Mutant: all at once.
RunningAll == DOMAIN moves

\* The saves that may run: one at a time, in drop order.
Running == {i \in DOMAIN moves : i = 1}

\* The request is made, and handled: a failure is one of the server or the network.
MoveAsks(i, shown, stage) ==
  LET m == moves[i]
      S == Meant(m.card, shown)
  IN  \/ /\ list' = Changes(MovedTo(S, m.to))
         /\ moves' = [moves EXCEPT ![i].at = stage, ![i].reply = IF S = {} THEN "conflict" ELSE "ok"]
         /\ UNCHANGED plan
      \/ /\ Spend("fails")
         /\ moves' = [moves EXCEPT ![i].at = stage, ![i].reply = "failed"]
         /\ UNCHANGED list

\* A save that is over; after the last one the board is read again.
Over(i) ==
  /\ moves' = [j \in 1 .. Len(moves) - 1 |-> IF j < i THEN moves[j] ELSE moves[j + 1]]
  /\ calls' = IF Len(moves) = 1 THEN calls \cup {ReadOf("after")} ELSE calls

MoveSent(i) ==
  /\ moves[i].at = "queued"
  /\ MoveAsks(i, moves[i].shown, "sent")
  /\ UNCHANGED <<cards, drag, calls, wish, told>>

\* applyUpdated: the server's copy of the card takes the place of the board's.
Applied(i) ==
  LET c == moves[i].card
  IN  cards' = IF cards[c] = None \/ Listed[c] = None THEN cards
               ELSE [cards EXCEPT ![c] = [line |-> @.line, done |-> (moves[i].to = Done), column |-> moves[i].to]]

\* A refused save looks for the card and tries once more.
Refused(i) ==
  IF moves[i].reply = "conflict" /\ moves[i].at = "sent" THEN "find" ELSE "revert"

MoveAnswered(i) ==
  /\ moves[i].at \in {"sent", "again"}
  /\ IF moves[i].reply = "ok" THEN Applied(i) /\ Over(i)
     ELSE /\ moves' = [moves EXCEPT ![i].at = Refused(i), ![i].got = Listed]
          /\ UNCHANGED <<cards, calls>>
  /\ UNCHANGED <<list, drag, wish, told, plan>>

\* relocateTask: the same text, wherever it is now.
Relocated(i) ==
  LET found == moves[i].got[moves[i].card]
  IN  found # None /\ found.done = moves[i].shown.done

MoveFound(i) ==
  /\ moves[i].at = "find"
  /\ IF Relocated(i) THEN MoveAsks(i, moves[i].got[moves[i].card], "again")
     ELSE moves' = [moves EXCEPT ![i].at = "revert", ![i].got = Listed] /\ UNCHANGED <<list, plan>>
  /\ UNCHANGED <<cards, drag, calls, wish, told>>

\* The card goes back to where the note has it, and the board says so.
MoveReverted(i) ==
  /\ moves[i].at = "revert"
  /\ cards' = moves[i].got
  /\ told' = told \cup {moves[i].card}
  /\ Over(i)
  /\ UNCHANGED <<list, drag, wish, plan>>

-----------------------------------------------------------------------------
(* Ticking and deleting.                                                   *)

Tick(c) ==
  LET S == Meant(c, cards[c])
  IN  /\ cards[c] # None /\ Spend("ticks")
      /\ list' = Changes(Ticked(S))
      /\ calls' = calls \cup {[kind |-> "tick", card |-> c, ok |-> S # {}, done |-> ~cards[c].done]}
      /\ wish' = [wish EXCEPT ![c] = None]
      /\ UNCHANGED <<cards, drag, moves, told>>

\* A refused tick reads the board again, and says nothing.
TickDone(a) ==
  /\ a.kind = "tick"
  /\ IF a.ok THEN /\ cards' = IF cards[a.card] = None THEN cards
                              ELSE [cards EXCEPT ![a.card].done = a.done,
                                                 ![a.card].column = IF a.done THEN Done ELSE Inbox]
                  /\ calls' = calls \ {a}
     ELSE calls' = (calls \ {a}) \cup {ReadOf("read")} /\ UNCHANGED cards
  /\ UNCHANGED <<list, drag, moves, wish, told, plan>>

Delete(c) ==
  LET S == Meant(c, cards[c])
  IN  /\ cards[c] # None /\ drag # c /\ Spend("deletes")
      /\ cards' = [cards EXCEPT ![c] = None]
      /\ list' = Without(S)
      /\ calls' = IF S = {} THEN calls \cup {ReadOf("read")} ELSE calls
      /\ wish' = [wish EXCEPT ![c] = None]
      /\ UNCHANGED <<drag, moves, told>>

BoardNext ==
  \/ OtherWrites \/ Reload
  \/ \E c \in Card : DragStart(c) \/ Tick(c) \/ Delete(c) \/ \E col \in Column : OtherMoves(c, col)
  \/ \E col \in Column : DragEnd(col)
  \/ \E a \in calls : ReadAnswered(a) \/ TickDone(a)
  \/ \E i \in Running : MoveSent(i) \/ MoveAnswered(i) \/ MoveFound(i) \/ MoveReverted(i)

-----------------------------------------------------------------------------
(* Properties                                                              *)

\* Once the saves are through, a dropped card is where it was dropped last, or
\* is gone, or the board said that it was not saved.
DropsLand ==
  moves = <<>> =>
    \A c \in Card :
      wish[c] = None \/ c \in told \/ \A i \in At(c) : ColumnOf(list.cards[i]) = wish[c]
=============================================================================
