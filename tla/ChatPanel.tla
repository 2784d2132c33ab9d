------------------------------- MODULE ChatPanel -------------------------------
(***************************************************************************)
(* One browser tab in a chat (frontend/src/components/ChatView.jsx,        *)
(* chat.js, api.js): it loads the conversation, polls for what came after  *)
(* the count it has, posts the draft and shows its own post at once.       *)
(* Polls overlap on a slow link, and a chat is left with answers under way.*)
(*                                                                         *)
(* A message is the set of words it was made of, and its number its place. *)
(***************************************************************************)
EXTENDS WebBase

CONSTANTS
  Chat,      \* the chats; a word is <<chat it was typed in, name>>
  ChatPolls  \* polls under way at once

VARIABLES
  chat,    \* chat -> its messages, and whether this account can open it
  room,    \* the room on screen (ChatRoom); a request knows the room it is of, and
           \* what it sets in one that is gone is lost
  drafts,  \* chat -> the draft kept in the browser's storage
  asked,   \* requests whose answers are to come
  words    \* the words typed so far

chatVars == <<chat, room, drafts, asked, words>>

Said(c) == chat[c].log
After(c, k) == {n \in 1 .. Len(Said(c)) : n > k}

ChatInit ==
  /\ chat = [c \in Chat |-> [log |-> <<>>, open |-> TRUE]]
  /\ room = None /\ drafts = [c \in Chat |-> {}] /\ asked = {}
  /\ words = {}

\* What the server answers a read: the numbers above `k` and the count.
Read(c, k) == [ok |-> chat[c].open, new |-> After(c, k), count |-> Len(Said(c))]

Ask(kind, r, got) == [kind |-> kind, of |-> r.id, chat |-> r.chat, load |-> r.load, got |-> got]

InRoom == room # None /\ room.doc /\ ~room.gone
Here(a) == room # None /\ a.of = room.id

-----------------------------------------------------------------------------
(* Others.                                                                 *)

OtherPosts(q) ==
  /\ Take("others", q) /\ chat[q[1]].open
  /\ chat' = [chat EXCEPT ![q[1]].log = Append(@, {q})]
  /\ UNCHANGED <<room, drafts, asked, words>>

\* The chat is deleted, or this account is taken off its members.
ChatLost(c) ==
  /\ Spend("lost") /\ chat[c].open
  /\ chat' = [chat EXCEPT ![c].open = FALSE]
  /\ UNCHANGED <<room, drafts, asked, words>>

-----------------------------------------------------------------------------
(* The room.                                                               *)

Loading == \E a \in asked : a.kind = "load" /\ Here(a) /\ a.load = room.load

\* Another chat is another room; what the last one asked for is still to come.
OpenRoom(c) ==
  LET r == [id |-> IF room = None THEN 1 ELSE room.id + 1, chat |-> c, doc |-> FALSE,
            shown |-> {}, count |-> 0, draft |-> drafts[c], sending |-> FALSE,
            gone |-> FALSE, load |-> 1]
  IN  /\ Spend("opens")
      /\ room # None => room.chat # c
      /\ room' = r
      /\ asked' = asked \cup {Ask("load", r, Read(c, 0))}
      /\ UNCHANGED <<chat, drafts, words>>

\* Refresh reads the whole note again; what was shown stays until it is there.
Refresh ==
  /\ room # None /\ ~Loading
  /\ Spend("refreshes")
  /\ LET r == [room EXCEPT !.count = 0, !.load = @ + 1]
     IN  room' = r /\ asked' = asked \cup {Ask("load", r, Read(r.chat, 0))}
  /\ UNCHANGED <<chat, drafts, words>>

LoadAnswered(a) ==
  /\ a.kind = "load" /\ asked' = asked \ {a}
  /\ room' = IF ~Here(a) \/ a.load # room.load THEN room
             ELSE IF ~a.got.ok THEN [room EXCEPT !.gone = TRUE]
             ELSE [room EXCEPT !.doc = TRUE, !.shown = a.got.new, !.count = a.got.count]
  /\ UNCHANGED <<chat, drafts, plan, words>>

\* Every three seconds, from the count the room has.
Poll ==
  /\ InRoom /\ (Loading => Hurried)
  /\ Cardinality({a \in asked : a.kind = "poll"}) < ChatPolls
  /\ ~chat[room.chat].open \/ Len(Said(room.chat)) > room.count
  /\ asked' = asked \cup {Ask("poll", room, Read(room.chat, room.count))}
  /\ UNCHANGED <<chat, room, drafts, plan, words>>

\* Mutant: the answer takes the place of what is on screen.
MergedOver(got) ==
  IF got.ok THEN [room EXCEPT !.shown = got.new, !.count = got.count]
  ELSE [room EXCEPT !.gone = TRUE]

\* mergeMessages: what is on screen stays, and the count never goes back.
Merged(got) ==
  IF got.ok THEN [room EXCEPT !.shown = @ \cup got.new,
                              !.count = IF got.count > @ THEN got.count ELSE @]
  ELSE [room EXCEPT !.gone = TRUE]

PollAnswered(a) ==
  /\ a.kind = "poll" /\ asked' = asked \ {a}
  /\ room' = IF Here(a) THEN Merged(a.got) ELSE room
  /\ UNCHANGED <<chat, drafts, plan, words>>

-----------------------------------------------------------------------------
(* Posting.                                                                *)

\* A post to the chat is under way, from this room or from one that was left.
Posting(c) == \E a \in asked : a.kind = "post" /\ a.chat = c

TypeWord(q) ==
  /\ Take("typed", q) /\ InRoom /\ q[1] = room.chat
  /\ Posting(room.chat) => Hurried
  /\ room' = [room EXCEPT !.draft = @ \cup {q}]
  /\ drafts' = [drafts EXCEPT ![room.chat] = room.draft \cup {q}]
  /\ words' = words \cup {q}
  /\ UNCHANGED <<chat, asked>>

\* What becomes of a post: an answer, an error, or an error after it landed.
Fates == {"posted", "refused", "unanswered"}

Send(fate) ==
  LET c == room.chat
      got == [ok |-> fate = "posted" /\ chat[c].open, new |-> {Len(Said(c)) + 1},
              gone |-> ~chat[c].open]
  IN  /\ InRoom /\ ~room.sending /\ room.draft # {}
      /\ IF fate = "posted" THEN UNCHANGED plan ELSE Spend("fails")
      /\ room' = [room EXCEPT !.sending = TRUE]
      /\ chat' = IF fate = "refused" \/ ~chat[c].open THEN chat
                 ELSE [chat EXCEPT ![c].log = Append(@, room.draft)]
      /\ asked' = asked \cup {Ask("post", room, got)}
      /\ UNCHANGED <<drafts, words>>

\* Mutant: the count is moved to the post.
PostedCounts(a, r) ==
  IF a.got.ok THEN [r EXCEPT !.draft = {}, !.shown = @ \cup a.got.new,
                             !.count = CHOOSE n \in a.got.new : TRUE]
  ELSE [r EXCEPT !.gone = @ \/ a.got.gone]

\* The post is shown; the count is not moved, the next poll starts where it was.
Posted(a, r) == IF a.got.ok THEN [r EXCEPT !.draft = {}, !.shown = @ \cup a.got.new]
                ELSE [r EXCEPT !.gone = @ \/ a.got.gone]

\* Mutant: the draft goes whatever became of the post.
DraftedAlways(a) == [drafts EXCEPT ![a.chat] = {}]

\* The draft kept for the chat goes too, also when its room is gone.
Drafted(a) == IF a.got.ok THEN [drafts EXCEPT ![a.chat] = {}] ELSE drafts

PostAnswered(a) ==
  /\ a.kind = "post" /\ asked' = asked \ {a}
  /\ room' = IF Here(a) THEN [Posted(a, room) EXCEPT !.sending = FALSE] ELSE room
  /\ drafts' = Drafted(a)
  /\ UNCHANGED <<chat, plan, words>>

ChatNext ==
  \/ \E q \in plan.others : OtherPosts(q)
  \/ \E c \in Chat : ChatLost(c) \/ OpenRoom(c)
  \/ Refresh \/ Poll
  \/ \E a \in asked : LoadAnswered(a) \/ PollAnswered(a) \/ PostAnswered(a)
  \/ \E q \in plan.typed : TypeWord(q)
  \/ \E fate \in Fates : Send(fate)

-----------------------------------------------------------------------------
(* Properties                                                              *)

\* What the room counts as read is on screen, so no poll skips a message.
ChatGapless == room # None => 1 .. room.count \subseteq room.shown

\* A word typed is in the draft kept for its chat or in a message of it.
InLog(q, c) == \E n \in DOMAIN Said(c) : q \in Said(c)[n]
WordsKept == \A q \in words : q \in drafts[q[1]] \/ InLog(q, q[1])
=============================================================================
