----------------------------- MODULE ApprovalPanel -----------------------------
(***************************************************************************)
(* An agent's request for approval as its owner sees it                    *)
(* (frontend/src/components/ApprovalCard.jsx, useApprovals.js, api.js):    *)
(* a card that asks for the request while it is open, decides it, and the  *)
(* list behind the count in the page title, both read by polls whose       *)
(* answers overlap.  It may be decided elsewhere, run out or be lost with  *)
(* the server's memory.                                                    *)
(***************************************************************************)
EXTENDS WebBase

CONSTANT Decision   \* allow, allow_session, answer, deny

VARIABLES
  request,  \* on the server: "pending", a decision, "expired", or "gone"
  card,     \* open, is (what it shows of the request, None before the first
            \* answer), missing, busy (a decision is being sent)
  count,    \* the list counts the request
  replies   \* answers to come: <<who asked, what it says>>

approvalVars == <<request, card, count, replies>>

States == Decision \cup {"pending", "expired", "gone"}

NewCard == [open |-> TRUE, is |-> None, missing |-> FALSE, busy |-> FALSE]

ApprovalInit ==
  /\ request = "pending" /\ card = [NewCard EXCEPT !.open = FALSE]
  /\ count = FALSE /\ replies = {}

-----------------------------------------------------------------------------
(* The request.                                                            *)

\* Decided in the terminal or another tab, or its time is up.
DecidedElsewhere(s) ==
  /\ request = "pending" /\ Spend("elsewhere")
  /\ request' = s
  /\ UNCHANGED <<card, count, replies>>

\* Decided requests are dropped after a while, and all at a restart.
Forgotten ==
  /\ request # "gone" /\ Spend("forgets")
  /\ request' = "gone"
  /\ UNCHANGED <<card, count, replies>>

-----------------------------------------------------------------------------
(* The card.                                                               *)

\* It comes up in a chat, and asks; its answers of before come to nothing.
CardOpens ==
  /\ ~card.open /\ Spend("opens")
  /\ card' = NewCard
  /\ replies' = {r \in replies : r[1] = "list"} \cup {<<"card", request>>}
  /\ UNCHANGED <<request, count>>

CardCloses ==
  /\ card.open
  /\ card' = [card EXCEPT !.open = FALSE]
  /\ UNCHANGED <<request, count, replies, plan>>

\* Mutant: until it has been answered once.
PollingFirst == card.open /\ ~card.missing /\ card.is = None

\* It asks on while what it shows may still change.
Polling == card.open /\ ~card.missing /\ card.is \in {None, "pending"}

CardPolls ==
  /\ Polling
  /\ replies' = replies \cup {<<"card", request>>}
  /\ UNCHANGED <<request, card, count, plan>>

CardShows(s) == IF s = "gone" THEN [card EXCEPT !.missing = TRUE]
             ELSE [card EXCEPT !.is = s, !.missing = FALSE]

CardAnswered(r) ==
  /\ r[1] = "card" /\ replies' = replies \ {r}
  /\ card' = IF card.open THEN CardShows(r[2]) ELSE card
  /\ UNCHANGED <<request, count, plan>>

\* decide: a request that was decided before answers with what it is.
Decide(d) ==
  LET now == IF request = "pending" THEN d ELSE request
  IN  /\ card.open /\ ~card.missing /\ card.is = "pending" /\ ~card.busy
      /\ card' = [card EXCEPT !.busy = TRUE]
      /\ \/ /\ request' = now /\ UNCHANGED plan
            /\ replies' = replies \cup {<<"decide", IF now = "gone" THEN "failed" ELSE now>>}
         \/ /\ Spend("fails") /\ request' \in {request, now}
            /\ replies' = replies \cup {<<"decide", "failed">>}
      /\ UNCHANGED count

Decided(r) ==
  /\ r[1] = "decide" /\ replies' = replies \ {r}
  /\ card' = IF ~card.open THEN card
             ELSE [card EXCEPT !.busy = FALSE, !.is = IF r[2] = "failed" THEN @ ELSE r[2]]
  /\ UNCHANGED <<request, count, plan>>

-----------------------------------------------------------------------------
(* The list, read every few seconds on every page.                         *)

ListPolls ==
  /\ replies' = replies \cup {<<"list", request>>}
  /\ UNCHANGED <<request, card, count, plan>>

ListAnswered(r) ==
  /\ r[1] = "list" /\ replies' = replies \ {r}
  /\ count' = (r[2] = "pending")
  /\ UNCHANGED <<request, card, plan>>

ApprovalNext ==
  \/ Forgotten \/ CardOpens \/ CardCloses \/ CardPolls \/ ListPolls
  \/ \E s \in Decision \cup {"expired"} : DecidedElsewhere(s)
  \/ \E d \in Decision : Decide(d)
  \/ \E r \in replies : CardAnswered(r) \/ Decided(r) \/ ListAnswered(r)

\* The polls go on and are answered.
ApprovalFair ==
  /\ WF_approvalVars(Part("approval") /\ CardPolls) /\ WF_approvalVars(Part("approval") /\ ListPolls)
  /\ WF_approvalVars(Part("approval") /\ \E r \in replies : CardAnswered(r))
  /\ WF_approvalVars(Part("approval") /\ \E r \in replies : Decided(r))
  /\ WF_approvalVars(Part("approval") /\ \E r \in replies : ListAnswered(r))

-----------------------------------------------------------------------------
(* Properties                                                              *)

\* Once the request is decided, expired or gone, the card comes to say so and
\* the list no longer counts it, whatever late answers still say.
CardSettles ==
  (request # "pending") ~>
    [](~count /\ (card.open => card.missing \/ card.is \notin {None, "pending"}))
=============================================================================
