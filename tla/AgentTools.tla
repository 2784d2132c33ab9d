------------------------------- MODULE AgentTools -------------------------------
(***************************************************************************)
(* Agents at work through the MCP server (mcp-server/index.js): in a chat  *)
(* with post_chat, read_chat and wait_chat, and on a note, with edit_note  *)
(* and the tools that change one slide, one shape or one milestone by      *)
(* writing the whole file.                                                 *)
(*                                                                         *)
(* An agent calls one tool at a time.  A message is its poster and whom it *)
(* addresses; a note is the set of its pieces, and its etag is the note.   *)
(***************************************************************************)
EXTENDS WebBase

CONSTANTS
  Agent,
  Picky,    \* the agents that wait for mentions only
  Piece     \* the pieces agents and people write
ASSUME PickyAssumption == Picky \subseteq Agent

VARIABLES
  thread,  \* the chat's messages
  agents,  \* agent -> after (the number it waits from), got (numbers it was given),
           \* picky (it waits for mentions only), wait (polls left of its wait_chat)
  paper,   \* the note
  jobs     \* agent -> the tool that has read the note and will write it

agentVars == <<thread, agents, paper, jobs>>

Nobody == [tool |-> "none"]
Free(a) == ~agents[a].wait /\ jobs[a] = Nobody

AgentInit ==
  /\ thread = <<>> /\ paper = {}
  /\ agents = [a \in Agent |-> [after |-> 0, got |-> {}, wait |-> FALSE]]
  /\ jobs = [a \in Agent |-> Nobody]

-----------------------------------------------------------------------------
(* The chat.                                                               *)

\* What a read returns of the messages above `k`.
NewFor(a, k) == {n \in 1 .. Len(thread) : n > k /\ thread[n].by # a}
Addressed(a, S) == {n \in S : a \in thread[n].to}
Wakes(a) ==
  LET S == NewFor(a, agents[a].after) IN IF a \in Picky THEN Addressed(a, S) ELSE S

Given(a, S, k) == agents' = [agents EXCEPT ![a].got = @ \cup S, ![a].after = k, ![a].wait = FALSE]

\* Mutant: at the number the post came back with.
AfterPosted(a) == Len(thread) + 1

\* Where the next wait_chat starts after a post: where it would have.
AfterPost(a) == agents[a].after

PostChat(a, to) ==
  /\ Free(a) /\ Spend("posts")
  /\ thread' = Append(thread, [by |-> a, to |-> to])
  /\ Given(a, {}, AfterPost(a))
  /\ UNCHANGED <<paper, jobs>>

PersonPosts(to) ==
  /\ Spend("others")
  /\ thread' = Append(thread, [by |-> None, to |-> to])
  /\ UNCHANGED <<agents, paper, jobs>>

\* read_chat: everything above `after`, one's own too.
ReadChat(a) ==
  /\ Free(a) /\ agents[a].after < Len(thread)
  /\ Given(a, NewFor(a, agents[a].after), Len(thread))
  /\ UNCHANGED <<thread, paper, jobs, plan>>

\* wait_chat polls until it has something or its time is up; then it also says
\* how far the chat is, and the agent may go on from there.
WaitChat(a) ==
  /\ Free(a)
  /\ agents' = [agents EXCEPT ![a].wait = TRUE]
  /\ UNCHANGED <<thread, paper, jobs, plan>>

WaitPolls(a) ==
  /\ agents[a].wait
  /\ IF Wakes(a) # {} THEN Given(a, Wakes(a), Len(thread))
     ELSE \E k \in {agents[a].after, Len(thread)} : Given(a, {}, k)
  /\ UNCHANGED <<thread, paper, jobs, plan>>

\* A poll that fails ends the call; the agent waits again from where it was.
WaitFails(a) ==
  /\ agents[a].wait /\ Spend("fails")
  /\ Given(a, {}, agents[a].after)
  /\ UNCHANGED <<thread, paper, jobs>>

-----------------------------------------------------------------------------
(* The note.                                                               *)

\* append_note, prepend_note and people: added to what is there.
Appends(q) ==
  /\ Spend("adds") /\ q \notin paper
  /\ paper' = paper \cup {q}
  /\ UNCHANGED <<thread, agents, jobs>>

\* A tool reads the note, to put `new` where `old` is ({}: nothing is replaced).
Reads(a, tool, old, new) ==
  /\ Free(a) /\ Spend("edits")
  /\ old # new /\ old \subseteq paper
  /\ jobs' = [jobs EXCEPT ![a] = [tool |-> tool, old |-> old, new |-> new, read |-> paper]]
  /\ UNCHANGED <<thread, agents, paper>>

\* edit_note replaces a text that occurs; the others also add and delete.
EditNote(a, p, q) == Reads(a, "edit_note", {p}, {q})
EditPart(a, p, q) == Reads(a, "part", {p}, {q})
AddPart(a, q) == Reads(a, "part", {}, {q})
DeletePart(a, p) == Reads(a, "part", {p}, {})

\* Mutant: it does not.
RefusesNone(job) == FALSE

\* Only edit_note sends the etag of what it read.
Refuses(job) == job.tool = "edit_note" /\ job.read # paper

Writes(a) ==
  LET job == jobs[a]
  IN  /\ job # Nobody /\ jobs' = [jobs EXCEPT ![a] = Nobody]
      /\ paper' = IF Refuses(job) THEN paper ELSE (job.read \ job.old) \cup job.new
      /\ UNCHANGED <<thread, agents, plan>>

\* write_note: the whole note, read or not.
WriteNote(a, q) ==
  /\ Free(a) /\ Spend("edits")
  /\ paper' = {q}
  /\ UNCHANGED <<thread, agents, jobs>>

AgentNext ==
  \/ \E a \in Agent :
       \/ ReadChat(a) \/ WaitChat(a) \/ WaitPolls(a) \/ WaitFails(a) \/ Writes(a)
       \/ \E to \in {{}, Agent} : PostChat(a, to)
       \/ \E q \in Piece : AddPart(a, q) \/ DeletePart(a, q) \/ WriteNote(a, q)
       \/ \E p, q \in Piece : EditNote(a, p, q) \/ EditPart(a, p, q)
  \/ \E to \in {{}, Agent} : PersonPosts(to)
  \/ \E q \in Piece : Appends(q)

-----------------------------------------------------------------------------
(* Properties                                                              *)

\* An agent that goes on from the number a wait gave it misses no message of
\* others that it waits for.
WaitGapless ==
  \A a \in Agent : \A n \in 1 .. agents[a].after :
    \/ thread[n].by = a \/ n \in agents[a].got
    \/ a \in Picky /\ a \notin thread[n].to

\* An edit removes the text it was asked to replace, and nothing that was
\* written since it read the note.
EditKeeps ==
  [][\A a \in Agent : (jobs[a].tool = "edit_note" /\ jobs'[a] = Nobody)
                        => paper \ jobs[a].old \subseteq paper']_agentVars
=============================================================================
