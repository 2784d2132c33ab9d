---------------------------- MODULE WebApp_proofs ----------------------------
(***************************************************************************)
(* Proofs about the agents' tools, the pages of a chat, signing in, what a *)
(* tab knows of the tokens and the themes, and the pages a namespace is    *)
(* arranged on, for any agents, chats, people, plans and numbers.  A step  *)
(* of another part leaves a part alone (AgentSteps, ChatSteps, SignSteps,  *)
(* ServerSteps, AdminSteps), so what a part's own steps preserve holds of  *)
(* the whole.                                                              *)
(***************************************************************************)
EXTENDS WebApp, FiniteSetTheorems, SequenceTheorems, TLAPS

-----------------------------------------------------------------------------
(* Steps.                                                                  *)

LEMMA AgentSteps == ASSUME [Next]_vars PROVE AgentNext \/ UNCHANGED agentVars
  BY DEF Next, PageNext, ToolNext, RestNext, vars, toolVars

LEMMA ChatSteps == ASSUME [Next]_vars PROVE ChatNext \/ UNCHANGED chatVars
  BY DEF Next, PageNext, ToolNext, RestNext, vars, pageVars

-----------------------------------------------------------------------------
(* The agents' note.                                                       *)

JobsInv == DOMAIN jobs = Agent

LEMMA JobsStart == Init => JobsInv
  BY DEF Init, AgentInit, JobsInv

LEMMA JobsStep == ASSUME JobsInv, [Next]_vars PROVE JobsInv'
  <1>1. CASE AgentNext
    BY <1>1 DEF AgentNext, JobsInv, ReadChat, WaitChat, WaitPolls, WaitFails, Writes, PostChat,
                AddPart, DeletePart, WriteNote, EditNote, EditPart, Reads, PersonPosts, Appends
  <1>2. CASE UNCHANGED agentVars
    BY <1>2 DEF agentVars, JobsInv
  <1> QED BY <1>1, <1>2, AgentSteps

\* edit_note's write: refused when the note has changed since it was read.
LEMMA EditStep ==
  ASSUME JobsInv, AgentNext, NEW a \in Agent, jobs[a].tool = "edit_note", jobs'[a] = Nobody
  PROVE  paper \ jobs[a].old \subseteq paper'
  <1>1. jobs'[a] # jobs[a]
    BY DEF Nobody
  <1>2. ASSUME NEW b \in Agent, Writes(b) PROVE paper \ jobs[a].old \subseteq paper'
    <2>1. b = a
      BY <1>1, <1>2 DEF Writes, JobsInv
    <2> QED BY <1>2, <2>1 DEF Writes, Refuses
  <1>3. ASSUME NEW b \in Agent, NEW tool \in {"edit_note", "part"}, NEW old, NEW new, Reads(b, tool, old, new)
        PROVE  FALSE
    BY <1>1, <1>3 DEF Reads, JobsInv, Nobody
  <1> QED
    BY <1>1, <1>2, <1>3
      DEF AgentNext, ReadChat, WaitChat, WaitPolls, WaitFails, PostChat,
          AddPart, DeletePart, WriteNote, EditNote, EditPart, PersonPosts, Appends

\* EditKeeps for any number of agents and pieces (mcp-server/index.js, edit_note): an
\* edit never removes what was written since it read the note.
THEOREM EditsKeep == Spec => EditKeeps
  <1>1. Init => JobsInv
    BY JobsStart
  <1>2. JobsInv /\ [Next]_vars => JobsInv'
    BY JobsStep
  <1>3. JobsInv /\ [Next]_vars
          => [\A a \in Agent : (jobs[a].tool = "edit_note" /\ jobs'[a] = Nobody)
                                 => paper \ jobs[a].old \subseteq paper']_agentVars
    BY AgentSteps, EditStep
  <1> QED BY <1>1, <1>2, <1>3, PTL DEF Spec, EditKeeps

-----------------------------------------------------------------------------
(* The agents' chat.                                                       *)

Message == [by : Agent \cup {None}, to : SUBSET Agent]
Waiting == [after : Nat, got : SUBSET Nat, wait : BOOLEAN]

WaitInv ==
  /\ thread \in Seq(Message)
  /\ agents \in [Agent -> Waiting]
  /\ \A a \in Agent : agents[a].after <= Len(thread)
  /\ WaitGapless

LEMMA WaitStart == Init => WaitInv
  BY DEF Init, AgentInit, WaitInv, WaitGapless, Waiting

\* A message more leaves the others where they are, and nobody's number changes.
LEMMA MessageMore ==
  ASSUME WaitInv, NEW m \in Message, thread' = Append(thread, m),
         agents' \in [Agent -> Waiting],
         \A a \in Agent : agents'[a].after = agents[a].after /\ agents[a].got \subseteq agents'[a].got
  PROVE  WaitInv'
  <1>1. /\ thread' \in Seq(Message) /\ Len(thread') = Len(thread) + 1
        /\ \A n \in 1 .. Len(thread) : thread'[n] = thread[n]
    BY DEF WaitInv
  <1>2. \A a \in Agent : agents[a].after \in Nat /\ agents'[a].after = agents[a].after
    BY DEF WaitInv, Waiting
  <1>3. ASSUME NEW a \in Agent PROVE agents'[a].after <= Len(thread')
    BY <1>1, <1>2 DEF WaitInv
  <1>4. WaitGapless'
    BY <1>1, <1>2 DEF WaitInv, WaitGapless
  <1> QED BY <1>1, <1>3, <1>4 DEF WaitInv

\* An agent is given S and goes on from k, which skips nothing that S leaves out.
LEMMA GivenIs ==
  ASSUME agents \in [Agent -> Waiting], NEW a \in Agent, NEW S \in SUBSET Nat, NEW k \in Nat, Given(a, S, k)
  PROVE  /\ agents' \in [Agent -> Waiting]
         /\ agents'[a].after = k /\ agents'[a].got = agents[a].got \cup S
         /\ \A b \in Agent \ {a} : agents'[b] = agents[b]
  <1>1. agents[a] \in Waiting
    OBVIOUS
  <1> DEFINE new == [[[agents[a] EXCEPT !.got = @ \cup S] EXCEPT !.after = k] EXCEPT !.wait = FALSE]
  <1>2. new \in Waiting /\ new.after = k /\ new.got = agents[a].got \cup S
    BY <1>1 DEF Waiting
  <1>3. agents' = [agents EXCEPT ![a] = new]
    BY DEF Given
  <1> QED BY <1>2, <1>3

LEMMA GivenInv ==
  ASSUME WaitInv, UNCHANGED thread, NEW a \in Agent, NEW S \in SUBSET Nat,
         NEW k \in agents[a].after .. Len(thread), Given(a, S, k),
         \A n \in agents[a].after + 1 .. k :
            thread[n].by = a \/ n \in S \/ (a \in Picky /\ a \notin thread[n].to)
  PROVE  WaitInv'
  <1>1. /\ agents' \in [Agent -> Waiting]
        /\ agents'[a].after = k /\ agents'[a].got = agents[a].got \cup S
        /\ \A b \in Agent \ {a} : agents'[b] = agents[b]
    <2>1. k \in Nat
      BY DEF WaitInv, Waiting
    <2> QED BY <2>1, GivenIs DEF WaitInv
  <1>2. ASSUME NEW b \in Agent PROVE agents'[b].after <= Len(thread')
    BY <1>1 DEF WaitInv, Waiting
  <1>3. WaitGapless'
    <2> SUFFICES ASSUME NEW b \in Agent, NEW n \in 1 .. agents'[b].after
                 PROVE  \/ thread[n].by = b \/ n \in agents'[b].got
                        \/ b \in Picky /\ b \notin thread[n].to
      BY DEF WaitGapless
    <2>1. CASE b # a
      BY <2>1, <1>1 DEF WaitInv, WaitGapless
    <2>2. CASE b = a /\ n <= agents[a].after
      BY <2>2, <1>1 DEF WaitInv, WaitGapless, Waiting
    <2>3. CASE b = a /\ n > agents[a].after
      BY <2>3, <1>1 DEF WaitInv, Waiting
    <2> QED BY <1>1, <2>1, <2>2, <2>3 DEF WaitInv, Waiting
  <1> QED BY <1>1, <1>2, <1>3 DEF WaitInv

LEMMA WaitStep == ASSUME WaitInv, [Next]_vars PROVE WaitInv'
  <1>1. CASE UNCHANGED agentVars
    BY <1>1 DEF agentVars, WaitInv, WaitGapless
  <1>2. ASSUME NEW a \in Agent, ReadChat(a) PROVE WaitInv'
    <2>1. NewFor(a, agents[a].after) \in SUBSET Nat
      BY DEF NewFor
    <2>2. Len(thread) \in agents[a].after .. Len(thread)
      BY DEF WaitInv, Waiting
    <2>3. \A n \in agents[a].after + 1 .. Len(thread) : thread[n].by = a \/ n \in NewFor(a, agents[a].after)
      BY DEF WaitInv, Waiting, NewFor
    <2> QED BY <1>2, <2>1, <2>2, <2>3, GivenInv DEF ReadChat
  <1>3. ASSUME NEW a \in Agent, WaitPolls(a) PROVE WaitInv'
    <2>1. Wakes(a) \in SUBSET Nat
      BY DEF Wakes, NewFor, Addressed
    <2>2. \A n \in agents[a].after + 1 .. Len(thread) :
            thread[n].by = a \/ n \in Wakes(a) \/ (a \in Picky /\ a \notin thread[n].to)
      BY DEF WaitInv, Waiting, Wakes, NewFor, Addressed
    <2>3. /\ agents[a].after \in agents[a].after .. Len(thread)
          /\ Len(thread) \in agents[a].after .. Len(thread)
      BY DEF WaitInv, Waiting
    <2>4. CASE Wakes(a) # {}
      BY <1>3, <2>1, <2>2, <2>3, <2>4, GivenInv DEF WaitPolls
    <2>5. CASE Wakes(a) = {}
      <3>1. PICK k \in {agents[a].after, Len(thread)} : Given(a, {}, k)
        BY <1>3, <2>5 DEF WaitPolls
      <3>2. \A n \in agents[a].after + 1 .. k :
              thread[n].by = a \/ n \in {} \/ (a \in Picky /\ a \notin thread[n].to)
        BY <2>2, <2>5 DEF WaitInv, Waiting
      <3>3. k \in agents[a].after .. Len(thread) /\ UNCHANGED thread
        BY <1>3, <2>3 DEF WaitPolls
      <3> QED BY <3>1, <3>2, <3>3, GivenInv
    <2> QED BY <2>4, <2>5
  <1>4. ASSUME NEW a \in Agent, WaitFails(a) PROVE WaitInv'
    <2>1. agents[a].after \in agents[a].after .. Len(thread)
      BY DEF WaitInv, Waiting
    <2>2. \A n \in agents[a].after + 1 .. agents[a].after : FALSE
      BY DEF WaitInv, Waiting
    <2> QED BY <1>4, <2>1, <2>2, GivenInv DEF WaitFails
  <1>5. ASSUME NEW a \in Agent, NEW to \in {{}, Agent}, PostChat(a, to) PROVE WaitInv'
    <2>1. /\ agents' \in [Agent -> Waiting]
          /\ \A b \in Agent : agents'[b].after = agents[b].after /\ agents[b].got \subseteq agents'[b].got
      <3>1. agents[a].after \in Nat /\ {} \in SUBSET Nat /\ agents \in [Agent -> Waiting]
        BY DEF WaitInv, Waiting
      <3>2. Given(a, {}, agents[a].after)
        BY <1>5 DEF PostChat, AfterPost
      <3> QED BY <3>1, <3>2, GivenIs
    <2> QED BY <1>5, <2>1, MessageMore DEF PostChat, Message
  <1>6. ASSUME NEW to \in {{}, Agent}, PersonPosts(to) PROVE WaitInv'
    BY <1>6, MessageMore DEF PersonPosts, Message, WaitInv
  <1>7. ASSUME NEW a \in Agent, WaitChat(a) PROVE WaitInv'
    <2>1. agents[a] \in Waiting
      BY DEF WaitInv
    <2>2. [agents[a] EXCEPT !.wait = TRUE] \in Waiting
      BY <2>1 DEF Waiting
    <2>3. /\ agents' \in [Agent -> Waiting]
          /\ \A b \in Agent : agents'[b].after = agents[b].after /\ agents'[b].got = agents[b].got
      BY <1>7, <2>1, <2>2 DEF WaitChat, WaitInv, Waiting
    <2> QED BY <1>7, <2>3 DEF WaitChat, WaitInv, WaitGapless
  <1>8. CASE UNCHANGED <<thread, agents>>
    BY <1>8 DEF WaitInv, WaitGapless
  <1>9. CASE AgentNext
    BY <1>9, <1>2, <1>3, <1>4, <1>5, <1>6, <1>7, <1>8
      DEF AgentNext, Writes, AddPart, DeletePart, WriteNote, EditNote, EditPart, Reads, Appends
  <1> QED BY <1>1, <1>9, AgentSteps

\* WaitGapless for any number of agents and messages (mcp-server/index.js, wait_chat and
\* read_chat): an agent that goes on from its number misses nothing it waits for.
THEOREM WaitsGapless == Spec => []WaitGapless
  <1>1. Init => WaitInv
    BY WaitStart
  <1>2. WaitInv /\ [Next]_vars => WaitInv'
    BY WaitStep
  <1>3. WaitInv => WaitGapless
    BY DEF WaitInv
  <1> QED BY <1>1, <1>2, <1>3, PTL DEF Spec

-----------------------------------------------------------------------------
(* The page of a chat.                                                     *)

IsChat(x) == \E S : x \in [log : Seq(S), open : BOOLEAN]
ChatTyped == chat = [c \in Chat |-> chat[c]] /\ \A c \in Chat : IsChat(chat[c])

IsRoom(r) ==
  r \in [id : Nat, chat : Chat, doc : BOOLEAN, shown : SUBSET Nat, count : Nat, draft : {r.draft},
         sending : BOOLEAN, gone : BOOLEAN, load : Nat]

CurrentLoad(l) == l.kind = "load" /\ l.of = room.id /\ l.load = room.load

\* A poll answers from a number up to which the room shows everything, and will when the
\* read under way is there.
PollFits(a) ==
  \E k \in Nat : /\ 1 .. k \subseteq room.shown /\ k <= Len(Said(room.chat))
                 /\ k + 1 .. a.got.count \subseteq a.got.new
                 /\ \A l \in asked : CurrentLoad(l) => k <= l.got.count

AskedInv(a) ==
  /\ a.kind \in {"load", "poll", "post"} /\ a.of \in Nat /\ a.chat \in Chat /\ a.load \in Nat
  /\ a.of <= room.id
  /\ a.of = room.id => a.chat = room.chat /\ a.load <= room.load
  /\ a.kind # "post" => a.got.count \in Nat /\ a.got.new \in SUBSET Nat /\ a.got.count <= Len(Said(a.chat))
  /\ a.kind = "load" => 1 .. a.got.count \subseteq a.got.new
  /\ a.kind = "post" => a.got.new \in SUBSET Nat
  /\ a.kind = "poll" /\ a.of = room.id => PollFits(a)

ChatInv ==
  /\ ChatTyped
  /\ room = None => asked = {}
  /\ room # None => /\ IsRoom(room) /\ room.count <= Len(Said(room.chat))
                    /\ 1 .. room.count \subseteq room.shown
                    /\ \A a \in asked : AskedInv(a)

LEMMA LogMore ==
  ASSUME NEW x, IsChat(x), NEW m, NEW y, y = [x EXCEPT !.log = Append(@, m)]
  PROVE  IsChat(y) /\ Len(x.log) \in Nat /\ Len(y.log) = Len(x.log) + 1
  <1>1. PICK S : x \in [log : Seq(S), open : BOOLEAN]
    BY DEF IsChat
  <1>2. x.log \in Seq(S \cup {m})
    BY <1>1
  <1>3. Append(x.log, m) \in Seq(S \cup {m}) /\ Len(Append(x.log, m)) = Len(x.log) + 1
    BY <1>2
  <1>4. y \in [log : Seq(S \cup {m}), open : BOOLEAN] /\ y.log = Append(x.log, m)
    BY <1>1, <1>3
  <1> QED BY <1>1, <1>3, <1>4 DEF IsChat

LEMMA LogLen == ASSUME ChatTyped, NEW c \in Chat PROVE Len(Said(c)) \in Nat
  BY DEF ChatTyped, IsChat, Said

\* Chats only grow.
Grown == ChatTyped' /\ \A c \in Chat : Len(Said(c)) <= Len(Said(c))'

LEMMA ChatSame == ASSUME ChatTyped, chat' = chat PROVE Grown
  BY LogLen DEF Grown, ChatTyped, Said

LEMMA ChatPosted ==
  ASSUME ChatTyped, NEW c \in Chat, NEW m, chat' = [chat EXCEPT ![c].log = Append(@, m)]
  PROVE  Grown
  <1>1. PICK new : new = [chat[c] EXCEPT !.log = Append(@, m)] /\ chat' = [chat EXCEPT ![c] = new]
    OBVIOUS
  <1>2. DOMAIN chat = Chat
    BY DEF ChatTyped
  <1>3. IsChat(chat'[c]) /\ Len(chat[c].log) <= Len(chat'[c].log)
    <2>1. IsChat(chat[c]) /\ chat'[c] = [chat[c] EXCEPT !.log = Append(@, m)]
      BY <1>1, <1>2 DEF ChatTyped
    <2>2. IsChat(chat'[c]) /\ Len(chat[c].log) \in Nat /\ Len(chat'[c].log) = Len(chat[c].log) + 1
      BY <2>1, LogMore
    <2> QED BY <2>2
  <1>4. ASSUME NEW d \in Chat PROVE IsChat(chat'[d]) /\ Len(Said(d)) <= Len(Said(d))'
    BY <1>1, <1>2, <1>3, LogLen DEF ChatTyped, Said
  <1>5. chat' = [d \in Chat |-> chat'[d]]
    BY <1>1, <1>2
  <1> QED BY <1>4, <1>5 DEF Grown, ChatTyped

LEMMA ChatStart == Init => ChatInv
  <1> SUFFICES ASSUME Init PROVE ChatInv
    OBVIOUS
  <1>1. \A c \in Chat : chat[c] \in [log : Seq({}), open : BOOLEAN]
    BY DEF Init, ChatInit
  <1> QED BY <1>1 DEF Init, ChatInit, ChatInv, ChatTyped, IsChat

\* The room keeps what it is and shows more; what was asked is answered, or a post is new.
RoomMore ==
  /\ room # None /\ room' # None /\ IsRoom(room')
  /\ room'.id = room.id /\ room'.chat = room.chat /\ room'.load = room.load
  /\ room.shown \subseteq room'.shown
  /\ 1 .. room'.count \subseteq room'.shown /\ room'.count <= Len(Said(room.chat))'

LEMMA ChatKept ==
  ASSUME ChatInv, Grown, RoomMore,
         \A a \in asked' : a \in asked \/ (a.kind = "post" /\ AskedInv(a)')
  PROVE  ChatInv'
  <1> USE DEF ChatInv, RoomMore, Grown
  <1>1. room.chat \in Chat /\ room.id \in Nat
    BY DEF IsRoom
  <1>2. ASSUME NEW a \in asked', a \in asked PROVE AskedInv(a)'
    <2>1. AskedInv(a)
      BY <1>2
    <2>2. a.chat \in Chat /\ Len(Said(a.chat)) \in Nat /\ Len(Said(a.chat))' \in Nat
          /\ Len(Said(a.chat)) <= Len(Said(a.chat))'
      BY <2>1, LogLen DEF AskedInv
    <2>3. ASSUME a.kind = "poll", a.of = room.id PROVE PollFits(a)'
      <3>1. PICK k \in Nat : /\ 1 .. k \subseteq room.shown /\ k <= Len(Said(room.chat))
                             /\ k + 1 .. a.got.count \subseteq a.got.new
                             /\ \A l \in asked : CurrentLoad(l) => k <= l.got.count
        BY <2>1, <2>3 DEF AskedInv, PollFits
      <3>2. k <= Len(Said(room.chat))'
        BY <3>1, <1>1, LogLen
      <3>3. ASSUME NEW l \in asked', CurrentLoad(l)' PROVE k <= l.got.count
        BY <3>1, <3>3 DEF CurrentLoad
      <3> QED BY <3>1, <3>2, <3>3 DEF PollFits
    <2>4. a.kind # "post" => a.got.count <= Len(Said(a.chat))'
      BY <2>1, <2>2 DEF AskedInv
    <2> QED BY <2>1, <2>3, <2>4 DEF AskedInv
  <1>3. (room.count <= Len(Said(room.chat)))'
    BY DEF Said
  <1> QED BY <1>2, <1>3

\* None is not a room: a room has an id.
NoRoom == "id" \notin DOMAIN None

LEMMA OpenRoomInv ==
  ASSUME NoRoom, ChatInv, NEW c \in Chat, OpenRoom(c) PROVE ChatInv'
  <1>0. PICK r, new :
          /\ r = [id |-> IF room = None THEN 1 ELSE room.id + 1, chat |-> c, doc |-> FALSE,
                   shown |-> {}, count |-> 0, draft |-> drafts[c], sending |-> FALSE,
                   gone |-> FALSE, load |-> 1]
          /\ new = Ask("load", r, Read(c, 0))
    OBVIOUS
  <1>1. room' = r /\ asked' = asked \cup {new} /\ chat' = chat
    BY <1>0 DEF OpenRoom
  <1>2. r.id \in Nat /\ (room # None => r.id > room.id)
    BY <1>0 DEF ChatInv, IsRoom
  <1>3. IsRoom(r) /\ r # None
    BY <1>0, <1>2 DEF IsRoom, NoRoom
  <1>4. Len(Said(c)) \in Nat /\ Said(c)' = Said(c)
    BY <1>1, LogLen DEF ChatInv, Said
  <1>5. AskedInv(new)'
    <2>1. /\ new.kind = "load" /\ new.of = r.id /\ new.chat = c /\ new.load = 1
          /\ new.got.count = Len(Said(c)) /\ new.got.new = {n \in 1 .. Len(Said(c)) : n > 0}
      BY <1>0 DEF Ask, Read, After
    <2>2. /\ new.got.count \in Nat /\ new.got.new \in SUBSET Nat /\ 1 .. new.got.count \subseteq new.got.new
          /\ new.got.count <= Len(Said(c))
      BY <1>4, <2>1
    <2>3. r.chat = c /\ r.load = 1
      BY <1>0
    <2>4. (new.got.count <= Len(Said(new.chat)))'
      BY <1>4, <2>1, <2>2 DEF Said
    <2> QED BY <1>1, <1>2, <2>1, <2>2, <2>3, <2>4 DEF AskedInv
  <1>6. ASSUME NEW a \in asked PROVE AskedInv(a)'
    <2>1. AskedInv(a) /\ room # None
      BY DEF ChatInv
    <2>2. a.of < r.id /\ a.of \in Nat
      BY <2>1, <1>2 DEF AskedInv, ChatInv, IsRoom
    <2> QED BY <1>1, <1>2, <2>1, <2>2 DEF AskedInv, Said
  <1>7. ChatTyped'
    BY <1>1 DEF ChatInv, ChatTyped
  <1>8. (room.count <= Len(Said(room.chat)))' /\ (1 .. room.count \subseteq room.shown)'
    BY <1>0, <1>1, <1>4
  <1> QED BY <1>1, <1>3, <1>5, <1>6, <1>7, <1>8 DEF ChatInv

LEMMA RefreshInv ==
  ASSUME NoRoom, ChatInv, Refresh PROVE ChatInv'
  <1>0. PICK r, new : r = [room EXCEPT !.count = 0, !.load = @ + 1] /\ new = Ask("load", r, Read(r.chat, 0))
    OBVIOUS
  <1>1. room # None /\ room' = r /\ asked' = asked \cup {new} /\ chat' = chat
    BY <1>0 DEF Refresh
  <1>2. IsRoom(room)
    BY <1>1 DEF ChatInv
  <1>3. /\ IsRoom(r) /\ r # None
        /\ r.id = room.id /\ r.chat = room.chat /\ r.shown = room.shown
        /\ r.count = 0 /\ r.load = room.load + 1
    <2>1. room.load + 1 \in Nat
      BY <1>2 DEF IsRoom
    <2>2. /\ r \in [id : Nat, chat : Chat, doc : BOOLEAN, shown : SUBSET Nat, count : Nat,
                    draft : {room.draft}, sending : BOOLEAN, gone : BOOLEAN, load : Nat]
          /\ r.id = room.id /\ r.chat = room.chat /\ r.shown = room.shown
          /\ r.count = 0 /\ r.load = room.load + 1 /\ r.draft = room.draft
      BY <1>0, <1>2, <2>1 DEF IsRoom
    <2> QED BY <2>2 DEF IsRoom, NoRoom
  <1>4. room.chat \in Chat /\ room.load \in Nat /\ room.id \in Nat
    BY <1>2 DEF IsRoom
  <1>5. Len(Said(room.chat)) \in Nat /\ \A c \in Chat : Said(c)' = Said(c)
    BY <1>1, <1>4, LogLen DEF ChatInv, Said
  <1>6. /\ new.kind = "load" /\ new.of = room.id /\ new.chat = room.chat /\ new.load = room.load + 1
        /\ new.got.count = Len(Said(room.chat)) /\ new.got.new = {n \in 1 .. Len(Said(room.chat)) : n > 0}
    BY <1>0, <1>3 DEF Ask, Read, After
  <1>7. AskedInv(new)'
    BY <1>1, <1>3, <1>4, <1>5, <1>6 DEF AskedInv
  <1>8. ASSUME NEW a \in asked PROVE AskedInv(a)'
    <2>1. AskedInv(a)
      BY <1>1 DEF ChatInv
    <2>2. ASSUME NEW l \in asked', CurrentLoad(l)' PROVE l = new
      BY <1>1, <1>3, <1>4, <2>2 DEF CurrentLoad, ChatInv, AskedInv
    <2>3. ASSUME a.kind = "poll", a.of = room.id PROVE PollFits(a)'
      <3>1. PICK k \in Nat : /\ 1 .. k \subseteq room.shown /\ k <= Len(Said(room.chat))
                             /\ k + 1 .. a.got.count \subseteq a.got.new
        BY <2>1, <2>3 DEF AskedInv, PollFits
      <3> QED BY <1>1, <1>3, <1>4, <1>5, <1>6, <2>2, <3>1 DEF PollFits
    <2> QED BY <1>1, <1>3, <1>4, <1>5, <2>1, <2>3 DEF AskedInv
  <1>9. ChatTyped'
    BY <1>1 DEF ChatInv, ChatTyped
  <1>10. (room.count <= Len(Said(room.chat)))' /\ (1 .. room.count \subseteq room.shown)'
    BY <1>1, <1>3, <1>4, <1>5
  <1> QED BY <1>1, <1>3, <1>7, <1>8, <1>9, <1>10 DEF ChatInv

\* Nothing changes on screen, and nothing is asked.
LEMMA RoomSame ==
  ASSUME ChatInv, Grown, room' = room, asked' \subseteq asked PROVE ChatInv'
  <1>1. CASE room = None
    BY <1>1 DEF ChatInv, Grown
  <1>2. CASE room # None
    <2>1. room.chat \in Chat /\ room.count \in Nat
      BY <1>2 DEF ChatInv, IsRoom
    <2>2. /\ Len(Said(room.chat)) \in Nat /\ Len(Said(room.chat))' \in Nat
          /\ Len(Said(room.chat)) <= Len(Said(room.chat))'
      BY <2>1, LogLen DEF ChatInv, Grown
    <2>3. room.count <= Len(Said(room.chat))'
      BY <1>2, <2>1, <2>2 DEF ChatInv
    <2>4. RoomMore
      BY <1>2, <2>3 DEF ChatInv, RoomMore
    <2> QED BY <2>4, ChatKept
  <1> QED BY <1>1, <1>2

\* The log of the room's chat, before and after.
LEMMA RoomLog ==
  ASSUME ChatInv, Grown, room # None, room'.chat = room.chat
  PROVE  /\ IsRoom(room) /\ room.chat \in Chat
         /\ Len(Said(room.chat)) \in Nat /\ Len(Said(room.chat))' \in Nat
         /\ Len(Said(room.chat)) <= Len(Said(room.chat))'
  <1>1. IsRoom(room) /\ room.chat \in Chat
    BY DEF ChatInv, IsRoom
  <1> QED BY <1>1, LogLen DEF ChatInv, Grown, Said

\* A field of a room set: what else it is stays.
LEMMA RoomSet ==
  ASSUME NoRoom, IsRoom(room), NEW sh \in SUBSET Nat, NEW k \in Nat, NEW d \in BOOLEAN,
         NEW g \in BOOLEAN, NEW s \in BOOLEAN, NEW w, NEW r,
         r = [room EXCEPT !.shown = sh, !.count = k, !.doc = d, !.gone = g, !.sending = s, !.draft = w]
  PROVE  /\ IsRoom(r) /\ r # None /\ r.id = room.id /\ r.chat = room.chat /\ r.load = room.load
         /\ r.shown = sh /\ r.count = k /\ r.draft = w
  <1>1. r \in [id : Nat, chat : Chat, doc : BOOLEAN, shown : SUBSET Nat, count : Nat,
              draft : {w}, sending : BOOLEAN, gone : BOOLEAN, load : Nat]
    BY DEF IsRoom
  <1>2. /\ r.id = room.id /\ r.chat = room.chat /\ r.load = room.load
        /\ r.shown = sh /\ r.count = k /\ r.draft = w
    BY DEF IsRoom
  <1> QED BY <1>1, <1>2 DEF IsRoom, NoRoom

\* Something else about the room changes than what it shows and counts.
LEMMA RoomAside ==
  ASSUME NoRoom, ChatInv, Grown, room # None, NEW d \in BOOLEAN, NEW g \in BOOLEAN, NEW s \in BOOLEAN, NEW w,
         room' = [room EXCEPT !.doc = d, !.gone = g, !.sending = s, !.draft = w]
  PROVE  RoomMore
  <1>1. IsRoom(room) /\ room.shown \in SUBSET Nat /\ room.count \in Nat
    BY DEF ChatInv, IsRoom
  <1>2. PICK r : r = room' /\ r = [room EXCEPT !.doc = d, !.gone = g, !.sending = s, !.draft = w]
    OBVIOUS
  <1>3. /\ IsRoom(r) /\ r # None /\ r.id = room.id /\ r.chat = room.chat
        /\ r.load = room.load /\ r.shown = room.shown /\ r.count = room.count
    <2>1. r \in [id : Nat, chat : Chat, doc : BOOLEAN, shown : SUBSET Nat, count : Nat,
                draft : {w}, sending : BOOLEAN, gone : BOOLEAN, load : Nat]
      BY <1>1, <1>2 DEF IsRoom
    <2>2. /\ r.id = room.id /\ r.chat = room.chat /\ r.load = room.load
          /\ r.shown = room.shown /\ r.count = room.count /\ r.draft = w
      BY <1>1, <1>2 DEF IsRoom
    <2> QED BY <2>1, <2>2 DEF IsRoom, NoRoom
  <1>4. room.count <= Len(Said(room.chat))'
    BY <1>1, <1>2, <1>3, RoomLog DEF ChatInv
  <1> QED BY <1>2, <1>3, <1>4 DEF RoomMore, ChatInv

LEMMA PollInv == ASSUME ~Hurried, ChatInv, Poll PROVE ChatInv'
  <1>0. PICK new : new = Ask("poll", room, Read(room.chat, room.count))
    OBVIOUS
  <1>1. /\ room # None /\ ~Loading /\ room' = room /\ chat' = chat
        /\ asked' = asked \cup {new}
    BY <1>0 DEF Poll, InRoom
  <1>2. Grown
    BY <1>1, ChatSame DEF ChatInv
  <1>3. IsRoom(room) /\ room.chat \in Chat /\ room.id \in Nat /\ room.load \in Nat /\ room.count \in Nat
    BY <1>1 DEF ChatInv, IsRoom
  <1>4. Len(Said(room.chat)) \in Nat /\ \A c \in Chat : Said(c)' = Said(c)
    BY <1>1, <1>3, LogLen DEF ChatInv, Said
  <1>5. /\ new.kind = "poll" /\ new.of = room.id /\ new.chat = room.chat /\ new.load = room.load
        /\ new.got.count = Len(Said(room.chat))
        /\ new.got.new = {n \in 1 .. Len(Said(room.chat)) : n > room.count}
    BY <1>0 DEF Ask, Read, After
  <1>6. \A l \in asked' : ~CurrentLoad(l)
    BY <1>1, <1>5 DEF Loading, CurrentLoad, Here
  <1>7. AskedInv(new)'
    <2>1. PollFits(new)'
      <3>1. room.count + 1 .. Len(Said(room.chat)) \subseteq {n \in 1 .. Len(Said(room.chat)) : n > room.count}
        BY <1>3, <1>4
      <3>2. /\ room.count \in Nat /\ 1 .. room.count \subseteq room.shown
            /\ room.count <= Len(Said(room.chat))
        BY <1>1, <1>3 DEF ChatInv
      <3> QED BY <1>1, <1>3, <1>4, <1>5, <1>6, <3>1, <3>2 DEF PollFits, CurrentLoad
    <2> QED BY <1>1, <1>3, <1>4, <1>5, <2>1 DEF AskedInv
  <1>8. ASSUME NEW a \in asked PROVE AskedInv(a)'
    <2>1. AskedInv(a)
      BY <1>1 DEF ChatInv
    <2>2. ASSUME a.kind = "poll", a.of = room.id PROVE PollFits(a)'
      <3>1. PICK k \in Nat : /\ 1 .. k \subseteq room.shown /\ k <= Len(Said(room.chat))
                             /\ k + 1 .. a.got.count \subseteq a.got.new
        BY <2>1, <2>2 DEF AskedInv, PollFits
      <3> QED BY <1>1, <1>3, <1>4, <1>6, <3>1 DEF PollFits, CurrentLoad
    <2> QED BY <1>1, <1>4, <2>1, <2>2 DEF AskedInv
  <1>9. (room.count <= Len(Said(room.chat)))' /\ (1 .. room.count \subseteq room.shown)'
    BY <1>1, <1>3, <1>4 DEF ChatInv
  <1> QED BY <1>1, <1>2, <1>3, <1>5, <1>7, <1>8, <1>9 DEF ChatInv, Grown

\* The read that is there takes the place of what was shown.
LEMMA LoadedInv ==
  ASSUME NoRoom, ChatInv, NEW a \in asked, a.kind = "load", CurrentLoad(a), room # None,
         chat' = chat, asked' = asked \ {a},
         room' = [room EXCEPT !.doc = TRUE, !.shown = a.got.new, !.count = a.got.count]
  PROVE  ChatInv'
  <1>1. IsRoom(room) /\ room.chat \in Chat /\ AskedInv(a)
    BY DEF ChatInv, IsRoom
  <1>2. /\ a.got.new \in SUBSET Nat /\ a.got.count \in Nat /\ 1 .. a.got.count \subseteq a.got.new
        /\ a.chat = room.chat /\ a.got.count <= Len(Said(room.chat))
    BY <1>1 DEF AskedInv, CurrentLoad
  <1>3. PICK r : r = room' /\ r = [room EXCEPT !.doc = TRUE, !.shown = a.got.new, !.count = a.got.count]
    OBVIOUS
  <1>4. /\ IsRoom(r) /\ r # None /\ r.id = room.id /\ r.chat = room.chat /\ r.load = room.load
        /\ r.shown = a.got.new /\ r.count = a.got.count
    <2>1. r \in [id : Nat, chat : Chat, doc : BOOLEAN, shown : SUBSET Nat, count : Nat,
                draft : {room.draft}, sending : BOOLEAN, gone : BOOLEAN, load : Nat]
      BY <1>1, <1>2, <1>3 DEF IsRoom
    <2>2. /\ r.id = room.id /\ r.chat = room.chat /\ r.load = room.load
          /\ r.shown = a.got.new /\ r.count = a.got.count /\ r.draft = room.draft
      BY <1>1, <1>2, <1>3 DEF IsRoom
    <2> QED BY <2>1, <2>2 DEF IsRoom, NoRoom
  <1>5. \A c \in Chat : Said(c)' = Said(c)
    BY DEF Said
  <1>6. ASSUME NEW b \in asked PROVE AskedInv(b)'
    <2>1. AskedInv(b)
      BY DEF ChatInv
    <2>2. ASSUME b.kind = "poll", b.of = room.id PROVE PollFits(b)'
      <3>1. PICK k \in Nat : /\ 1 .. k \subseteq room.shown /\ k <= Len(Said(room.chat))
                             /\ k + 1 .. b.got.count \subseteq b.got.new
                             /\ \A l \in asked : CurrentLoad(l) => k <= l.got.count
        BY <2>1, <2>2 DEF AskedInv, PollFits
      <3>2. 1 .. k \subseteq a.got.new
        BY <1>2, <3>1
      <3>3. ASSUME NEW l \in asked', CurrentLoad(l)' PROVE k <= l.got.count
        BY <1>3, <1>4, <3>1, <3>3 DEF CurrentLoad
      <3> QED BY <1>1, <1>3, <1>4, <1>5, <3>1, <3>2, <3>3 DEF PollFits
    <2> QED BY <1>1, <1>3, <1>4, <1>5, <2>1, <2>2 DEF AskedInv
  <1>7. (room.count <= Len(Said(room.chat)))' /\ (1 .. room.count \subseteq room.shown)'
    BY <1>1, <1>2, <1>3, <1>4, <1>5
  <1> QED BY <1>3, <1>4, <1>6, <1>7 DEF ChatInv, ChatTyped

LEMMA LoadInv == ASSUME NoRoom, ChatInv, NEW a \in asked, LoadAnswered(a) PROVE ChatInv'
  <1>1. a.kind = "load" /\ asked' = asked \ {a} /\ chat' = chat /\ room # None
    BY DEF LoadAnswered, ChatInv
  <1>2. Grown
    BY <1>1, ChatSame DEF ChatInv
  <1>3. CASE ~Here(a) \/ a.load # room.load
    BY <1>1, <1>2, <1>3, RoomSame DEF LoadAnswered
  <1>4. CASE Here(a) /\ a.load = room.load /\ ~a.got.ok
    <2>1. IsRoom(room) /\ room.doc \in BOOLEAN /\ room.sending \in BOOLEAN
      BY <1>1 DEF ChatInv, IsRoom
    <2>2. room' = [room EXCEPT !.gone = TRUE]
      BY <1>4 DEF LoadAnswered
    <2>3. room' = [room EXCEPT !.doc = room.doc, !.gone = TRUE, !.sending = room.sending, !.draft = room.draft]
      BY <2>1, <2>2 DEF IsRoom
    <2>4. RoomMore
      BY <1>1, <1>2, <2>1, <2>3, RoomAside
    <2> QED BY <1>1, <1>2, <2>4, ChatKept
  <1>5. CASE Here(a) /\ a.load = room.load /\ a.got.ok
    BY <1>1, <1>5, LoadedInv DEF LoadAnswered, Here, CurrentLoad
  <1> QED BY <1>3, <1>4, <1>5

LEMMA PollAnsweredInv == ASSUME NoRoom, ChatInv, NEW a \in asked, PollAnswered(a) PROVE ChatInv'
  <1>1. a.kind = "poll" /\ asked' = asked \ {a} /\ chat' = chat /\ room # None
    BY DEF PollAnswered, ChatInv
  <1>2. Grown
    BY <1>1, ChatSame DEF ChatInv
  <1>3. CASE ~Here(a)
    BY <1>1, <1>2, <1>3, RoomSame DEF PollAnswered
  <1>4. IsRoom(room) /\ AskedInv(a) /\ room.chat \in Chat /\ room.count \in Nat /\ room.shown \in SUBSET Nat
    BY <1>1 DEF ChatInv, IsRoom
  <1>5. CASE Here(a) /\ ~a.got.ok
    <2>1. room.doc \in BOOLEAN /\ room.sending \in BOOLEAN
      BY <1>4 DEF IsRoom
    <2>2. room' = [room EXCEPT !.gone = TRUE]
      BY <1>5 DEF PollAnswered, Merged
    <2>3. room' = [room EXCEPT !.doc = room.doc, !.gone = TRUE, !.sending = room.sending, !.draft = room.draft]
      BY <1>4, <2>2 DEF IsRoom
    <2>4. RoomMore
      BY <1>1, <1>2, <2>1, <2>3, RoomAside
    <2> QED BY <1>1, <1>2, <2>4, ChatKept
  <1>6. CASE Here(a) /\ a.got.ok
    <2>1. /\ a.got.new \in SUBSET Nat /\ a.got.count \in Nat /\ a.got.count <= Len(Said(room.chat))
          /\ PollFits(a)
      BY <1>1, <1>4, <1>6 DEF AskedInv, Here
    <2>2. PICK n, S : /\ n = (IF a.got.count > room.count THEN a.got.count ELSE room.count)
                      /\ S = room.shown \cup a.got.new
      OBVIOUS
    <2>3. n \in Nat /\ S \in SUBSET Nat /\ n <= Len(Said(room.chat)) /\ room.shown \subseteq S
      BY <1>1, <1>4, <2>1, <2>2 DEF ChatInv
    <2>4. 1 .. n \subseteq S
      <3>1. PICK k \in Nat : 1 .. k \subseteq room.shown /\ k + 1 .. a.got.count \subseteq a.got.new
        BY <2>1 DEF PollFits
      <3>2. 1 .. room.count \subseteq room.shown
        BY <1>1 DEF ChatInv
      <3> QED BY <1>4, <2>1, <2>2, <3>1, <3>2
    <2>5. PICK r : r = room' /\ r = [room EXCEPT !.shown = S, !.count = n]
      BY <1>6, <2>2 DEF PollAnswered, Merged
    <2>6. /\ IsRoom(r) /\ r # None /\ r.id = room.id /\ r.chat = room.chat /\ r.load = room.load
          /\ r.shown = S /\ r.count = n
      <3>1. r \in [id : Nat, chat : Chat, doc : BOOLEAN, shown : SUBSET Nat, count : Nat,
                  draft : {room.draft}, sending : BOOLEAN, gone : BOOLEAN, load : Nat]
        BY <1>4, <2>3, <2>5 DEF IsRoom
      <3>2. /\ r.id = room.id /\ r.chat = room.chat /\ r.load = room.load
            /\ r.shown = S /\ r.count = n /\ r.draft = room.draft
        BY <1>4, <2>3, <2>5 DEF IsRoom
      <3> QED BY <3>1, <3>2 DEF IsRoom, NoRoom
    <2>7. Said(room.chat)' = Said(room.chat)
      BY <1>1, <2>5, <2>6 DEF Said
    <2>8. RoomMore
      BY <1>1, <2>3, <2>4, <2>5, <2>6, <2>7 DEF RoomMore
    <2> QED BY <1>1, <1>2, <2>8, ChatKept
  <1> QED BY <1>3, <1>5, <1>6

LEMMA PostAnsweredInv == ASSUME NoRoom, ChatInv, NEW a \in asked, PostAnswered(a) PROVE ChatInv'
  <1>1. a.kind = "post" /\ asked' = asked \ {a} /\ chat' = chat /\ room # None
    BY DEF PostAnswered, ChatInv
  <1>2. Grown
    BY <1>1, ChatSame DEF ChatInv
  <1>3. CASE ~Here(a)
    BY <1>1, <1>2, <1>3, RoomSame DEF PostAnswered
  <1>4. /\ IsRoom(room) /\ AskedInv(a) /\ room.chat \in Chat /\ room.count \in Nat /\ room.shown \in SUBSET Nat
        /\ room.gone \in BOOLEAN
    BY <1>1 DEF ChatInv, IsRoom
  <1>5. CASE Here(a)
    <2>1. PICK S, g, w :
            /\ S = (IF a.got.ok THEN room.shown \cup a.got.new ELSE room.shown)
            /\ g = (IF a.got.ok THEN room.gone ELSE (room.gone \/ a.got.gone))
            /\ w = (IF a.got.ok THEN {} ELSE room.draft)
      OBVIOUS
    <2>2. S \in SUBSET Nat /\ room.shown \subseteq S
      BY <1>1, <1>4, <2>1 DEF AskedInv
    <2>3. g \in BOOLEAN
      BY <1>4, <2>1
    <2>4. PICK r : r = room' /\ r = [Posted(a, room) EXCEPT !.sending = FALSE]
      BY <1>5 DEF PostAnswered
    <2>5. /\ IsRoom(r) /\ r # None /\ r.id = room.id /\ r.chat = room.chat /\ r.load = room.load
          /\ r.shown = S /\ r.count = room.count
      <3>1. r \in [id : Nat, chat : Chat, doc : BOOLEAN, shown : SUBSET Nat, count : Nat,
                  draft : {w}, sending : BOOLEAN, gone : BOOLEAN, load : Nat]
        BY <1>4, <2>1, <2>2, <2>3, <2>4 DEF IsRoom, Posted
      <3>2. /\ r.id = room.id /\ r.chat = room.chat /\ r.load = room.load
            /\ r.shown = S /\ r.count = room.count /\ r.draft = w
        BY <1>4, <2>1, <2>2, <2>4 DEF IsRoom, Posted
      <3> QED BY <3>1, <3>2 DEF IsRoom, NoRoom
    <2>6. Said(room.chat)' = Said(room.chat)
      BY <1>1, <2>4, <2>5 DEF Said
    <2>7. RoomMore
      BY <1>1, <2>2, <2>4, <2>5, <2>6 DEF RoomMore, ChatInv
    <2> QED BY <1>1, <1>2, <2>7, ChatKept
  <1> QED BY <1>3, <1>5

LEMMA TypeInv == ASSUME NoRoom, ChatInv, NEW q, TypeWord(q) PROVE ChatInv'
  <1>1. /\ room # None /\ asked' = asked /\ chat' = chat
        /\ room' = [room EXCEPT !.draft = @ \cup {q}]
    BY DEF TypeWord, InRoom
  <1>2. Grown
    BY <1>1, ChatSame DEF ChatInv
  <1>3. IsRoom(room) /\ room.doc \in BOOLEAN /\ room.sending \in BOOLEAN /\ room.gone \in BOOLEAN
    BY <1>1 DEF ChatInv, IsRoom
  <1>4. PICK w : w = room.draft \cup {q}
    OBVIOUS
  <1>5. room' = [room EXCEPT !.draft = w]
    BY <1>1, <1>4
  <1>6. room' = [room EXCEPT !.doc = room.doc, !.gone = room.gone, !.sending = room.sending, !.draft = w]
    BY <1>3, <1>5 DEF IsRoom
  <1>7. RoomMore
    BY <1>1, <1>2, <1>3, <1>6, RoomAside
  <1> QED BY <1>1, <1>2, <1>7, ChatKept

LEMMA SendInv == ASSUME NoRoom, ChatInv, NEW fate \in Fates, Send(fate) PROVE ChatInv'
  <1>0. PICK got, new : /\ got = [ok |-> fate = "posted" /\ chat[room.chat].open, new |-> {Len(Said(room.chat)) + 1},
                                 gone |-> ~chat[room.chat].open]
                        /\ new = Ask("post", room, got)
    OBVIOUS
  <1>1. /\ room # None /\ asked' = asked \cup {new}
        /\ room' = [room EXCEPT !.sending = TRUE]
        /\ chat' = chat \/ chat' = [chat EXCEPT ![room.chat].log = Append(@, room.draft)]
    BY <1>0 DEF Send, InRoom
  <1>2. /\ IsRoom(room) /\ room.chat \in Chat /\ room.id \in Nat /\ room.load \in Nat
        /\ room.doc \in BOOLEAN /\ room.gone \in BOOLEAN
    BY <1>1 DEF ChatInv, IsRoom
  <1>3. Grown
    BY <1>1, <1>2, ChatSame, ChatPosted DEF ChatInv
  <1>4. room' = [room EXCEPT !.doc = room.doc, !.gone = room.gone, !.sending = TRUE, !.draft = room.draft]
    BY <1>1, <1>2 DEF IsRoom
  <1>5. RoomMore
    BY <1>1, <1>2, <1>3, <1>4, RoomAside
  <1>6. Len(Said(room.chat)) + 1 \in Nat
    BY <1>2, LogLen DEF ChatInv
  <1>7. /\ new.kind = "post" /\ new.of = room.id /\ new.chat = room.chat /\ new.load = room.load
        /\ new.got.new \in SUBSET Nat
    BY <1>0, <1>6 DEF Ask
  <1>8. AskedInv(new)'
    BY <1>2, <1>5, <1>7 DEF AskedInv, RoomMore
  <1> QED BY <1>1, <1>3, <1>5, <1>7, <1>8, ChatKept

LEMMA ChatStep == ASSUME NoRoom, ~Hurried, ChatInv, [Next]_vars PROVE ChatInv'
  <1>1. CASE UNCHANGED chatVars
    BY <1>1, ChatSame, RoomSame DEF chatVars, ChatInv
  <1>2. ASSUME NEW q, OtherPosts(q) PROVE ChatInv'
    <2>1. CASE q[1] \in Chat
      BY <1>2, <2>1, ChatPosted, RoomSame DEF OtherPosts, ChatInv
    <2>2. CASE q[1] \notin Chat
      BY <1>2, <2>2, ChatSame, RoomSame DEF OtherPosts, ChatInv, ChatTyped
    <2> QED BY <2>1, <2>2
  <1>3. ASSUME NEW c \in Chat, ChatLost(c) PROVE ChatInv'
    <2>1. chat' = [chat EXCEPT ![c] = [chat[c] EXCEPT !.open = FALSE]]
      BY <1>3 DEF ChatLost
    <2>2. PICK S : chat[c] \in [log : Seq(S), open : BOOLEAN]
      BY DEF ChatInv, ChatTyped, IsChat
    <2>3. chat'[c] \in [log : Seq(S), open : BOOLEAN] /\ chat'[c].log = chat[c].log
      BY <2>1, <2>2 DEF ChatInv, ChatTyped
    <2>4. ChatTyped' /\ \A d \in Chat : Said(d)' = Said(d)
      BY <2>1, <2>3 DEF ChatInv, ChatTyped, IsChat, Said
    <2>5. Grown
      BY <2>4, LogLen DEF ChatInv, Grown
    <2> QED BY <1>3, <2>5, RoomSame DEF ChatLost
  <1>4. CASE ChatNext
    BY <1>2, <1>3, <1>4, OpenRoomInv, RefreshInv, PollInv, LoadInv, PollAnsweredInv, PostAnsweredInv,
       TypeInv, SendInv DEF ChatNext
  <1> QED BY <1>1, <1>4, ChatSteps

\* ChatGapless for any number of chats, messages, polls and failures (ChatView.jsx and
\* chat.js): as long as no poll is sent while the chat is read again, what the page
\* counts as read is on its screen, in whatever order answers come.
THEOREM PollsGapless == ASSUME NoRoom, ~Hurried PROVE Spec => []ChatGapless
  <1>1. Init => ChatInv
    BY ChatStart
  <1>2. ChatInv /\ [Next]_vars => ChatInv'
    BY ChatStep
  <1>3. ChatInv => ChatGapless
    BY DEF ChatInv, ChatGapless
  <1> QED BY <1>1, <1>2, <1>3, PTL DEF Spec

-----------------------------------------------------------------------------
(* The words typed in a chat.                                              *)

WordTyped == DOMAIN drafts = Chat /\ \A q \in words : q[1] \in Chat

\* What is kept of the room's chat is on screen too or was posted.
DraftShown == room # None => \A q \in drafts[room.chat] : q \in room.draft \/ InLog(q, room.chat)

\* A post that will be answered well holds all that is kept of its chat.
PostHolds(a) ==
  (a.kind = "post" /\ a.got.ok) =>
     /\ \A q \in drafts[a.chat] : InLog(q, a.chat)
     /\ Here(a) => \A q \in room.draft : InLog(q, a.chat)

WordInv == WordTyped /\ WordsKept /\ DraftShown /\ \A a \in asked : PostHolds(a)

\* A message said stays.
Remembers == \A c \in Chat : \A q : InLog(q, c) => InLog(q, c)'

LEMMA SameRemembers == ASSUME chat' = chat PROVE Remembers
  BY DEF Remembers, InLog, Said

LEMMA OneMore ==
  ASSUME NEW S, NEW old \in Seq(S), NEW m
  PROVE  /\ \A n \in DOMAIN old : n \in DOMAIN Append(old, m) /\ Append(old, m)[n] = old[n]
         /\ \E n \in DOMAIN Append(old, m) : Append(old, m)[n] = m
  <1>1. PICK T : T = S \cup {m}
    OBVIOUS
  <1>2. old \in Seq(T) /\ m \in T
    BY <1>1
  <1>3. /\ Append(old, m) \in Seq(T) /\ Len(Append(old, m)) = Len(old) + 1
        /\ \A n \in 1 .. Len(old) : Append(old, m)[n] = old[n]
        /\ Append(old, m)[Len(old) + 1] = m
    BY <1>2, AppendProperties
  <1>4. Len(old) \in Nat /\ DOMAIN old = 1 .. Len(old)
    BY <1>2, LenProperties
  <1>5. DOMAIN Append(old, m) = 1 .. Len(old) + 1
    BY <1>3, LenProperties
  <1> QED BY <1>3, <1>4, <1>5

LEMMA MoreRemembers ==
  ASSUME ChatTyped, NEW c \in Chat, NEW m, chat' = [chat EXCEPT ![c].log = Append(@, m)]
  PROVE  Remembers /\ \A q \in m : InLog(q, c)'
  <1>1. PICK new : new = [chat[c] EXCEPT !.log = Append(@, m)] /\ chat' = [chat EXCEPT ![c] = new]
    OBVIOUS
  <1>2. DOMAIN chat = Chat
    BY DEF ChatTyped
  <1>3. PICK S : chat[c] \in [log : Seq(S), open : BOOLEAN]
    BY DEF ChatTyped, IsChat
  <1>4. chat'[c].log = Append(chat[c].log, m) /\ chat[c].log \in Seq(S)
    BY <1>1, <1>2, <1>3
  <1>5. /\ \A n \in DOMAIN chat[c].log : n \in DOMAIN chat'[c].log /\ chat'[c].log[n] = chat[c].log[n]
        /\ \E n \in DOMAIN chat'[c].log : chat'[c].log[n] = m
    BY <1>4, OneMore
  <1>6. ASSUME NEW d \in Chat, NEW q, InLog(q, d) PROVE InLog(q, d)'
    BY <1>1, <1>2, <1>5, <1>6 DEF InLog, Said
  <1> QED BY <1>5, <1>6 DEF Remembers, InLog, Said

\* Nothing is typed, no draft changes, and what is posted is in the log.
LEMMA WordSame ==
  ASSUME WordInv, ChatInv, Remembers, UNCHANGED <<words, drafts>>,
         IF room = None THEN room' = None
         ELSE room' # None /\ room'.id = room.id /\ room'.chat = room.chat /\ room'.draft = room.draft,
         \A a \in asked' : a \in asked \/ a.kind # "post" \/ PostHolds(a)'
  PROVE  WordInv'
  <1>1. words' = words /\ drafts' = drafts
    OBVIOUS
  <1>2. \A c \in Chat : \A q : InLog(q, c) => \E n \in DOMAIN chat'[c].log : q \in chat'[c].log[n]
    BY DEF Remembers, InLog, Said
  <1>3. WordTyped'
    BY <1>1 DEF WordInv, WordTyped
  <1>4. WordsKept'
    BY <1>1, <1>2 DEF WordInv, WordTyped, WordsKept, InLog, Said
  <1>5. DraftShown'
    <2>1. CASE room # None
      <3>1. room.chat \in Chat /\ room' # None /\ room'.chat = room.chat /\ room'.draft = room.draft
        BY <2>1 DEF ChatInv, IsRoom
      <3> QED BY <1>1, <1>2, <2>1, <3>1 DEF WordInv, DraftShown, InLog, Said
    <2> QED BY <2>1 DEF DraftShown
  <1>6. ASSUME NEW a \in asked', a.kind = "post", ~PostHolds(a)' PROVE PostHolds(a)'
    <2>1. /\ a \in asked /\ room # None /\ AskedInv(a) /\ PostHolds(a)
      BY <1>6 DEF ChatInv, WordInv
    <2>2. a.chat \in Chat /\ room'.id = room.id /\ room'.draft = room.draft
      BY <2>1 DEF AskedInv
    <2> QED BY <1>1, <1>2, <2>1, <2>2 DEF PostHolds, Here, InLog, Said
  <1> QED BY <1>3, <1>4, <1>5, <1>6 DEF WordInv, PostHolds

LEMMA WordStart == Init => WordInv
  BY DEF Init, ChatInit, WordInv, WordTyped, WordsKept, DraftShown

LEMMA OpenRoomWords ==
  ASSUME NoRoom, ChatInv, WordInv, NEW c \in Chat, OpenRoom(c) PROVE WordInv'
  <1>0. PICK r, new :
          /\ r = [id |-> IF room = None THEN 1 ELSE room.id + 1, chat |-> c, doc |-> FALSE,
                   shown |-> {}, count |-> 0, draft |-> drafts[c], sending |-> FALSE,
                   gone |-> FALSE, load |-> 1]
          /\ new = Ask("load", r, Read(c, 0))
    OBVIOUS
  <1>1. room' = r /\ asked' = asked \cup {new} /\ chat' = chat /\ words' = words /\ drafts' = drafts
    BY <1>0 DEF OpenRoom
  <1>2. r.draft = drafts[c] /\ r.chat = c /\ new.kind = "load"
    BY <1>0 DEF Ask
  <1>3. WordTyped' /\ WordsKept'
    BY <1>1 DEF WordInv, WordTyped, WordsKept, InLog, Said
  <1>4. DraftShown'
    BY <1>1, <1>2 DEF DraftShown
  <1>5. ASSUME NEW a \in asked', a.kind = "post" PROVE PostHolds(a)'
    <2>1. a \in asked /\ room # None /\ AskedInv(a) /\ PostHolds(a)
      BY <1>1, <1>2, <1>5 DEF ChatInv, WordInv
    <2>2. r.id = room.id + 1 /\ room.id \in Nat /\ a.of \in Nat /\ a.of <= room.id
      BY <1>0, <2>1 DEF ChatInv, IsRoom, AskedInv
    <2>3. ~Here(a)'
      BY <1>1, <2>2 DEF Here
    <2> QED BY <1>1, <2>1, <2>3 DEF PostHolds, InLog, Said
  <1> QED BY <1>3, <1>4, <1>5 DEF WordInv, PostHolds

LEMMA TypeWords ==
  ASSUME ~Hurried, ChatInv, WordInv, NEW q, TypeWord(q) PROVE WordInv'
  <1>1. /\ room # None /\ asked' = asked /\ chat' = chat /\ words' = words \cup {q} /\ q[1] = room.chat
        /\ ~Posting(room.chat)
        /\ room' = [room EXCEPT !.draft = @ \cup {q}]
        /\ drafts' = [drafts EXCEPT ![room.chat] = room.draft \cup {q}]
    BY DEF TypeWord, InRoom
  <1>2. IsRoom(room) /\ room.chat \in Chat
    BY <1>1 DEF ChatInv, IsRoom
  <1>3. /\ room'.draft = room.draft \cup {q} /\ room'.id = room.id /\ room'.chat = room.chat
    BY <1>1, <1>2 DEF IsRoom
  <1>4. /\ drafts'[room.chat] = room.draft \cup {q}
        /\ \A c \in Chat \ {room.chat} : drafts'[c] = drafts[c]
    BY <1>1, <1>2 DEF WordInv, WordTyped
  <1>5. WordTyped'
    BY <1>1, <1>2 DEF WordInv, WordTyped
  <1>6. WordsKept'
    <2> SUFFICES ASSUME NEW w \in words', w \notin drafts'[w[1]] PROVE \E n \in DOMAIN chat[w[1]].log : w \in chat[w[1]].log[n]
      BY <1>1 DEF WordsKept, InLog, Said
    <2>1. w \in words /\ w[1] \in Chat
      BY <1>1, <1>4 DEF WordInv, WordTyped
    <2>2. w \in drafts[w[1]] \/ InLog(w, w[1])
      BY <2>1 DEF WordInv, WordsKept
    <2>3. CASE w[1] = room.chat
      BY <1>1, <1>4, <2>2, <2>3 DEF WordInv, DraftShown, InLog, Said
    <2>4. CASE w[1] # room.chat
      BY <1>4, <2>1, <2>2, <2>4 DEF InLog, Said
    <2> QED BY <2>3, <2>4
  <1>7. DraftShown'
    BY <1>3, <1>4 DEF DraftShown
  <1>8. ASSUME NEW a \in asked, a.kind = "post" PROVE PostHolds(a)'
    <2>1. a.chat \in Chat /\ a.chat # room.chat /\ a.of # room.id /\ PostHolds(a)
      BY <1>1, <1>8 DEF ChatInv, AskedInv, Posting, WordInv
    <2>2. ~Here(a)'
      BY <1>3, <2>1 DEF Here
    <2>3. drafts'[a.chat] = drafts[a.chat]
      BY <1>4, <2>1
    <2> QED BY <1>1, <2>1, <2>2, <2>3 DEF PostHolds, InLog, Said
  <1> QED BY <1>1, <1>5, <1>6, <1>7, <1>8 DEF WordInv, PostHolds

LEMMA SendWords ==
  ASSUME NoRoom, ChatInv, WordInv, NEW fate \in Fates, Send(fate) PROVE WordInv'
  <1>0. PICK got, new : /\ got = [ok |-> fate = "posted" /\ chat[room.chat].open, new |-> {Len(Said(room.chat)) + 1},
                                 gone |-> ~chat[room.chat].open]
                        /\ new = Ask("post", room, got)
    OBVIOUS
  <1>1. /\ room # None /\ asked' = asked \cup {new} /\ words' = words /\ drafts' = drafts
        /\ room' = [room EXCEPT !.sending = TRUE]
        /\ chat' = chat \/ chat' = [chat EXCEPT ![room.chat].log = Append(@, room.draft)]
        /\ got.ok => chat' = [chat EXCEPT ![room.chat].log = Append(@, room.draft)]
    BY <1>0 DEF Send, InRoom
  <1>2. IsRoom(room) /\ room.chat \in Chat
    BY <1>1 DEF ChatInv, IsRoom
  <1>3. /\ room'.id = room.id /\ room'.chat = room.chat /\ room'.draft = room.draft /\ room' # None
    <2>1. "id" \in DOMAIN room'
      BY <1>1, <1>2 DEF IsRoom
    <2> QED BY <1>1, <1>2, <2>1 DEF IsRoom, NoRoom
  <1>4. Remembers
    BY <1>1, <1>2, SameRemembers, MoreRemembers DEF ChatInv
  <1>5. got.ok => \A q \in room.draft : InLog(q, room.chat)'
    <2>1. PICK c : c = room.chat
      OBVIOUS
    <2>2. got.ok => \A q \in room.draft : InLog(q, c)'
      BY <1>1, <1>2, <2>1, MoreRemembers DEF ChatInv
    <2> QED BY <1>3, <2>1, <2>2 DEF InLog, Said
  <1>6. new.chat = room.chat /\ new.of = room.id /\ new.got = got
    BY <1>0 DEF Ask
  <1>7. PostHolds(new)'
    <2>1. got.ok => \A q \in drafts[room.chat] : InLog(q, room.chat)'
      BY <1>1, <1>2, <1>3, <1>4, <1>5 DEF WordInv, DraftShown, Remembers, InLog, Said
    <2> QED BY <1>1, <1>3, <1>5, <1>6, <2>1 DEF PostHolds, InLog, Said
  <1> QED BY <1>1, <1>3, <1>4, <1>7, WordSame

LEMMA PostAnsweredWords ==
  ASSUME NoRoom, ChatInv, WordInv, NEW a \in asked, PostAnswered(a) PROVE WordInv'
  <1>1. /\ a.kind = "post" /\ asked' = asked \ {a} /\ chat' = chat /\ words' = words /\ room # None
        /\ drafts' = Drafted(a)
        /\ room' = IF Here(a) THEN [Posted(a, room) EXCEPT !.sending = FALSE] ELSE room
    BY DEF PostAnswered, ChatInv
  <1>2. IsRoom(room) /\ AskedInv(a) /\ PostHolds(a) /\ room.chat \in Chat /\ a.chat \in Chat
    BY <1>1 DEF ChatInv, IsRoom, AskedInv, WordInv
  <1>3. /\ room'.id = room.id /\ room'.chat = room.chat
        /\ room'.draft = IF Here(a) /\ a.got.ok THEN {} ELSE room.draft
    BY <1>1, <1>2 DEF IsRoom, Posted
  <1>4. CASE a.got.ok
    <2>1. /\ drafts'[a.chat] = {} /\ \A c \in Chat \ {a.chat} : drafts'[c] = drafts[c]
          /\ DOMAIN drafts' = Chat
      BY <1>1, <1>2, <1>4 DEF Drafted, WordInv, WordTyped
    <2>2. WordTyped'
      BY <1>1, <2>1 DEF WordInv, WordTyped
    <2>3. WordsKept'
      <3> SUFFICES ASSUME NEW q \in words, q \notin drafts'[q[1]] PROVE InLog(q, q[1])
        BY <1>1 DEF WordsKept, InLog, Said
      <3>1. q[1] \in Chat /\ (q \in drafts[q[1]] \/ InLog(q, q[1]))
        BY DEF WordInv, WordTyped, WordsKept
      <3> QED BY <1>1, <1>2, <1>4, <2>1, <3>1 DEF PostHolds
    <2>4. DraftShown'
      <3>1. CASE Here(a)
        BY <1>1, <1>2, <1>3, <2>1, <3>1 DEF AskedInv, Here, DraftShown
      <3>2. CASE ~Here(a)
        BY <1>1, <1>2, <1>3, <2>1, <3>2 DEF WordInv, DraftShown, InLog, Said
      <3> QED BY <3>1, <3>2
    <2>5. ASSUME NEW b \in asked, b.kind = "post" PROVE PostHolds(b)'
      <3>1. b.chat \in Chat /\ PostHolds(b)
        BY <1>1, <2>5 DEF ChatInv, AskedInv, WordInv
      <3>2. drafts'[b.chat] \subseteq drafts[b.chat] /\ room'.draft \subseteq room.draft
        BY <1>3, <2>1, <3>1
      <3>3. Here(b)' => Here(b)
        BY <1>1, <1>3 DEF Here
      <3> QED BY <1>1, <3>1, <3>2, <3>3 DEF PostHolds, InLog, Said
    <2> QED BY <1>1, <2>2, <2>3, <2>4, <2>5 DEF WordInv, PostHolds
  <1>5. CASE ~a.got.ok
    <2>1. drafts' = drafts /\ room'.draft = room.draft
      BY <1>1, <1>3, <1>5 DEF Drafted
    <2>2. "id" \in DOMAIN room'
      BY <1>1, <1>2 DEF IsRoom, Posted
    <2>3. room' # None
      BY <2>2 DEF NoRoom
    <2> QED BY <1>1, <1>3, <2>1, <2>3, SameRemembers, WordSame
  <1> QED BY <1>4, <1>5

LEMMA OthersWords ==
  ASSUME ChatInv, WordInv, UNCHANGED <<room, drafts, asked, words>>, Remembers PROVE WordInv'
  BY WordSame

LEMMA LostWords ==
  ASSUME ChatInv, WordInv, NEW c \in Chat, ChatLost(c) PROVE WordInv'
  <1>1. chat' = [chat EXCEPT ![c] = [chat[c] EXCEPT !.open = FALSE]]
    BY DEF ChatLost
  <1>2. PICK S : chat[c] \in [log : Seq(S), open : BOOLEAN]
    BY DEF ChatInv, ChatTyped, IsChat
  <1>3. \A d \in Chat : chat'[d].log = chat[d].log
    BY <1>1, <1>2 DEF ChatInv, ChatTyped
  <1>4. Remembers
    BY <1>3 DEF Remembers, InLog, Said
  <1> QED BY <1>4, OthersWords DEF ChatLost

LEMMA OtherPostsWords ==
  ASSUME ChatInv, WordInv, NEW q, OtherPosts(q) PROVE WordInv'
  <1>1. CASE q[1] \in Chat
    <2>1. PICK c \in Chat : c = q[1]
      BY <1>1
    <2>2. chat' = [chat EXCEPT ![c].log = Append(@, {q})]
      BY <2>1 DEF OtherPosts
    <2>3. Remembers
      BY <2>2, MoreRemembers DEF ChatInv
    <2> QED BY <2>3, OthersWords DEF OtherPosts
  <1>2. CASE q[1] \notin Chat
    <2>1. chat' = chat
      BY <1>2 DEF OtherPosts, ChatInv, ChatTyped
    <2> QED BY <2>1, SameRemembers, OthersWords DEF OtherPosts
  <1> QED BY <1>1, <1>2

\* What reads change: the room keeps its number, its chat and its draft.
LEMMA ReadWords ==
  ASSUME NoRoom, ChatInv, WordInv,
         Refresh \/ Poll \/ \E a \in asked : LoadAnswered(a) \/ PollAnswered(a)
  PROVE  WordInv'
  <1>1. /\ room # None /\ chat' = chat /\ UNCHANGED <<words, drafts>>
        /\ \A b \in asked' : b \in asked \/ b.kind # "post"
    <2>1. CASE Refresh
      BY <2>1 DEF Refresh, Ask
    <2>2. CASE Poll
      BY <2>2 DEF Poll, InRoom, Ask
    <2>3. CASE \E a \in asked : LoadAnswered(a) \/ PollAnswered(a)
      BY <2>3 DEF LoadAnswered, PollAnswered, ChatInv
    <2> QED BY <2>1, <2>2, <2>3
  <1>2. IsRoom(room)
    BY <1>1 DEF ChatInv
  <1>3. /\ room'.id = room.id /\ room'.chat = room.chat /\ room'.draft = room.draft
        /\ "id" \in DOMAIN room'
    <2>1. CASE Refresh
      BY <1>2, <2>1 DEF Refresh, IsRoom
    <2>2. CASE Poll
      BY <1>2, <2>2 DEF Poll, IsRoom
    <2>3. CASE \E a \in asked : LoadAnswered(a)
      <3>1. PICK a \in asked : LoadAnswered(a)
        BY <2>3
      <3>2. CASE ~Here(a) \/ a.load # room.load
        BY <1>2, <3>1, <3>2 DEF LoadAnswered, IsRoom
      <3>3. CASE Here(a) /\ a.load = room.load /\ ~a.got.ok
        <4>1. room' = [room EXCEPT !.gone = TRUE]
          BY <3>1, <3>3 DEF LoadAnswered
        <4> QED BY <1>2, <4>1 DEF IsRoom
      <3>4. CASE Here(a) /\ a.load = room.load /\ a.got.ok
        <4>1. room' = [room EXCEPT !.doc = TRUE, !.shown = a.got.new, !.count = a.got.count]
          BY <3>1, <3>4 DEF LoadAnswered
        <4> QED BY <1>2, <4>1 DEF IsRoom
      <3> QED BY <3>2, <3>3, <3>4
    <2>4. CASE \E a \in asked : PollAnswered(a)
      BY <1>2, <2>4 DEF PollAnswered, Merged, IsRoom
    <2> QED BY <2>1, <2>2, <2>3, <2>4
  <1>4. room' # None
    BY <1>3 DEF NoRoom
  <1> QED BY <1>1, <1>3, <1>4, SameRemembers, WordSame

LEMMA WordStep ==
  ASSUME NoRoom, ~Hurried, ChatInv, WordInv, [Next]_vars PROVE WordInv'
  <1>1. CASE UNCHANGED chatVars
    BY <1>1, SameRemembers, OthersWords DEF chatVars
  <1>2. CASE ChatNext
    BY <1>2, OtherPostsWords, LostWords, OpenRoomWords, ReadWords, PostAnsweredWords, TypeWords, SendWords
      DEF ChatNext
  <1> QED BY <1>1, <1>2, ChatSteps

\* WordsKept for any number of chats, posts and failures (ChatView.jsx and chat.js): as
\* long as nobody types in a chat a post to which is under way, no typed word is lost,
\* whatever becomes of the posts and whichever chats are opened meanwhile.
THEOREM WordsAreKept == ASSUME NoRoom, ~Hurried PROVE Spec => []WordsKept
  <1>1. Init => ChatInv /\ WordInv
    BY ChatStart, WordStart
  <1>2. (ChatInv /\ WordInv) /\ [Next]_vars => (ChatInv /\ WordInv)'
    BY ChatStep, WordStep
  <1>3. ChatInv /\ WordInv => WordsKept
    BY DEF WordInv
  <1> QED BY <1>1, <1>2, <1>3, PTL DEF Spec

-----------------------------------------------------------------------------
LEMMA SignSteps ==
  ASSUME [Next]_vars
  PROVE  (view = "sign" /\ SignNext) \/ (UNCHANGED signVars /\ (UNCHANGED plan \/ view # "sign"))
  BY DEF Next, PageNext, ToolNext, RestNext, vars, restVars, Part

LEMMA ViewStays == ASSUME [Next]_vars PROVE view' = view
  BY DEF Next, PageNext, ToolNext, RestNext, vars, Part

-----------------------------------------------------------------------------
(* Signing in.                                                             *)

SignPlans == view = "sign" => {"provider", "required"} \subseteq DOMAIN plan

IsForm(f) ==
  f \in [step : {f.step}, temp : {f.temp}, shown : {f.shown}, busy : BOOLEAN, proved : {f.proved}]

IsKnock(r) ==
  /\ r \in [by : Browser, what : {"login", "google", "sso", "change", "verify", "enrol", "setup", "credentials"},
            temp : {r.temp}, value : {r.value}, heard : BOOLEAN]
  /\ r.what = "enrol" => r.value \in app

SignTyped ==
  /\ account \in [pw : {account.pw}, must : BOOLEAN, secret : {account.secret}, on : BOOLEAN, made : {account.made}]
  /\ DOMAIN form = Browser /\ \A b \in Browser : IsForm(form[b])
  /\ \A r \in knocks : IsKnock(r)

\* Who is past the first form said who they are; who is in gave a code where one is asked for.
FormRight(f) ==
  /\ f.temp # None \/ f.step # "login" => "who" \in f.proved
  /\ f.step = "in" /\ plan.required /\ plan.provider # "sso" => "code" \in f.proved

\* A form waits for one answer, and what it asked it could ask.
KnockRight(r) ==
  r.heard =>
    /\ form[r.by].busy /\ \A q \in knocks : q.heard /\ q.by = r.by => q = r
    /\ r.what \in {"verify", "enrol", "setup"} => "who" \in form[r.by].proved
    /\ r.what = "sso" => plan.provider = "sso"

SignInv ==
  /\ SignPlans /\ SignTyped /\ NotLockedOut
  /\ view = "sign" => (\A b \in Browser : FormRight(form[b])) /\ (\A r \in knocks : KnockRight(r))

LEMMA SignStart == Init => SignInv
  <1> SUFFICES ASSUME Init PROVE SignInv
    OBVIOUS
  <1>1. SignPlans
    BY SignPlansAssumption DEF Init, SignPlans
  <1> QED BY <1>1 DEF Init, SignInit, SignInv, SignTyped, IsForm, NewForm, NotLockedOut, FormRight

\* What the plan says of signing in stays.
LEMMA SpendKeeps ==
  ASSUME SignInv, view = "sign", NEW f \in {"logins", "submits", "changes", "reloads", "lost", "admin"}, Spend(f)
  PROVE  DOMAIN plan' = DOMAIN plan /\ plan'.provider = plan.provider /\ plan'.required = plan.required
  BY DEF Spend, SignInv, SignPlans

PlanKept == DOMAIN plan' = DOMAIN plan /\ plan'.provider = plan.provider /\ plan'.required = plan.required

\* A form sends something.
LEMMA SubmitsInv ==
  ASSUME SignInv, view = "sign", view' = view, PlanKept, NEW b \in Browser, ~form[b].busy, NEW value,
         NEW what \in {"login", "google", "sso", "change", "verify", "enrol", "credentials"},
         Submits(b, what, value), app \subseteq app', what = "enrol" => value \in app',
         what \in {"verify", "enrol"} => form[b].step # "login",
         what = "sso" => plan.provider = "sso"
  PROVE  SignInv'
  <1> PICK k : k = Knock(b, what, form[b].temp, value)
    OBVIOUS
  <1>1. /\ k = [by |-> b, what |-> what, temp |-> form[b].temp, value |-> value, heard |-> TRUE]
        /\ knocks' = knocks \cup {k} /\ form' = [form EXCEPT ![b].busy = TRUE] /\ account' = account
    BY DEF Submits, Knock
  <1>2. IsKnock(k)'
    BY <1>1 DEF IsKnock
  <1>3. SignTyped'
    <2>1. DOMAIN form' = Browser /\ \A a \in Browser : IsForm(form[a])'
      BY <1>1 DEF SignInv, SignTyped, IsForm
    <2>2. \A r \in knocks : IsKnock(r)'
      BY DEF SignInv, SignTyped, IsKnock
    <2> QED BY <1>1, <1>2, <2>1, <2>2 DEF SignInv, SignTyped
  <1>4. \A a \in Browser : /\ form'[a].step = form[a].step /\ form'[a].temp = form[a].temp
                           /\ form'[a].proved = form[a].proved /\ (form[a].busy => form'[a].busy)
    BY <1>1 DEF SignInv, SignTyped, IsForm
  <1>5. form'[b].busy /\ k.by = b /\ k.what = what
    BY <1>1 DEF SignInv, SignTyped, IsForm
  <1>6. \A a \in Browser : FormRight(form[a])'
    BY <1>4 DEF SignInv, FormRight, PlanKept
  <1>7. \A r \in knocks : r.heard => r.by # b
    BY DEF SignInv, KnockRight
  <1>8. ASSUME NEW r \in knocks PROVE KnockRight(r)'
    BY <1>1, <1>4, <1>5, <1>7 DEF SignInv, KnockRight, SignTyped, IsKnock, PlanKept
  <1>9. KnockRight(k)'
    BY <1>1, <1>4, <1>5, <1>7 DEF SignInv, KnockRight, FormRight, PlanKept
  <1> QED BY <1>1, <1>3, <1>6, <1>8, <1>9 DEF SignInv, SignPlans, NotLockedOut, PlanKept

\* A form comes up anew; nobody waits for what the old one asked.
LEMMA AnewInv ==
  ASSUME SignInv, view = "sign", view' = view, PlanKept, NEW b \in Browser,
         form' = [form EXCEPT ![b] = NewForm], UNCHANGED <<account, known, app>>,
         knocks' = {[r EXCEPT !.heard = @ /\ r.by # b] : r \in knocks}
  PROVE  SignInv'
  <1>1. /\ form'[b] = NewForm /\ DOMAIN form' = Browser
        /\ \A a \in Browser \ {b} : form'[a] = form[a]
    BY DEF SignInv, SignTyped
  <1>2. \A q \in knocks' : \E r \in knocks : q = [r EXCEPT !.heard = @ /\ r.by # b]
    OBVIOUS
  <1>3. ASSUME NEW r \in knocks, NEW q, q = [r EXCEPT !.heard = @ /\ r.by # b]
        PROVE  IsKnock(q)' /\ q.by = r.by /\ (q.heard => q = r /\ r.by # b)
    <2>1. IsKnock(r)
      BY DEF SignInv, SignTyped
    <2> QED BY <1>3, <2>1 DEF IsKnock
  <1>4. SignTyped'
    BY <1>1, <1>2, <1>3 DEF SignInv, SignTyped, IsForm, NewForm
  <1>5. \A a \in Browser : FormRight(form[a])'
    BY <1>1 DEF SignInv, FormRight, PlanKept, NewForm
  <1>6. \A q \in knocks' : q.heard => q \in knocks /\ q.by # b /\ q.by \in Browser
    BY <1>2, <1>3 DEF SignInv, SignTyped, IsKnock
  <1>7. \A q \in knocks' : KnockRight(q)'
    BY <1>1, <1>6 DEF SignInv, KnockRight, PlanKept
  <1> QED BY <1>4, <1>5, <1>7 DEF SignInv, SignPlans, NotLockedOut, PlanKept

\* What an answer makes of a form.
LEMMA AnswerInv ==
  ASSUME SignInv, view = "sign", view' = view, PlanKept, NEW r \in knocks, NEW more, NEW f,
         knocks' = (knocks \ {r}) \cup more, UNCHANGED <<known, app>>,
         account' \in [pw : {account'.pw}, must : BOOLEAN, secret : {account'.secret}, on : BOOLEAN, made : {account'.made}],
         NotLockedOut',
         IF r.heard THEN form' = [form EXCEPT ![r.by] = f] ELSE form' = form /\ more = {},
         r.heard => IsForm(f) /\ FormRight(f),
         \A q \in more : /\ IsKnock(q) /\ q.by = r.by /\ q.what = "setup" /\ f.busy /\ "who" \in f.proved
                        /\ \A p \in more : p = q
  PROVE  SignInv'
  <1>1. r.by \in Browser /\ IsKnock(r)
    BY DEF SignInv, SignTyped, IsKnock
  <1>2. DOMAIN form' = Browser /\ \A a \in Browser : form'[a] = IF r.heard /\ a = r.by THEN f ELSE form[a]
    BY <1>1 DEF SignInv, SignTyped
  <1>3. \A a \in Browser : IsForm(form[a])' /\ FormRight(form[a])'
    BY <1>2 DEF SignInv, SignTyped, FormRight, PlanKept, IsForm
  <1>4. \A q \in knocks' : IsKnock(q)'
    BY DEF SignInv, SignTyped, IsKnock
  <1>5. \A q \in knocks' : KnockRight(q)'
    <2>1. \A q \in knocks \ {r} : q.heard => ~(r.heard /\ q.by = r.by) /\ q.by \in Browser
      BY DEF SignInv, KnockRight, SignTyped, IsKnock
    <2>2. ASSUME NEW q \in knocks \ {r}, q.heard PROVE form'[q.by] = form[q.by]
      BY <2>1, <2>2, <1>2
    <2>3. ASSUME NEW q \in knocks \ {r} PROVE KnockRight(q)'
      <3>1. SUFFICES ASSUME q.heard PROVE KnockRight(q)'
        BY DEF KnockRight
      <3>2. \A p \in more : p.by # q.by
        BY <3>1, <2>1
      <3>3. KnockRight(q)
        BY DEF SignInv
      <3> QED BY <3>1, <3>2, <3>3, <2>2 DEF KnockRight, PlanKept
    <2>4. ASSUME NEW q \in more PROVE KnockRight(q)'
      <3>1. r.heard /\ form'[q.by] = f /\ q.by = r.by
        BY <1>1, <1>2
      <3>2. \A p \in knocks \ {r} : p.heard => p.by # q.by
        BY <2>1, <3>1
      <3> QED BY <3>1, <3>2 DEF KnockRight
    <2> QED BY <2>3, <2>4
  <1> QED BY <1>2, <1>3, <1>4, <1>5 DEF SignInv, SignTyped, SignPlans, PlanKept

\* A request is handled, and answered or not.
LEMMA HandledInv ==
  ASSUME ~Hurried, SignInv, view = "sign", view' = view, PlanKept, NEW r \in knocks, NEW lost \in BOOLEAN, Handled(r, lost)
  PROVE  SignInv'
  <1>1. PICK ok : ok = Accepts(account, r)
    OBVIOUS
  <1>2. PICK a : a = IF ok THEN Account(account, r) ELSE account
    OBVIOUS
  <1>3. PICK step : step = Leads(a, r)
    OBVIOUS
  <1>4. PICK more : more = IF ok /\ ~lost /\ r.heard /\ step = "totp_setup" /\ r.what # "setup"
                           THEN {Knock(r.by, "setup", step, 0)} ELSE {}
    OBVIOUS
  <1>5. PICK f : f = IF lost THEN [form[r.by] EXCEPT !.busy = FALSE]
                     ELSE IF ok THEN StepTaken(form[r.by], r, step, a.secret) ELSE StepRefused(form[r.by], r)
    OBVIOUS
  <1>6. account' = a /\ knocks' = (knocks \ {r}) \cup more /\ UNCHANGED <<known, app>>
    BY <1>1, <1>2, <1>3, <1>4 DEF Handled
  <1>7. IsKnock(r) /\ r.by \in Browser /\ IsForm(form[r.by]) /\ DOMAIN form = Browser
    BY DEF SignInv, SignTyped, IsKnock
  <1>8. form' = IF r.heard THEN [form EXCEPT ![r.by] = f] ELSE form
    BY <1>1, <1>2, <1>3, <1>5, <1>7 DEF Handled
  <1>9. /\ a \in [pw : {a.pw}, must : BOOLEAN, secret : {a.secret}, on : BOOLEAN, made : {a.made}]
        /\ a.on => a.secret \in app
    BY <1>1, <1>2, <1>7 DEF SignInv, SignTyped, NotLockedOut, Account, Accepts, MaySetUp, IsKnock
  <1>10. FormRight(form[r.by]) /\ KnockRight(r)
    BY <1>7 DEF SignInv
  <1>11. r.heard => IsForm(f) /\ FormRight(f)
    <2>1. r.heard => IsForm(f)
      BY <1>5, <1>7 DEF IsForm, StepTaken, StepRefused, NewForm
    <2>2. CASE lost
      BY <2>2, <1>5, <1>7, <1>10 DEF IsForm, FormRight
    <2>3. CASE ~lost /\ ~ok
      BY <2>3, <1>5, <1>7, <1>10 DEF IsForm, FormRight, StepRefused, NewForm
    <2>4. CASE ~lost /\ ok /\ r.heard
      <3>1. f = StepTaken(form[r.by], r, step, a.secret)
        BY <2>4, <1>5
      <3>2. r.what \in {"login", "google", "sso", "change", "verify", "enrol", "setup"} => "who" \in form[r.by].proved \cup Proof(r)
        BY <2>4, <1>10, <1>7 DEF KnockRight, Proof, IsKnock
      <3>3. CASE r.what = "credentials"
        <4>1. f = NewForm
          BY <3>1, <3>3 DEF StepTaken
        <4>2. f.temp = None /\ f.step = "login" /\ f.step # "in"
          BY <4>1 DEF NewForm
        <4> QED BY <2>1, <2>4, <4>2 DEF FormRight
      <3>4. CASE r.what = "setup"
        <4>1. step = "totp_setup"
          BY <3>4, <1>3 DEF Leads
        <4> QED BY <3>1, <3>2, <3>4, <4>1, <1>7 DEF StepTaken, FormRight, IsForm, Proof
      <3>5. CASE r.what \notin {"credentials", "setup"} /\ step = "in"
        <4>1. r.what \in {"login", "google", "change"} => ~plan.required
          BY <3>5, <1>3 DEF Leads, Afterwards
        <4>2. r.what \in {"verify", "enrol"} => "code" \in Proof(r)
          BY DEF Proof
        <4> QED BY <3>1, <3>2, <3>5, <4>1, <4>2, <1>7, <1>10, <2>4 DEF StepTaken, FormRight, IsForm, KnockRight, IsKnock
      <3>6. CASE r.what \notin {"credentials", "setup"} /\ step # "in"
        <4>1. r.what \in {"login", "google", "sso", "change", "verify", "enrol"}
          BY <3>6, <1>7 DEF IsKnock
        <4>2. f.step \in {step, form[r.by].step} /\ f.proved = form[r.by].proved \cup Proof(r)
          BY <3>1, <3>6, <1>7 DEF StepTaken, IsForm
        <4>3. "who" \in f.proved
          BY <3>2, <4>1, <4>2
        <4>4. CASE f.step = "in"
          <5>1. form[r.by].step = "in"
            BY <3>6, <4>2, <4>4
          <5>2. plan.required /\ plan.provider # "sso" => "code" \in form[r.by].proved
            BY <5>1, <1>10 DEF FormRight
          <5>3. plan.required /\ plan.provider # "sso" => "code" \in f.proved
            BY <4>2, <5>2
          <5> QED BY <2>1, <2>4, <4>3, <5>3 DEF FormRight
        <4>5. CASE f.step # "in"
          BY <2>1, <2>4, <4>3, <4>5 DEF FormRight
        <4> QED BY <4>4, <4>5
      <3> QED BY <3>3, <3>4, <3>5, <3>6
    <2> QED BY <2>1, <2>2, <2>3, <2>4
  <1>12. ASSUME NEW q \in more
         PROVE  /\ IsKnock(q) /\ q.by = r.by /\ q.what = "setup" /\ f.busy /\ "who" \in f.proved
                /\ (\A p \in more : p = q) /\ r.heard
    <2>1. ok /\ ~lost /\ r.heard /\ step = "totp_setup" /\ r.what # "setup" /\ q = Knock(r.by, "setup", step, 0)
      BY <1>4
    <2>2. r.what \in {"login", "google", "change"}
      BY <2>1, <1>3, <1>7 DEF Leads, IsKnock
    <2>3. f = StepTaken(form[r.by], r, step, a.secret)
      BY <2>1, <1>5
    <2>4. f.busy /\ "who" \in f.proved
      BY <2>1, <2>2, <2>3, <1>7 DEF StepTaken, Proof, IsForm
    <2> QED BY <1>4, <1>7, <2>1, <2>4 DEF Knock, IsKnock
  <1>13. NotLockedOut'
    BY <1>6, <1>9 DEF NotLockedOut
  <1> QED BY <1>6, <1>8, <1>9, <1>11, <1>12, <1>13, AnswerInv

LEMMA SignStep == ASSUME ~Hurried, SignInv, [Next]_vars PROVE SignInv'
  <1>1. CASE UNCHANGED signVars /\ (UNCHANGED plan \/ view # "sign")
    BY <1>1, ViewStays DEF signVars, SignInv, SignPlans, SignTyped, IsForm, IsKnock, NotLockedOut, FormRight, KnockRight
  <1>2. CASE view = "sign" /\ SignNext
    <2> USE <1>2, ViewStays
    <2>1. \A f \in {"logins", "submits", "changes", "reloads", "lost", "admin"} : Spend(f) => PlanKept
      BY SpendKeeps DEF PlanKept
    <2>2. UNCHANGED plan => PlanKept
      BY DEF PlanKept
    <2>3. ASSUME NEW b \in Browser, LogIn(b) PROVE SignInv'
      BY <2>1, <2>3, SubmitsInv DEF LogIn, AtStep
    <2>4. ASSUME NEW b \in Browser, GoogleSignIn(b) PROVE SignInv'
      BY <2>1, <2>4, SubmitsInv DEF GoogleSignIn, AtStep
    <2>5. ASSUME NEW b \in Browser, SsoSignIn(b) PROVE SignInv'
      BY <2>1, <2>5, SubmitsInv DEF SsoSignIn, AtStep
    <2>6. ASSUME NEW b \in Browser, NewPassword(b) PROVE SignInv'
      BY <2>1, <2>6, SubmitsInv DEF NewPassword, AtStep
    <2>7. ASSUME NEW b \in Browser, SubmitCode(b) PROVE SignInv'
      BY <2>1, <2>7, SubmitsInv DEF SubmitCode, AtStep
    <2>8. ASSUME NEW b \in Browser, SubmitSetup(b) PROVE SignInv'
      BY <2>1, <2>8, SubmitsInv DEF SubmitSetup, AtStep
    <2>9. ASSUME NEW b \in Browser, ChangeCredentials(b) PROVE SignInv'
      BY <2>1, <2>9, SubmitsInv DEF ChangeCredentials, AtStep
    <2>10. ASSUME NEW b \in Browser, ReloadForm(b) PROVE SignInv'
      BY <2>1, <2>10, AnewInv DEF ReloadForm
    <2>11. ASSUME NEW b \in Browser, Logout(b) PROVE SignInv'
      <3>1. \A r \in knocks : r.heard => r.by # b
        BY <2>11 DEF Logout, AtStep, SignInv, KnockRight
      <3>2. \A r \in knocks : r = [r EXCEPT !.heard = @ /\ r.by # b]
        BY <3>1 DEF SignInv, SignTyped, IsKnock
      <3>3. knocks' = {[r EXCEPT !.heard = @ /\ r.by # b] : r \in knocks}
        BY <2>11, <3>2 DEF Logout
      <3> QED BY <2>1, <2>11, <3>3, AnewInv DEF Logout
    <2>12. ASSUME NEW r \in knocks, Handled(r, FALSE), UNCHANGED plan PROVE SignInv'
      BY <2>2, <2>12, HandledInv
    <2>13. ASSUME NEW r \in knocks, Handled(r, TRUE), Spend("lost") PROVE SignInv'
      BY <2>1, <2>13, HandledInv
    <2>14. ASSUME NEW r \in knocks, Validated(r) PROVE FALSE
      BY <2>14 DEF Validated, Between
    <2>15. CASE AdminResets2FA
      BY <2>1, <2>15 DEF AdminResets2FA, SignInv, SignPlans, SignTyped, NotLockedOut, IsForm, IsKnock, FormRight, KnockRight, PlanKept
    <2>16. CASE AdminResetsPassword
      BY <2>1, <2>16 DEF AdminResetsPassword, SignInv, SignPlans, SignTyped, NotLockedOut, IsForm, IsKnock, FormRight, KnockRight, PlanKept
    <2> QED BY <2>3, <2>4, <2>5, <2>6, <2>7, <2>8, <2>9, <2>10, <2>11, <2>12, <2>13, <2>14, <2>15, <2>16 DEF SignNext
  <1> QED BY <1>1, <1>2, SignSteps

\* SignedInRight for any browsers and plans, unless two browsers set up a second factor at
\* once: nobody is locked out, and no step of signing in is skipped.
THEOREM SignInHolds == ASSUME ~Hurried PROVE Spec => []SignedInRight
  <1>1. Init => SignInv
    BY SignStart
  <1>2. SignInv /\ [Next]_vars => SignInv'
    BY SignStep
  <1>3. SignInv => SignedInRight
    BY DEF SignInv, FormRight, SignedInRight, StepsTaken
  <1> QED BY <1>1, <1>2, <1>3, PTL DEF Spec

-----------------------------------------------------------------------------
LEMMA ServerSteps == ASSUME [Next]_vars PROVE ServerNext \/ UNCHANGED serverVars
  BY DEF Next, PageNext, ToolNext, RestNext, vars, restVars

-----------------------------------------------------------------------------
(* What the tabs know.                                                     *)

Changer == KeyTab \cup {"script"}
KeyKinds == {"keys", "made", "cli", "revoked"}
ThemeKinds == {"themes", "half", "saved", "deleted"}
KeyAsked == {q \in srvAsked : q.kind \in KeyKinds}
ThemeAsked == {q \in srvAsked : q.kind \in ThemeKinds}

\* A tab asks for one thing at a time.
OneAsked ==
  /\ srvChanges \in [Changer -> Nat] /\ stamp \in Nat
  /\ \A q \in srvAsked : q.kind \in KeyKinds \cup ThemeKinds /\ q.by \in KeyTab
  /\ \A q, r \in srvAsked : q.by = r.by => q = r

AtKnown(at) == at \in [Changer -> Nat] /\ \A o \in Changer : at[o] <= srvChanges[o]
OthersStay(w, at) == \A o \in Changer \ {w} : srvChanges[o] = at[o]

Bumped == (\E w \in Changer : SrvChanged(w)) \/ UNCHANGED srvChanges

\* A change only makes what was read older.
LEMMA Older ==
  ASSUME OneAsked, Bumped, NEW t \in Changer, NEW at, AtKnown(at)
  PROVE  AtKnown(at)' /\ (OthersStay(t, at)' => OthersStay(t, at))
  <1>1. CASE UNCHANGED srvChanges
    BY <1>1 DEF AtKnown, OthersStay
  <1>2. ASSUME NEW w \in Changer, SrvChanged(w) PROVE AtKnown(at)' /\ (OthersStay(t, at)' => OthersStay(t, at))
    <2>1. srvChanges \in [Changer -> Nat] /\ srvChanges' = [srvChanges EXCEPT ![w] = @ + 1] /\ at \in [Changer -> Nat]
      BY <1>2 DEF OneAsked, SrvChanged, AtKnown
    <2>2. \A o \in Changer : srvChanges'[o] = IF o = w THEN srvChanges[o] + 1 ELSE srvChanges[o]
      BY <2>1
    <2>3. \A o \in Changer : srvChanges[o] \in Nat /\ at[o] \in Nat
      BY <2>1
    <2>4. \A o \in Changer : at[o] <= srvChanges'[o] /\ (srvChanges'[o] = at[o] => srvChanges[o] = at[o])
      BY <2>2, <2>3 DEF AtKnown
    <2> QED BY <2>1, <2>4 DEF AtKnown, OthersStay
  <1> QED BY <1>1, <1>2 DEF Bumped

\* And another's change makes it out of date.
LEMMA OutOfDate ==
  ASSUME OneAsked, NEW w \in Changer, SrvChanged(w), NEW t \in Changer \ {w}, NEW at, AtKnown(at)
  PROVE  ~OthersStay(t, at)'
  <1>1. srvChanges \in [Changer -> Nat] /\ srvChanges' = [srvChanges EXCEPT ![w] = @ + 1] /\ at \in [Changer -> Nat]
    BY DEF OneAsked, SrvChanged, AtKnown
  <1>2. srvChanges'[w] = srvChanges[w] + 1 /\ srvChanges[w] \in Nat /\ at[w] \in Nat /\ at[w] <= srvChanges[w]
    BY <1>1 DEF AtKnown
  <1> QED BY <1>2 DEF OthersStay

LEMMA AtNow == ASSUME OneAsked PROVE AtKnown(srvChanges)
  BY DEF OneAsked, AtKnown

\* The requests after a step: more by somebody who asked for nothing, or for what is answered.
LEMMA OneTold ==
  ASSUME OneAsked, Bumped, stamp' \in Nat, NEW gone, NEW more, srvAsked' = (srvAsked \ gone) \cup more,
         \A q \in more : /\ q.kind \in KeyKinds \cup ThemeKinds /\ q.by \in KeyTab
                         /\ \A r \in srvAsked \ gone : r.by # q.by
                         /\ \A r \in more : r = q
  PROVE  OneAsked'
  <1>1. srvChanges' \in [Changer -> Nat]
    BY DEF OneAsked, Bumped, SrvChanged
  <1>2. \A q \in srvAsked' : q.kind \in KeyKinds \cup ThemeKinds /\ q.by \in KeyTab
    BY DEF OneAsked
  <1>3. \A q, r \in srvAsked' : q.by = r.by => q = r
    BY DEF OneAsked
  <1> QED BY <1>1, <1>2, <1>3 DEF OneAsked

-----------------------------------------------------------------------------
(* API tokens.                                                             *)

KeysFit(t, shows, at) == OthersStay(t, at) => shows = KeyList(t)

\* A tab's own change that its list does not show yet.
KeyDue(t) ==
  \E q \in KeyAsked : q.by = t /\ (q.kind # "revoked" \/ q.ok)

KeyTabRight(t) ==
  keyTabs[t].at # None => AtKnown(keyTabs[t].at) /\ (KeyDue(t) \/ KeysFit(t, keyTabs[t].shows, keyTabs[t].at))

KeyAskedRight(q) ==
  /\ q.kind = "keys" => AtKnown(q.at) /\ KeysFit(q.by, q.shows, q.at)
  /\ q.kind = "cli" => keyTabs[q.by].at = None

KeyInv ==
  /\ DOMAIN keyTabs = KeyTab
  /\ \A t \in KeyTab : DOMAIN keyTabs[t] = {"shows", "token", "at"} /\ KeyTabRight(t)
  /\ \A q \in KeyAsked : KeyAskedRight(q)

\* What the themes and the restart do is nothing to the tokens.
LEMMA KeysAside ==
  ASSUME OneAsked, KeyInv, Bumped, UNCHANGED <<keyVars, KeyAsked>>
  PROVE  KeyInv'
  <1>1. \A q \in KeyAsked : q.by \in Changer /\ q.by \in KeyTab
    BY DEF OneAsked, KeyAsked, Changer
  <1>2. ASSUME NEW t \in Changer, NEW at, NEW shows, AtKnown(at)
        PROVE  AtKnown(at)' /\ (KeysFit(t, shows, at) => KeysFit(t, shows, at)')
    BY <1>2, Older DEF KeysFit, KeyList, keyVars
  <1>3. ASSUME NEW t \in KeyTab PROVE KeyTabRight(t)'
    BY <1>2 DEF KeyInv, KeyTabRight, KeyDue, keyVars, Changer
  <1>4. ASSUME NEW q \in KeyAsked PROVE KeyAskedRight(q)'
    BY <1>1, <1>2 DEF KeyInv, KeyAskedRight, keyVars
  <1> QED BY <1>3, <1>4 DEF KeyInv, keyVars

\* A tab changes the tokens, which it asked nothing about.
LEMMA KeyChanges ==
  ASSUME OneAsked, KeyInv, NEW t \in KeyTab, Waitless(t), SrvChanged(t), stamp' \in Nat,
         NEW q, q.by = t, q.kind \in {"made", "cli", "revoked"}, q.kind = "revoked" => q.ok,
         srvAsked' = srvAsked \cup {q}, keyTabs' = keyTabs \/ keyTabs' = [keyTabs EXCEPT ![t] = NoKeys],
         q.kind = "cli" => keyTabs' = [keyTabs EXCEPT ![t] = NoKeys]
  PROVE  OneAsked' /\ KeyInv'
  <1>1. OneAsked'
    BY DEF OneAsked, Waitless, SrvChanged, Changer, KeyKinds
  <1>2. Bumped /\ t \in Changer
    BY DEF Bumped, Changer
  <1>3. KeyAsked' = KeyAsked \cup {q} /\ \A r \in KeyAsked : r.by # t /\ r.by \in KeyTab
    BY DEF KeyAsked, KeyKinds, Waitless, OneAsked
  <1>4. KeyDue(t)'
    BY <1>3 DEF KeyDue
  <1>5. DOMAIN keyTabs' = KeyTab /\ \A u \in KeyTab : keyTabs'[u] = keyTabs[u] \/ (u = t /\ keyTabs'[u] = NoKeys)
    BY DEF KeyInv
  <1>6. ASSUME NEW u \in KeyTab PROVE DOMAIN keyTabs'[u] = {"shows", "token", "at"} /\ KeyTabRight(u)'
    <2>1. CASE u = t /\ keyTabs'[u] = NoKeys
      BY <2>1 DEF KeyTabRight, NoKeys
    <2>2. CASE keyTabs'[u] = keyTabs[u]
      <3>1. CASE keyTabs[u].at = None
        BY <2>2, <3>1 DEF KeyInv, KeyTabRight
      <3>2. CASE keyTabs[u].at # None
        <4>1. AtKnown(keyTabs[u].at)
          BY <3>2 DEF KeyInv, KeyTabRight
        <4>2. AtKnown(keyTabs[u].at)'
          BY <2>2, <4>1, <1>2, Older DEF Changer
        <4>3. u # t => ~OthersStay(u, keyTabs[u].at)'
          BY <2>2, <4>1, <1>2, OutOfDate DEF Changer
        <4> QED BY <2>2, <4>2, <4>3, <1>4 DEF KeyInv, KeyTabRight, KeysFit
      <3> QED BY <3>1, <3>2
    <2> QED BY <2>1, <2>2, <1>5
  <1>7. ASSUME NEW r \in KeyAsked PROVE KeyAskedRight(r)'
    <2>1. r.by # t /\ r.by \in KeyTab /\ keyTabs'[r.by] = keyTabs[r.by]
      BY <1>3, <1>5
    <2>2. ASSUME r.kind = "keys" PROVE AtKnown(r.at)' /\ ~OthersStay(r.by, r.at)'
      <3>1. AtKnown(r.at)
        BY <2>2 DEF KeyInv, KeyAskedRight
      <3> QED BY <3>1, <2>1, <1>2, Older, OutOfDate DEF Changer
    <2> QED BY <2>1, <2>2 DEF KeyInv, KeyAskedRight, KeysFit
  <1>8. KeyAskedRight(q)'
    BY <1>5 DEF KeyAskedRight, KeyInv, NoKeys
  <1> QED BY <1>1, <1>3, <1>5, <1>6, <1>7, <1>8 DEF KeyInv

\* A tab asks for its list or is answered; the tokens stay as they are.
KeyStays(t, gone, more, x) ==
  /\ keys' = keys /\ srvChanges' = srvChanges /\ stamp' = stamp
  /\ srvAsked' = (srvAsked \ gone) \cup more
  /\ \A q \in srvAsked : q \in gone <=> q.by = t
  /\ \A q \in more : q = KeyRead(t) \/ (q.by = t /\ q.kind = "revoked")
  /\ \A q, r \in more : r = q
  /\ keyTabs' = [keyTabs EXCEPT ![t] = x] \/ (keyTabs' = keyTabs /\ x = keyTabs[t])
  /\ DOMAIN x = {"shows", "token", "at"}
  /\ x.at # None => AtKnown(x.at) /\ (KeyRead(t) \in more \/ KeysFit(t, x.shows, x.at))

LEMMA KeyRests ==
  ASSUME OneAsked, KeyInv, NEW t \in KeyTab, NEW gone, NEW more, NEW x, KeyStays(t, gone, more, x)
  PROVE  OneAsked' /\ KeyInv'
  <1> USE DEF KeyStays
  <1>1. /\ KeyRead(t).by = t /\ KeyRead(t).kind = "keys" /\ KeyRead(t).at = srvChanges /\ KeyRead(t).shows = KeyList(t)
    BY DEF KeyRead
  <1>2. OneAsked'
    BY <1>1 DEF OneAsked, KeyKinds
  <1>3. /\ \A q \in KeyAsked' : q \in more \/ (q \in KeyAsked /\ q.by # t /\ q.by \in KeyTab)
        /\ \A q \in KeyAsked : q.by # t => q \in KeyAsked'
        /\ more \subseteq KeyAsked'
    BY <1>1 DEF KeyAsked, KeyKinds, OneAsked
  <1>4. DOMAIN keyTabs' = KeyTab /\ keyTabs'[t] = x /\ \A u \in KeyTab \ {t} : keyTabs'[u] = keyTabs[u]
    BY DEF KeyInv
  <1>5. \A u \in KeyTab : \A at, shows : /\ (AtKnown(at)' <=> AtKnown(at))
                                       /\ (KeysFit(u, shows, at)' <=> KeysFit(u, shows, at))
    BY DEF AtKnown, KeysFit, OthersStay, KeyList
  <1>6. KeyTabRight(t)'
    BY <1>1, <1>3, <1>4, <1>5 DEF KeyTabRight, KeyDue
  <1>7. ASSUME NEW u \in KeyTab \ {t} PROVE KeyTabRight(u)'
    <2>1. KeyDue(u) => KeyDue(u)'
      BY <1>3 DEF KeyDue
    <2> QED BY <2>1, <1>4, <1>5 DEF KeyTabRight, KeyInv
  <1>8. ASSUME NEW q \in KeyAsked' PROVE KeyAskedRight(q)'
    <2>1. CASE q \in KeyAsked /\ q.by # t /\ q.by \in KeyTab
      BY <2>1, <1>4, <1>5 DEF KeyAskedRight, KeyInv
    <2>2. CASE q \in more
      BY <2>2, <1>1, <1>5, AtNow DEF KeyAskedRight, KeysFit
    <2> QED BY <1>3, <2>1, <2>2
  <1> QED BY <1>2, <1>4, <1>6, <1>7, <1>8 DEF KeyInv

LEMMA KeyStep == ASSUME ~Hurried, OneAsked, KeyInv, KeyNext PROVE OneAsked' /\ KeyInv'
  <1>1. ASSUME NEW t \in KeyTab, OpensKeys(t) PROVE OneAsked' /\ KeyInv'
    <2>1. \A q \in srvAsked : q.by # t
      BY <1>1 DEF OpensKeys, Waitless
    <2>2. DOMAIN NoKeys = {"shows", "token", "at"} /\ NoKeys.at = None
      BY DEF NoKeys
    <2>3. srvAsked' = (srvAsked \ {}) \cup {KeyRead(t)}
      BY <1>1 DEF OpensKeys
    <2>4. KeyStays(t, {}, {KeyRead(t)}, NoKeys)
      BY <1>1, <2>1, <2>2, <2>3 DEF KeyStays, OpensKeys
    <2> QED BY <2>4, KeyRests
  <1>2. ASSUME NEW q \in srvAsked, KeysShown(q) PROVE OneAsked' /\ KeyInv'
    <2>1. PICK x : x = [keyTabs[q.by] EXCEPT !.shows = q.shows, !.at = q.at]
      OBVIOUS
    <2>2. q.by \in KeyTab /\ q \in KeyAsked
      BY <1>2 DEF KeysShown, OneAsked, KeyAsked, KeyKinds
    <2>3. keyTabs' = [keyTabs EXCEPT ![q.by] = x] /\ srvAsked' = (srvAsked \ {q}) \cup {}
      BY <1>2, <2>1, <2>2 DEF KeysShown, SrvAnswered, KeyInv
    <2>4. DOMAIN x = {"shows", "token", "at"} /\ x.shows = q.shows /\ x.at = q.at
      BY <2>1, <2>2 DEF KeyInv
    <2>5. AtKnown(q.at) /\ KeysFit(q.by, q.shows, q.at)
      BY <1>2, <2>2 DEF KeyInv, KeyAskedRight, KeysShown
    <2>6. \A r \in srvAsked : r \in {q} <=> r.by = q.by
      BY DEF OneAsked
    <2>7. KeyStays(q.by, {q}, {}, x)
      BY <1>2, <2>2, <2>3, <2>4, <2>5, <2>6 DEF KeyStays, KeysShown
    <2> QED BY <2>2, <2>7, KeyRests
  <1>3. ASSUME NEW t \in KeyTab, CreateKey(t) PROVE OneAsked' /\ KeyInv'
    <2>1. PICK q : q = [by |-> t, kind |-> "made", id |-> stamp']
      OBVIOUS
    <2>2. q.by = t /\ q.kind = "made" /\ srvAsked' = srvAsked \cup {q} /\ Waitless(t) /\ stamp' \in Nat
      BY <1>3, <2>1 DEF CreateKey, KeyCreated, OneAsked
    <2> QED BY <1>3, <2>2, KeyChanges DEF CreateKey, KeyCreated
  <1>4. ASSUME NEW t \in KeyTab, CreateCliKey(t) PROVE OneAsked' /\ KeyInv'
    <2>1. PICK q : q = [by |-> t, kind |-> "cli", id |-> stamp']
      OBVIOUS
    <2>2. q.by = t /\ q.kind = "cli" /\ srvAsked' = srvAsked \cup {q} /\ Waitless(t) /\ stamp' \in Nat
      BY <1>4, <2>1 DEF CreateCliKey, KeyCreated, OneAsked
    <2> QED BY <1>4, <2>2, KeyChanges DEF CreateCliKey, KeyCreated
  <1>5. ASSUME NEW q \in srvAsked, KeyMade(q) PROVE OneAsked' /\ KeyInv'
    <2>1. PICK x : x = [keyTabs[q.by] EXCEPT !.token = q.id]
      OBVIOUS
    <2>2. q.by \in KeyTab /\ q \in KeyAsked
      BY <1>5 DEF KeyMade, OneAsked, KeyAsked, KeyKinds
    <2>3. PICK more : more = IF q.kind = "made" THEN {KeyRead(q.by)} ELSE {}
      OBVIOUS
    <2>4. keyTabs' = [keyTabs EXCEPT ![q.by] = x] /\ srvAsked' = (srvAsked \ {q}) \cup more
      BY <1>5, <2>1, <2>2, <2>3 DEF KeyMade, ListAgain, SrvAnswered, KeyInv
    <2>5. DOMAIN x = {"shows", "token", "at"} /\ x.shows = keyTabs[q.by].shows /\ x.at = keyTabs[q.by].at
      BY <2>1, <2>2 DEF KeyInv
    <2>6. x.at # None => AtKnown(x.at) /\ KeyRead(q.by) \in more
      BY <1>5, <2>2, <2>3, <2>5 DEF KeyMade, KeyInv, KeyTabRight, KeyAskedRight
    <2>7. \A r \in srvAsked : r \in {q} <=> r.by = q.by
      BY DEF OneAsked
    <2>8. KeyStays(q.by, {q}, more, x)
      BY <1>5, <2>2, <2>3, <2>4, <2>5, <2>6, <2>7 DEF KeyStays, KeyMade
    <2> QED BY <2>2, <2>8, KeyRests
  <1>6. ASSUME NEW t \in KeyTab, RevokeKey(t) PROVE OneAsked' /\ KeyInv'
    <2>1. PICK k \in keyTabs[t].shows :
            LET ok == k \in KeyList(t)
            IN  /\ keys' = keys \ (IF ok THEN {k} ELSE {})
                /\ IF ok THEN SrvChanged(t) ELSE UNCHANGED srvChanges
                /\ srvAsked' = srvAsked \cup {[by |-> t, kind |-> "revoked", ok |-> ok]}
      BY <1>6 DEF RevokeKey
    <2>2. Waitless(t) /\ UNCHANGED <<keyTabs, stamp>>
      BY <1>6 DEF RevokeKey
    <2>3. PICK q : q = [by |-> t, kind |-> "revoked", ok |-> k \in KeyList(t)]
      OBVIOUS
    <2>4. srvAsked' = srvAsked \cup {q} /\ q.by = t /\ q.kind = "revoked"
      BY <2>1, <2>3
    <2>5. CASE k \in KeyList(t)
      BY <2>1, <2>2, <2>3, <2>4, <2>5, KeyChanges DEF OneAsked
    <2>6. CASE k \notin KeyList(t)
      <3>1. UNCHANGED <<keys, srvChanges>>
        BY <2>1, <2>6
      <3>2. \A r \in srvAsked : r.by # t
        BY <2>2 DEF Waitless
      <3>3. DOMAIN keyTabs[t] = {"shows", "token", "at"} /\ keyTabs' = keyTabs
        BY <2>2 DEF KeyInv
      <3>4. keyTabs[t].at # None => AtKnown(keyTabs[t].at) /\ KeysFit(t, keyTabs[t].shows, keyTabs[t].at)
        BY <3>2 DEF KeyInv, KeyTabRight, KeyDue, KeyAsked
      <3>5. srvAsked' = (srvAsked \ {}) \cup {q}
        BY <2>4
      <3>6. KeyStays(t, {}, {q}, keyTabs[t])
        BY <2>2, <2>4, <3>1, <3>2, <3>3, <3>4, <3>5 DEF KeyStays
      <3> QED BY <3>6, KeyRests
    <2> QED BY <2>5, <2>6
  <1>7. ASSUME NEW q \in srvAsked, KeyRevoked(q) PROVE OneAsked' /\ KeyInv'
    <2>1. q.by \in KeyTab /\ q \in KeyAsked
      BY <1>7 DEF KeyRevoked, OneAsked, KeyAsked, KeyKinds
    <2>2. PICK more : more = IF q.ok THEN {KeyRead(q.by)} ELSE {}
      OBVIOUS
    <2>3. srvAsked' = (srvAsked \ {q}) \cup more /\ UNCHANGED <<keys, srvChanges, keyTabs, stamp>>
      BY <1>7, <2>2 DEF KeyRevoked, ListAgain, SrvAnswered, keyVars
    <2>4. \A r \in srvAsked : r \in {q} <=> r.by = q.by
      BY DEF OneAsked
    <2>5. DOMAIN keyTabs[q.by] = {"shows", "token", "at"} /\ keyTabs' = keyTabs
      BY <2>1, <2>3 DEF KeyInv
    <2>6. ~q.ok => ~KeyDue(q.by)
      BY <1>7, <2>4 DEF KeyDue, KeyAsked, KeyRevoked
    <2>7. keyTabs[q.by].at # None =>
            AtKnown(keyTabs[q.by].at) /\ (KeyRead(q.by) \in more \/ KeysFit(q.by, keyTabs[q.by].shows, keyTabs[q.by].at))
      BY <2>1, <2>2, <2>6 DEF KeyInv, KeyTabRight
    <2>8. KeyStays(q.by, {q}, more, keyTabs[q.by])
      BY <2>1, <2>2, <2>3, <2>4, <2>5, <2>7 DEF KeyStays
    <2> QED BY <2>1, <2>8, KeyRests
  <1> QED BY <1>1, <1>2, <1>3, <1>4, <1>5, <1>6, <1>7 DEF KeyNext

-----------------------------------------------------------------------------
(* The central themes.                                                     *)

OnList == [name : ThemeName, css : Nat \ {0}, tpl : Nat]
ThemeTab ==
  [shows : {None} \cup SUBSET OnList, sel : ThemeName \cup {None, New}, name : ThemeName \cup {None},
   css : Nat, tpl : Nat, doubt : BOOLEAN, gone : SUBSET ThemeName, at : {None} \cup [Changer -> Nat]]

ThemesFit(p, shows, at) == OthersStay(p, at) => shows = ThemeList
ThemeDue(p) == \E q \in ThemeAsked : q.by = p

\* Templates are there only with a style, and are that theme's own.
ThemeRight(n) ==
  /\ themes[n].css = 0 => themes[n].tpl = 0
  /\ themes[n].tpl # 0 => themes[n].own

ThemeTabRight(p) ==
  LET t == themeTabs[p]
  IN  /\ t.at # None => AtKnown(t.at) /\ (ThemeDue(p) \/ t.doubt \/ ThemesFit(p, t.shows, t.at))
      /\ t.sel # None => t.css # 0
      /\ t.sel \notin t.gone
      /\ t.sel \in ThemeName => t.sel = t.name

ThemeAskedRight(q) ==
  /\ q.by \in Keeper
  /\ q.kind = "themes" => AtKnown(q.at) /\ q.shows \in SUBSET OnList /\ ThemesFit(q.by, q.shows, q.at)
  /\ q.kind \in {"half", "saved", "deleted"} => q.name \in ThemeName
  /\ q.kind \in {"half", "saved"} => themeTabs[q.by].sel # None /\ themeTabs[q.by].name = q.name
  /\ q.kind = "half" => q.tpl \in Nat /\ themes[q.name].css # 0
  /\ q.kind = "deleted" => q.open = (themeTabs[q.by].sel = q.name)

ThemeInv ==
  /\ themes \in [ThemeName -> [css : Nat, tpl : Nat, own : BOOLEAN]]
  /\ \A n \in ThemeName : ThemeRight(n)
  /\ themeTabs \in [Keeper -> ThemeTab]
  /\ \A p \in Keeper : ThemeTabRight(p)
  /\ \A q \in ThemeAsked : ThemeAskedRight(q)

\* What w does leaves to everybody else.
ThemeAlone(w) ==
  /\ stamp' \in Nat
  /\ SrvChanged(w) \/ (srvChanges' = srvChanges /\ themes' = themes)
  /\ \A u \in Keeper : u # w => themeTabs'[u] = themeTabs[u]
  /\ \A q : q.by # w => (q \in srvAsked' <=> q \in srvAsked)
  /\ \A q \in ThemeAsked : q.kind = "half" /\ q.by # w => themes'[q.name].css # 0

\* What w does itself.
ThemeOwn(w) ==
  /\ themes' \in [ThemeName -> [css : Nat, tpl : Nat, own : BOOLEAN]]
  /\ \A n \in ThemeName : ThemeRight(n)'
  /\ themeTabs' \in [Keeper -> ThemeTab]
  /\ w \in Keeper => ThemeTabRight(w)'
  /\ \A q \in srvAsked' :
       q.by = w => q \in KeyAsked \/ (q.kind \in ThemeKinds /\ ThemeAskedRight(q)')
  /\ \A q, r \in srvAsked' : q.by = w /\ r.by = w => q = r

LEMMA ThemesRest ==
  ASSUME OneAsked, ThemeInv, NEW w \in Changer, ThemeAlone(w), ThemeOwn(w)
  PROVE  OneAsked' /\ ThemeInv' /\ Bumped
  <1>1. Bumped
    BY DEF ThemeAlone, Bumped
  <1>2. OneAsked'
    <2>1. srvChanges' \in [Changer -> Nat]
      BY <1>1 DEF OneAsked, Bumped, SrvChanged
    <2>2. \A q \in srvAsked' : q.kind \in KeyKinds \cup ThemeKinds /\ q.by \in KeyTab
      <3>1. ASSUME NEW q \in srvAsked', q.by # w PROVE q \in srvAsked
        BY <3>1 DEF ThemeAlone
      <3>2. ASSUME NEW q \in srvAsked', q.by = w, q \notin KeyAsked PROVE q.kind \in ThemeKinds /\ q.by \in Keeper
        BY <3>2 DEF ThemeOwn, ThemeAskedRight
      <3> QED BY <3>1, <3>2 DEF OneAsked, KeyAsked, KeyTab
    <2>3. \A q, r \in srvAsked' : q.by = r.by => q = r
      BY DEF OneAsked, ThemeAlone, ThemeOwn
    <2> QED BY <2>1, <2>2, <2>3 DEF OneAsked, ThemeAlone
  <1>3. Keeper \subseteq Changer
    BY DEF Changer, KeyTab
  <1>4. ASSUME NEW u \in Keeper, u # w, NEW shows, NEW at, AtKnown(at)
        PROVE  AtKnown(at)' /\ (ThemesFit(u, shows, at) => ThemesFit(u, shows, at)')
    <2>1. CASE SrvChanged(w)
      BY <2>1, <1>1, <1>3, <1>4, Older, OutOfDate DEF ThemesFit
    <2>2. CASE srvChanges' = srvChanges /\ themes' = themes
      BY <2>2, <1>4 DEF ThemesFit, AtKnown, OthersStay, ThemeList
    <2> QED BY <2>1, <2>2 DEF ThemeAlone
  <1>5. ASSUME NEW u \in Keeper, u # w PROVE ThemeTabRight(u)'
    <2>1. ThemeDue(u) => ThemeDue(u)'
      BY <1>5 DEF ThemeDue, ThemeAsked, ThemeAlone
    <2>2. themeTabs'[u] = themeTabs[u] /\ ThemeTabRight(u)
      BY <1>5 DEF ThemeAlone, ThemeInv
    <2> QED BY <2>1, <2>2, <1>4, <1>5 DEF ThemeTabRight
  <1>6. ASSUME NEW q \in ThemeAsked', q.by # w PROVE ThemeAskedRight(q)'
    <2>1. q \in ThemeAsked /\ ThemeAskedRight(q) /\ q.by \in Keeper
      BY <1>6 DEF ThemeAsked, ThemeAlone, ThemeInv, ThemeAskedRight
    <2>2. themeTabs'[q.by] = themeTabs[q.by] /\ (q.kind = "half" => themes'[q.name].css # 0)
      BY <2>1, <1>6 DEF ThemeAlone
    <2> QED BY <2>1, <2>2, <1>4, <1>6 DEF ThemeAskedRight
  <1>7. ASSUME NEW q \in ThemeAsked', q.by = w PROVE ThemeAskedRight(q)'
    BY <1>7 DEF ThemeOwn, ThemeAsked, KeyAsked, KeyKinds, ThemeKinds
  <1>8. \A u \in Keeper : ThemeTabRight(u)'
    BY <1>5 DEF ThemeOwn
  <1> QED BY <1>1, <1>2, <1>6, <1>7, <1>8 DEF ThemeInv, ThemeOwn

\* What the tokens and the restart do is nothing to the themes.
LEMMA ThemesAside ==
  ASSUME OneAsked, ThemeInv, Bumped, UNCHANGED <<themeVars, ThemeAsked>>
  PROVE  ThemeInv'
  <1>1. Keeper \subseteq Changer
    BY DEF Changer, KeyTab
  <1>2. ASSUME NEW t \in Changer, NEW at, NEW shows, AtKnown(at)
        PROVE  AtKnown(at)' /\ (ThemesFit(t, shows, at) => ThemesFit(t, shows, at)')
    BY <1>2, Older DEF ThemesFit, ThemeList, themeVars
  <1>3. ASSUME NEW p \in Keeper PROVE ThemeTabRight(p)'
    BY <1>1, <1>2 DEF ThemeInv, ThemeTabRight, ThemeDue, themeVars
  <1>4. ASSUME NEW q \in ThemeAsked PROVE ThemeAskedRight(q)'
    BY <1>1, <1>2 DEF ThemeInv, ThemeAskedRight, themeVars
  <1>5. \A n \in ThemeName : ThemeRight(n)'
    BY DEF ThemeRight, ThemeInv, themeVars
  <1> QED BY <1>3, <1>4, <1>5 DEF ThemeInv, themeVars

\* Nobody else is between the two files of a theme.
LEMMA WholeTheme ==
  ASSUME ~Hurried, NEW n, Whole(n), NEW q \in ThemeAsked, q.kind = "half"
  PROVE  q.name # n
  BY DEF Whole, ThemeAsked

LEMMA CssFiles ==
  ASSUME ThemeInv, NEW n \in ThemeName, NEW css \in Nat \ {0}, CssWritten(n, css)
  PROVE  /\ themes' \in [ThemeName -> [css : Nat, tpl : Nat, own : BOOLEAN]]
         /\ themes'[n].css # 0
         /\ \A m \in ThemeName : ThemeRight(m)' /\ (themes[m].css # 0 => themes'[m].css # 0)
  <1>1. PICK x : x = [css |-> css, tpl |-> themes[n].tpl, own |-> themes[n].own /\ themes[n].css # 0]
    OBVIOUS
  <1>2. themes' = [themes EXCEPT ![n] = x] /\ themes \in [ThemeName -> [css : Nat, tpl : Nat, own : BOOLEAN]]
    BY <1>1 DEF CssWritten, ThemeInv
  <1>3. themes[n] \in [css : Nat, tpl : Nat, own : BOOLEAN]
    BY <1>2
  <1>4. x \in [css : Nat, tpl : Nat, own : BOOLEAN] /\ x.css = css /\ x.tpl = themes[n].tpl /\ (x.own <=> themes[n].own /\ themes[n].css # 0)
    BY <1>1, <1>3
  <1>5. themes' \in [ThemeName -> [css : Nat, tpl : Nat, own : BOOLEAN]] /\ \A m \in ThemeName : themes'[m] = IF m = n THEN x ELSE themes[m]
    BY <1>2, <1>4
  <1>6. ASSUME NEW m \in ThemeName PROVE ThemeRight(m)' /\ (themes[m].css # 0 => themes'[m].css # 0)
    BY <1>4, <1>5 DEF ThemeRight, ThemeInv
  <1> QED BY <1>4, <1>5, <1>6

LEMMA ThemeStep == ASSUME ~Hurried, OneAsked, ThemeInv, ThemeNext PROVE OneAsked' /\ ThemeInv' /\ Bumped
  <1> USE DEF OneAsked
  <1>0. /\ Keeper \subseteq Changer /\ "script" \in Changer /\ "script" \notin KeyTab
        /\ New \notin ThemeName /\ None \notin ThemeName /\ Keeper \subseteq KeyTab
    BY ServerAssumption DEF Changer, KeyTab, Audit
  <1>1. ASSUME NEW p \in Keeper, OpensThemes(p) PROVE OneAsked' /\ ThemeInv' /\ Bumped
    <2>1. \A q \in srvAsked : q.by # p
      BY <1>1 DEF OpensThemes, Waitless
    <2>2. NoThemes \in ThemeTab /\ NoThemes.at = None /\ NoThemes.sel = None /\ NoThemes.gone = {}
      BY DEF NoThemes, ThemeTab
    <2>3. ThemeList \in SUBSET OnList
      BY DEF ThemeList, OnList, ThemeInv
    <2>4. PICK q : q = ThemeRead(p)
      OBVIOUS
    <2>5. /\ themeTabs' = [themeTabs EXCEPT ![p] = NoThemes] /\ srvAsked' = srvAsked \cup {q}
          /\ themes' = themes /\ stamp' = stamp /\ srvChanges' = srvChanges
      BY <1>1, <2>4 DEF OpensThemes
    <2>6. q.by = p /\ q.kind = "themes" /\ q.at = srvChanges /\ q.shows = ThemeList
      BY <2>4 DEF ThemeRead
    <2>7. ThemeAlone(p)
      BY <1>0, <2>5, <2>6 DEF ThemeAlone, ThemeInv, ThemeAsked, ThemeAskedRight
    <2>8. themeTabs' \in [Keeper -> ThemeTab] /\ themeTabs'[p] = NoThemes
      BY <2>2, <2>5 DEF ThemeInv
    <2>9. ThemeTabRight(p)'
      BY <1>0, <2>2, <2>8 DEF ThemeTabRight
    <2>10. ThemeAskedRight(q)'
      BY <2>3, <2>5, <2>6, AtNow DEF ThemeAskedRight, AtKnown, ThemesFit, ThemeList
    <2>11. ThemeOwn(p)
      BY <2>1, <2>5, <2>6, <2>8, <2>9, <2>10 DEF ThemeOwn, ThemeInv, ThemeRight, ThemeKinds
    <2> QED BY <1>0, <2>7, <2>11, ThemesRest
  <1>2. ASSUME NEW p \in Keeper, OpenTheme(p) PROVE OneAsked' /\ ThemeInv' /\ Bumped
    <2>1. \A q \in srvAsked : q.by # p
      BY <1>2 DEF OpenTheme, Waitless
    <2>2. PICK t \in themeTabs[p].shows \cup {[name |-> New, css |-> stamp', tpl |-> 0]} :
            themeTabs' = [themeTabs EXCEPT ![p] =
              [themeTabs[p] EXCEPT !.sel = t.name, !.name = IF t.name = New THEN None ELSE t.name,
                        !.css = t.css, !.tpl = t.tpl, !.gone = @ \ {t.name}]]
      BY <1>2 DEF OpenTheme
    <2>2a. PICK nm : nm = IF t.name = New THEN None ELSE t.name
      OBVIOUS
    <2>3. PICK x : x = [themeTabs[p] EXCEPT !.sel = t.name, !.name = nm,
                        !.css = t.css, !.tpl = t.tpl, !.gone = themeTabs[p].gone \ {t.name}]
      OBVIOUS
    <2>4. themeTabs[p] \in ThemeTab /\ themeTabs[p].shows # None
      BY <1>2 DEF ThemeInv, OpenTheme
    <2>5. t.name \in ThemeName \cup {New} /\ t.css \in Nat \ {0} /\ t.tpl \in Nat
      BY <1>2, <2>4 DEF ThemeTab, OnList, OpenTheme
    <2>6. x \in ThemeTab /\ x.sel = t.name /\ x.css = t.css /\ x.gone = themeTabs[p].gone \ {t.name}
            /\ (t.name # New => x.name = t.name) /\ x.at = themeTabs[p].at /\ x.shows = themeTabs[p].shows /\ x.doubt = themeTabs[p].doubt
      BY <2>2a, <2>3, <2>4, <2>5 DEF ThemeTab
    <2>7. themeTabs' = [themeTabs EXCEPT ![p] = x] /\ srvAsked' = srvAsked /\ themes' = themes /\ srvChanges' = srvChanges /\ stamp' \in Nat
      <3>1. srvAsked' = srvAsked /\ themes' = themes /\ srvChanges' = srvChanges /\ stamp' = stamp + 1
        BY <1>2 DEF OpenTheme
      <3>2. themeTabs' = [themeTabs EXCEPT ![p] = x]
        BY <2>2, <2>2a, <2>3
      <3> QED BY <3>1, <3>2
    <2>8. ThemeAlone(p)
      BY <1>0, <2>7 DEF ThemeAlone, ThemeInv, ThemeAsked, ThemeAskedRight
    <2>9. themeTabs' \in [Keeper -> ThemeTab] /\ themeTabs'[p] = x
      BY <2>6, <2>7 DEF ThemeInv
    <2>10. ThemeTabRight(p)'
      BY <1>0, <2>5, <2>6, <2>7, <2>9 DEF ThemeTabRight, ThemeInv, ThemeDue, ThemeAsked, AtKnown, ThemesFit, OthersStay, ThemeList
    <2>11. ThemeOwn(p)
      BY <2>1, <2>7, <2>9, <2>10 DEF ThemeOwn, ThemeInv, ThemeRight
    <2> QED BY <1>0, <2>8, <2>11, ThemesRest
  <1>3. ASSUME NEW p \in Keeper, EditTheme(p) PROVE OneAsked' /\ ThemeInv' /\ Bumped
    <2>1. PICK n \in ThemeName \cup {None}, tpl \in {0, stamp'} :
            /\ n = themeTabs[p].name \/ (n \in ThemeName /\ themeTabs[p].sel = New /\ Waitless(p))
            /\ themeTabs' = [themeTabs EXCEPT ![p].name = n, ![p].css = stamp', ![p].tpl = tpl]
      <3>1. themeTabs[p].name \in ThemeName \cup {None}
        BY DEF ThemeInv, ThemeTab
      <3> QED BY <1>3, <3>1, Zenon DEF EditTheme
    <2>2. PICK x : x = [themeTabs[p] EXCEPT !.name = n, !.css = stamp', !.tpl = tpl]
      OBVIOUS
    <2>3. themeTabs[p] \in ThemeTab /\ themeTabs[p].sel # None /\ stamp' = stamp + 1
      BY <1>3 DEF ThemeInv, EditTheme
    <2>3a. stamp' \in Nat \ {0} /\ tpl \in Nat
      BY <2>3
    <2>4. x \in ThemeTab /\ x.css # 0 /\ x.name = n /\ x.sel = themeTabs[p].sel /\ x.gone = themeTabs[p].gone
            /\ x.at = themeTabs[p].at /\ x.shows = themeTabs[p].shows /\ x.doubt = themeTabs[p].doubt
      BY <2>2, <2>3, <2>3a DEF ThemeTab
    <2>5. themeTabs' = [themeTabs EXCEPT ![p] = x] /\ srvAsked' = srvAsked /\ themes' = themes /\ srvChanges' = srvChanges /\ stamp' \in Nat
      <3>1. srvAsked' = srvAsked /\ themes' = themes /\ srvChanges' = srvChanges /\ stamp' \in Nat
        BY <1>3, <2>3a DEF EditTheme
      <3>2. themeTabs' = [themeTabs EXCEPT ![p] = x]
        BY <2>1, <2>2 DEF ThemeInv
      <3> QED BY <3>1, <3>2
    <2>6. ThemeAlone(p)
      BY <1>0, <2>5 DEF ThemeAlone, ThemeInv, ThemeAsked, ThemeAskedRight
    <2>7. themeTabs' \in [Keeper -> ThemeTab] /\ themeTabs'[p] = x
      BY <2>4, <2>5 DEF ThemeInv
    <2>8. ThemeTabRight(p)'
      <3>1. ThemeTabRight(p) /\ (ThemeDue(p)' <=> ThemeDue(p))
        BY <2>5 DEF ThemeInv, ThemeDue, ThemeAsked
      <3>2. (AtKnown(x.at)' <=> AtKnown(x.at)) /\ (ThemesFit(p, x.shows, x.at)' <=> ThemesFit(p, x.shows, x.at))
        BY <2>5 DEF AtKnown, ThemesFit, OthersStay, ThemeList
      <3>3. x.sel \in ThemeName => x.sel = x.name
        BY <1>0, <2>1, <2>4, <3>1 DEF ThemeTabRight
      <3> QED BY <2>4, <2>7, <3>1, <3>2, <3>3 DEF ThemeTabRight
    <2>9. ASSUME NEW q \in srvAsked, q.by = p, q \notin KeyAsked PROVE q.kind \in ThemeKinds /\ ThemeAskedRight(q)'
      <3>1. q \in ThemeAsked /\ ThemeAskedRight(q) /\ n = themeTabs[p].name
        BY <2>1, <2>9 DEF ThemeAsked, KeyAsked, ThemeInv, Waitless
      <3> QED BY <3>1, <2>9, <2>4, <2>5, <2>7 DEF ThemeAskedRight, ThemeAsked, AtKnown, ThemesFit, OthersStay, ThemeList
    <2>10. ThemeOwn(p)
      BY <2>5, <2>7, <2>8, <2>9 DEF ThemeOwn, ThemeInv, ThemeRight
    <2> QED BY <1>0, <2>6, <2>10, ThemesRest
  <1>4. ASSUME NEW p \in Keeper, SaveTheme(p) PROVE OneAsked' /\ ThemeInv' /\ Bumped
    <2>1. PICK n, css, q : n = themeTabs[p].name /\ css = themeTabs[p].css /\ q = [by |-> p, kind |-> "half", name |-> n, tpl |-> themeTabs[p].tpl]
      OBVIOUS
    <2>2. /\ themeTabs[p].sel # None /\ n # None /\ Whole(n) /\ CssWritten(n, css) /\ SrvChanged(p)
          /\ srvAsked' = srvAsked \cup {q} /\ themeTabs' = themeTabs /\ stamp' = stamp
          /\ \A r \in srvAsked : r.by # p
      BY <1>4, <2>1 DEF SaveTheme, Waitless
    <2>3. themeTabs[p] \in ThemeTab /\ ThemeTabRight(p)
      BY DEF ThemeInv
    <2>4. n \in ThemeName /\ css \in Nat \ {0} /\ themeTabs[p].tpl \in Nat
      BY <2>1, <2>2, <2>3 DEF ThemeTab, ThemeTabRight
    <2>5. /\ themes' \in [ThemeName -> [css : Nat, tpl : Nat, own : BOOLEAN]]
          /\ themes'[n].css # 0
          /\ \A m \in ThemeName : ThemeRight(m)' /\ (themes[m].css # 0 => themes'[m].css # 0)
      BY <2>2, <2>4, CssFiles
    <2>6. ThemeAlone(p)
      BY <2>1, <2>2, <2>5 DEF ThemeAlone, ThemeInv, ThemeAskedRight
    <2>7. q.by = p /\ q.kind = "half" /\ q.name = n /\ q.tpl \in Nat
      BY <2>1, <2>4
    <2>8. ThemeTabRight(p)'
      <3>1. ThemeDue(p)'
        BY <2>2, <2>7 DEF ThemeDue, ThemeAsked, ThemeKinds
      <3>2. themeTabs[p].at # None => AtKnown(themeTabs[p].at)'
        BY <1>0, <2>2, <2>3, Older DEF ThemeTabRight, Bumped
      <3> QED BY <3>1, <3>2, <2>2, <2>3 DEF ThemeTabRight
    <2>9. ThemeAskedRight(q)'
      BY <2>1, <2>2, <2>4, <2>5, <2>7 DEF ThemeAskedRight
    <2>10. ThemeOwn(p)
      BY <2>2, <2>5, <2>7, <2>8, <2>9 DEF ThemeOwn, ThemeInv, ThemeKinds
    <2> QED BY <1>0, <2>6, <2>10, ThemesRest
  <1>5. ASSUME NEW p \in Keeper, DeleteTheme(p) PROVE OneAsked' /\ ThemeInv' /\ Bumped
    <2>1. PICK t \in themeTabs[p].shows :
            /\ Whole(t.name)
            /\ themes' = [themes EXCEPT ![t.name] = WithoutTheme(t.name)]
            /\ srvAsked' = srvAsked \cup {[by |-> p, kind |-> "deleted", name |-> t.name, open |-> themeTabs[p].sel = t.name]}
      BY <1>5 DEF DeleteTheme
    <2>2. PICK q : q = [by |-> p, kind |-> "deleted", name |-> t.name, open |-> themeTabs[p].sel = t.name]
      OBVIOUS
    <2>3. /\ SrvChanged(p) /\ srvAsked' = srvAsked \cup {q} /\ themeTabs' = themeTabs /\ stamp' = stamp
          /\ themeTabs[p].shows # None /\ \A r \in srvAsked : r.by # p
      BY <1>5, <2>1, <2>2 DEF DeleteTheme, Waitless
    <2>4. q.by = p /\ q.kind = "deleted" /\ q.name = t.name /\ q.open = (themeTabs[p].sel = t.name)
      BY <2>2
    <2>5. t.name \in ThemeName /\ themeTabs[p] \in ThemeTab /\ ThemeTabRight(p)
      BY <2>1, <2>3 DEF ThemeInv, ThemeTab, OnList
    <2>6. WithoutTheme(t.name) \in [css : Nat, tpl : Nat, own : BOOLEAN] /\ WithoutTheme(t.name).tpl = 0
      BY DEF WithoutTheme
    <2>7. themes' \in [ThemeName -> [css : Nat, tpl : Nat, own : BOOLEAN]]
            /\ \A m \in ThemeName : themes'[m] = IF m = t.name THEN WithoutTheme(t.name) ELSE themes[m]
      BY <2>1, <2>5, <2>6 DEF ThemeInv
    <2>8. \A m \in ThemeName : ThemeRight(m)'
      BY <2>6, <2>7 DEF ThemeRight, ThemeInv
    <2>9. ThemeAlone(p)
      BY <2>1, <2>3, <2>4, <2>7, WholeTheme DEF ThemeAlone, ThemeInv, ThemeAskedRight
    <2>10. ThemeTabRight(p)'
      <3>1. ThemeDue(p)'
        BY <2>3, <2>4 DEF ThemeDue, ThemeAsked, ThemeKinds
      <3>2. themeTabs[p].at # None => AtKnown(themeTabs[p].at)'
        BY <1>0, <2>3, <2>5, Older DEF ThemeTabRight, Bumped
      <3> QED BY <3>1, <3>2, <2>3, <2>5 DEF ThemeTabRight
    <2>11. ThemeAskedRight(q)'
      BY <2>3, <2>4, <2>5 DEF ThemeAskedRight
    <2>12. ThemeOwn(p)
      BY <2>3, <2>4, <2>7, <2>8, <2>10, <2>11 DEF ThemeOwn, ThemeInv, ThemeKinds
    <2> QED BY <1>0, <2>9, <2>12, ThemesRest
  <1>6. ASSUME NEW q \in srvAsked, ThemesShown(q) PROVE OneAsked' /\ ThemeInv' /\ Bumped
    <2>1. q \in ThemeAsked /\ ThemeAskedRight(q) /\ q.kind = "themes"
      BY <1>6 DEF ThemesShown, ThemeAsked, ThemeKinds, ThemeInv
    <2>2. PICK p \in Keeper : p = q.by
      BY <2>1 DEF ThemeAskedRight
    <2>3. PICK x : x = [themeTabs[p] EXCEPT !.shows = q.shows, !.at = q.at, !.doubt = FALSE]
      OBVIOUS
    <2>4. themeTabs[p] \in ThemeTab /\ ThemeTabRight(p)
      BY DEF ThemeInv
    <2>5. AtKnown(q.at) /\ q.at \in [Changer -> Nat] /\ q.shows \in SUBSET OnList /\ ThemesFit(p, q.shows, q.at)
      BY <2>1, <2>2 DEF ThemeAskedRight, AtKnown
    <2>6. x \in ThemeTab /\ x.css = themeTabs[p].css /\ x.name = themeTabs[p].name /\ x.sel = themeTabs[p].sel /\ x.gone = themeTabs[p].gone
            /\ x.at = q.at /\ x.shows = q.shows
      BY <2>3, <2>4, <2>5 DEF ThemeTab
    <2>7. themeTabs' = [themeTabs EXCEPT ![p] = x] /\ srvAsked' = srvAsked \ {q} /\ themes' = themes /\ srvChanges' = srvChanges /\ stamp' = stamp
      BY <1>6, <2>2, <2>3 DEF ThemesShown, SrvAnswered, ThemeInv
    <2>8. ThemeAlone(p)
      BY <1>0, <2>2, <2>7 DEF ThemeAlone, ThemeInv, ThemeAsked, ThemeAskedRight
    <2>9. themeTabs' \in [Keeper -> ThemeTab] /\ themeTabs'[p] = x
      BY <2>6, <2>7 DEF ThemeInv
    <2>10. ThemeTabRight(p)'
      BY <2>4, <2>5, <2>6, <2>7, <2>9 DEF ThemeTabRight, AtKnown, ThemesFit, OthersStay, ThemeList
    <2>11. \A r \in srvAsked' : r.by # p
      BY <2>2, <2>7
    <2>12. ThemeOwn(p)
      BY <2>7, <2>9, <2>10, <2>11 DEF ThemeOwn, ThemeInv, ThemeRight
    <2> QED BY <1>0, <2>8, <2>12, ThemesRest
  <1>7. ASSUME NEW q \in srvAsked, TemplatesWritten(q) PROVE OneAsked' /\ ThemeInv' /\ Bumped
    <2>1. q \in ThemeAsked /\ ThemeAskedRight(q) /\ q.kind = "half"
      BY <1>7 DEF TemplatesWritten, ThemeAsked, ThemeKinds, ThemeInv
    <2>2. PICK p \in Keeper : p = q.by
      BY <2>1 DEF ThemeAskedRight
    <2>3. PICK n \in ThemeName : n = q.name
      BY <2>1 DEF ThemeAskedRight
    <2>4. PICK r : /\ r \in {[by |-> p, kind |-> "saved", name |-> n, ok |-> TRUE], [by |-> p, kind |-> "saved", name |-> n, ok |-> FALSE]}
                   /\ srvAsked' = (srvAsked \ {q}) \cup {r}
      BY <1>7, <2>2, <2>3 DEF TemplatesWritten, SrvAnswered
    <2>5. r.by = p /\ r.kind = "saved" /\ r.name = n
      BY <2>4
    <2>6. SrvChanged(p) /\ themeTabs' = themeTabs /\ stamp' = stamp
      BY <1>7, <2>2 DEF TemplatesWritten
    <2>7. themes[n] \in [css : Nat, tpl : Nat, own : BOOLEAN] /\ q.tpl \in Nat /\ themes[n].css # 0
      BY <2>1, <2>3 DEF ThemeInv, ThemeAskedRight
    <2>8. PICK x : x = [themes[n] EXCEPT !.tpl = q.tpl, !.own = TRUE]
      OBVIOUS
    <2>9. x \in [css : Nat, tpl : Nat, own : BOOLEAN] /\ x.css = themes[n].css /\ x.tpl = q.tpl /\ x.own
      BY <2>7, <2>8
    <2>10. themes' = themes \/ themes' = [themes EXCEPT ![n] = x]
      BY <1>7, <2>3, <2>8 DEF TemplatesWritten, ThemeInv
    <2>11. themes' \in [ThemeName -> [css : Nat, tpl : Nat, own : BOOLEAN]] /\ \A m \in ThemeName : themes'[m] = themes[m] \/ (m = n /\ themes'[m] = x)
      BY <2>9, <2>10 DEF ThemeInv
    <2>12. \A m \in ThemeName : ThemeRight(m)' /\ (themes[m].css # 0 => themes'[m].css # 0)
      BY <2>7, <2>9, <2>11 DEF ThemeRight, ThemeInv
    <2>13. ThemeAlone(p)
      BY <2>2, <2>4, <2>5, <2>6, <2>12 DEF ThemeAlone, ThemeInv, ThemeAskedRight
    <2>14. ThemeTabRight(p)'
      <3>1. ThemeDue(p)'
        BY <2>4, <2>5 DEF ThemeDue, ThemeAsked, ThemeKinds
      <3>2. themeTabs[p].at # None => AtKnown(themeTabs[p].at)'
        BY <1>0, <2>6, Older DEF ThemeTabRight, Bumped, ThemeInv
      <3> QED BY <3>1, <3>2, <2>6 DEF ThemeTabRight, ThemeInv
    <2>15. ThemeAskedRight(r)'
      BY <2>1, <2>2, <2>3, <2>5, <2>6 DEF ThemeAskedRight
    <2>16. \A s \in srvAsked' : s.by = p => s = r
      BY <2>2, <2>4
    <2>17. ThemeOwn(p)
      BY <2>5, <2>6, <2>11, <2>12, <2>14, <2>15, <2>16 DEF ThemeOwn, ThemeInv, ThemeKinds
    <2> QED BY <1>0, <2>13, <2>17, ThemesRest
  <1>8. ASSUME NEW q \in srvAsked, ThemeSaved(q) PROVE OneAsked' /\ ThemeInv' /\ Bumped
    <2>1. q \in ThemeAsked /\ ThemeAskedRight(q) /\ q.kind = "saved"
      BY <1>8 DEF ThemeSaved, ThemeAsked, ThemeKinds, ThemeInv
    <2>2. PICK p \in Keeper : p = q.by
      BY <2>1 DEF ThemeAskedRight
    <2>3. PICK sel, doubt : sel = (IF q.ok THEN q.name ELSE themeTabs[p].sel) /\ doubt = (themeTabs[p].doubt \/ ~q.ok)
      OBVIOUS
    <2>4. PICK x : x = [themeTabs[p] EXCEPT !.sel = sel, !.gone = themeTabs[p].gone \ {q.name}, !.doubt = doubt]
      OBVIOUS
    <2>5. themeTabs[p] \in ThemeTab /\ ThemeTabRight(p)
      BY DEF ThemeInv
    <2>6. q.name \in ThemeName /\ themeTabs[p].sel # None /\ themeTabs[p].name = q.name
      BY <2>1, <2>2 DEF ThemeAskedRight
    <2>7. sel \in ThemeName \cup {None, New} /\ doubt \in BOOLEAN /\ sel # None
      BY <1>0, <2>3, <2>5, <2>6 DEF ThemeTab
    <2>8. x \in ThemeTab /\ x.css = themeTabs[p].css /\ x.name = themeTabs[p].name /\ x.sel = sel /\ x.gone = themeTabs[p].gone \ {q.name}
            /\ x.at = themeTabs[p].at /\ x.shows = themeTabs[p].shows /\ x.doubt = doubt
      BY <2>4, <2>5, <2>7 DEF ThemeTab
    <2>9. themeTabs' = [themeTabs EXCEPT ![p] = x]
      BY <1>8, <2>2, <2>3, <2>4 DEF ThemeSaved, ThemeInv
    <2>10. PICK more : srvAsked' = (srvAsked \ {q}) \cup more /\ more = IF q.ok THEN {ThemeRead(p)} ELSE {}
      BY <1>8, <2>2 DEF ThemeSaved, SrvAnswered
    <2>11. themes' = themes /\ srvChanges' = srvChanges /\ stamp' = stamp
      BY <1>8 DEF ThemeSaved
    <2>12. PICK r : r = ThemeRead(p)
      OBVIOUS
    <2>13. r.by = p /\ r.kind = "themes" /\ r.at = srvChanges /\ r.shows = ThemeList
      BY <2>12 DEF ThemeRead
    <2>14. ThemeAlone(p)
      BY <1>0, <2>2, <2>9, <2>10, <2>11, <2>12, <2>13 DEF ThemeAlone, ThemeInv, ThemeAsked, ThemeAskedRight
    <2>15. themeTabs' \in [Keeper -> ThemeTab] /\ themeTabs'[p] = x
      BY <2>8, <2>9 DEF ThemeInv
    <2>16. (AtKnown(x.at)' <=> AtKnown(x.at)) /\ (ThemesFit(p, x.shows, x.at)' <=> ThemesFit(p, x.shows, x.at))
      BY <2>11 DEF AtKnown, ThemesFit, OthersStay, ThemeList
    <2>17. ThemeDue(p)' \/ doubt
      BY <2>3, <2>10, <2>12, <2>13 DEF ThemeDue, ThemeAsked, ThemeKinds
    <2>18. sel \notin x.gone /\ (sel \in ThemeName => sel = x.name)
      BY <2>3, <2>5, <2>6, <2>8 DEF ThemeTabRight
    <2>19. ThemeTabRight(p)'
      BY <2>5, <2>6, <2>8, <2>15, <2>16, <2>17, <2>18 DEF ThemeTabRight
    <2>20. ThemeList \in SUBSET OnList
      BY DEF ThemeList, OnList, ThemeInv
    <2>21. ThemeAskedRight(r)'
      BY <2>11, <2>13, <2>20, AtNow DEF ThemeAskedRight, AtKnown, ThemesFit, ThemeList
    <2>22. \A s \in srvAsked' : s.by = p => s = r
      BY <2>2, <2>10, <2>12
    <2>23. ThemeOwn(p)
      BY <2>11, <2>13, <2>15, <2>19, <2>21, <2>22 DEF ThemeOwn, ThemeInv, ThemeRight, ThemeKinds
    <2> QED BY <1>0, <2>14, <2>23, ThemesRest
  <1>9. ASSUME NEW q \in srvAsked, ThemeDeleted(q) PROVE OneAsked' /\ ThemeInv' /\ Bumped
    <2>1. q \in ThemeAsked /\ ThemeAskedRight(q) /\ q.kind = "deleted"
      BY <1>9 DEF ThemeDeleted, ThemeAsked, ThemeKinds, ThemeInv
    <2>2. PICK p \in Keeper : p = q.by
      BY <2>1 DEF ThemeAskedRight
    <2>3. themeTabs[p] \in ThemeTab /\ ThemeTabRight(p)
      BY DEF ThemeInv
    <2>4. q.name \in ThemeName /\ q.open = (themeTabs[p].sel = q.name)
      BY <2>1, <2>2 DEF ThemeAskedRight
    <2>5. PICK kept : kept = IF q.open THEN [themeTabs[p] EXCEPT !.sel = None, !.name = None, !.css = 0, !.tpl = 0] ELSE themeTabs[p]
      OBVIOUS
    <2>6. kept \in ThemeTab /\ kept.gone = themeTabs[p].gone /\ kept.at = themeTabs[p].at /\ kept.shows = themeTabs[p].shows /\ kept.doubt = themeTabs[p].doubt
      BY <2>3, <2>5 DEF ThemeTab
    <2>7. kept.sel = None \/ (kept.sel = themeTabs[p].sel /\ kept.name = themeTabs[p].name /\ kept.css = themeTabs[p].css /\ kept.sel # q.name)
      BY <2>3, <2>4, <2>5 DEF ThemeTab
    <2>8. PICK x : x = [kept EXCEPT !.gone = kept.gone \cup {q.name}]
      OBVIOUS
    <2>9. x \in ThemeTab /\ x.css = kept.css /\ x.name = kept.name /\ x.sel = kept.sel /\ x.gone = kept.gone \cup {q.name}
            /\ x.at = kept.at /\ x.shows = kept.shows /\ x.doubt = kept.doubt
      BY <2>4, <2>6, <2>8 DEF ThemeTab
    <2>10. themeTabs' = [themeTabs EXCEPT ![p] = x]
      BY <1>9, <2>2, <2>5, <2>8 DEF ThemeDeleted, Closes
    <2>11. PICK r : r = ThemeRead(p)
      OBVIOUS
    <2>12. srvAsked' = (srvAsked \ {q}) \cup {r} /\ themes' = themes /\ srvChanges' = srvChanges /\ stamp' = stamp
      BY <1>9, <2>2, <2>11 DEF ThemeDeleted, SrvAnswered
    <2>13. r.by = p /\ r.kind = "themes" /\ r.at = srvChanges /\ r.shows = ThemeList
      BY <2>11 DEF ThemeRead
    <2>14. ThemeAlone(p)
      BY <1>0, <2>2, <2>10, <2>12, <2>13 DEF ThemeAlone, ThemeInv, ThemeAsked, ThemeAskedRight
    <2>15. themeTabs' \in [Keeper -> ThemeTab] /\ themeTabs'[p] = x
      BY <2>9, <2>10 DEF ThemeInv
    <2>16. AtKnown(x.at)' <=> AtKnown(x.at)
      BY <2>12 DEF AtKnown
    <2>17. ThemeDue(p)'
      BY <2>12, <2>13 DEF ThemeDue, ThemeAsked, ThemeKinds
    <2>18. x.sel \notin x.gone /\ (x.sel \in ThemeName => x.sel = x.name) /\ (x.sel # None => x.css # 0)
      BY <1>0, <2>3, <2>4, <2>6, <2>7, <2>9 DEF ThemeTabRight, ThemeTab
    <2>19. ThemeTabRight(p)'
      BY <2>3, <2>6, <2>9, <2>15, <2>16, <2>17, <2>18 DEF ThemeTabRight
    <2>20. ThemeList \in SUBSET OnList
      BY DEF ThemeList, OnList, ThemeInv
    <2>21. ThemeAskedRight(r)'
      BY <2>12, <2>13, <2>20, AtNow DEF ThemeAskedRight, AtKnown, ThemesFit, ThemeList
    <2>22. \A s \in srvAsked' : s.by = p => s = r
      BY <2>2, <2>12
    <2>23. ThemeOwn(p)
      BY <2>12, <2>13, <2>15, <2>19, <2>21, <2>22 DEF ThemeOwn, ThemeInv, ThemeRight, ThemeKinds
    <2> QED BY <1>0, <2>14, <2>23, ThemesRest
  <1>10. ASSUME NEW n \in ThemeName, StyleAlone(n) PROVE OneAsked' /\ ThemeInv' /\ Bumped
    <2>1. stamp' \in Nat \ {0} /\ CssWritten(n, stamp') /\ SrvChanged("script") /\ themeTabs' = themeTabs /\ srvAsked' = srvAsked
      BY <1>10 DEF StyleAlone
    <2>2. /\ themes' \in [ThemeName -> [css : Nat, tpl : Nat, own : BOOLEAN]]
          /\ \A m \in ThemeName : ThemeRight(m)' /\ (themes[m].css # 0 => themes'[m].css # 0)
      BY <2>1, CssFiles
    <2>3. ThemeAlone("script")
      BY <2>1, <2>2 DEF ThemeAlone, ThemeInv, ThemeAskedRight
    <2>4. \A s \in srvAsked' : s.by # "script"
      BY <1>0, <2>1
    <2>5. ThemeOwn("script")
      BY <1>0, <2>1, <2>2, <2>4 DEF ThemeOwn, ThemeInv
    <2> QED BY <1>0, <2>3, <2>5, ThemesRest
  <1> QED BY <1>1, <1>2, <1>3, <1>4, <1>5, <1>6, <1>7, <1>8, <1>9, <1>10 DEF ThemeNext

-----------------------------------------------------------------------------
(* The restart, and the three pages together.                              *)

BootInv ==
  /\ server \in [id : Nat, draining : BOOLEAN, triggers : {0, 1}]
  /\ restarts \in [Keeper -> [stage : {"idle", "read", "waiting"}, before : Nat, asked : Nat]]
  /\ \A p \in Keeper : restarts[p].stage = "waiting" => restarts[p].asked = restarts[p].before
  /\ \A l \in landed : l.on # l.asked

LEMMA BootStep == ASSUME ~Hurried, BootInv, BootNext PROVE BootInv'
  <1>1. CASE Reexec
    BY <1>1 DEF Reexec, BootInv
  <1>2. ASSUME NEW p \in Keeper, ReadsBoot(p) PROVE BootInv'
    BY <1>2 DEF ReadsBoot, BootInv
  <1>3. ASSUME NEW p \in Keeper, AsksRestart(p) PROVE BootInv'
    BY <1>3 DEF AsksRestart, BootInv, Triggers
  <1>4. ASSUME NEW p \in Keeper, RestartFails(p) PROVE BootInv'
    BY <1>4 DEF RestartFails, BootInv
  <1>5. ASSUME NEW p \in Keeper, PollsBoot(p) PROVE BootInv'
    BY <1>5 DEF PollsBoot, BootInv, Another
  <1> QED BY <1>1, <1>2, <1>3, <1>4, <1>5 DEF BootNext

ServerInv == OneAsked /\ KeyInv /\ ThemeInv /\ BootInv

LEMMA ServerStart == ASSUME Init PROVE ServerInv
  <1> SUFFICES ASSUME ServerInit PROVE ServerInv
    BY DEF Init
  <1>1. srvAsked = {} /\ KeyAsked = {} /\ ThemeAsked = {}
    BY DEF ServerInit, KeyAsked, ThemeAsked
  <1>2. OneAsked
    BY <1>1 DEF ServerInit, OneAsked, Changer
  <1>3. KeyInv
    BY <1>1 DEF ServerInit, KeyInv, KeyTabRight, NoKeys
  <1>4. NoThemes \in ThemeTab /\ NoThemes.at = None /\ NoThemes.sel = None /\ NoThemes.gone = {}
    BY DEF NoThemes, ThemeTab
  <1>5. None \notin ThemeName
    BY ServerAssumption
  <1>6. ThemeInv
    BY <1>1, <1>4, <1>5 DEF ServerInit, ThemeInv, ThemeTabRight, ThemeRight
  <1>7. BootInv
    BY DEF ServerInit, BootInv
  <1> QED BY <1>2, <1>3, <1>6, <1>7 DEF ServerInv

LEMMA ServerStep == ASSUME ~Hurried, ServerInv, [Next]_vars PROVE ServerInv'
  <1>1. CASE KeyNext /\ UNCHANGED <<themeVars, bootVars>>
    <2>1. OneAsked' /\ KeyInv'
      BY <1>1, KeyStep DEF ServerInv
    <2>2. Bumped
      BY <1>1, Zenon DEF KeyNext, Bumped, OpensKeys, KeysShown, CreateKey, CreateCliKey, KeyCreated, KeyMade, RevokeKey, KeyRevoked,
           Changer
    <2>3. ThemeAsked' = ThemeAsked
      <3>1. ASSUME NEW t \in KeyTab, OpensKeys(t) PROVE ThemeAsked' = ThemeAsked
        BY <3>1 DEF OpensKeys, KeyRead, ThemeAsked, ThemeKinds
      <3>2. ASSUME NEW t \in KeyTab, CreateKey(t) \/ CreateCliKey(t) PROVE ThemeAsked' = ThemeAsked
        BY <3>2 DEF CreateKey, CreateCliKey, KeyCreated, ThemeAsked, ThemeKinds
      <3>3. ASSUME NEW t \in KeyTab, RevokeKey(t) PROVE ThemeAsked' = ThemeAsked
        BY <3>3 DEF RevokeKey, ThemeAsked, ThemeKinds
      <3>4. ASSUME NEW q \in srvAsked, KeysShown(q) \/ KeyMade(q) \/ KeyRevoked(q) PROVE ThemeAsked' = ThemeAsked
        BY <3>4 DEF KeysShown, KeyMade, KeyRevoked, SrvAnswered, ListAgain, KeyRead, ThemeAsked, ThemeKinds
      <3> QED BY <1>1, <3>1, <3>2, <3>3, <3>4 DEF KeyNext
    <2>4. ThemeInv'
      BY <1>1, <2>2, <2>3, ThemesAside DEF ServerInv
    <2>5. BootInv'
      BY <1>1 DEF ServerInv, BootInv, bootVars
    <2> QED BY <2>1, <2>4, <2>5 DEF ServerInv
  <1>2. CASE ThemeNext /\ UNCHANGED <<keyVars, bootVars>>
    <2>1. OneAsked' /\ ThemeInv' /\ Bumped
      BY <1>2, ThemeStep DEF ServerInv
    <2>2. KeyAsked' = KeyAsked
      <3>1. ASSUME NEW p \in Keeper, OpensThemes(p) \/ OpenTheme(p) \/ EditTheme(p) PROVE KeyAsked' = KeyAsked
        <4>1. CASE OpensThemes(p)
          BY <4>1 DEF OpensThemes, ThemeRead, KeyAsked, KeyKinds
        <4>2. CASE OpenTheme(p)
          BY <4>2, Zenon DEF OpenTheme, KeyAsked
        <4>3. CASE EditTheme(p)
          BY <4>3, Zenon DEF EditTheme, KeyAsked
        <4> QED BY <3>1, <4>1, <4>2, <4>3
      <3>2. ASSUME NEW p \in Keeper, SaveTheme(p) PROVE KeyAsked' = KeyAsked
        BY <3>2 DEF SaveTheme, KeyAsked, KeyKinds
      <3>3. ASSUME NEW p \in Keeper, DeleteTheme(p) PROVE KeyAsked' = KeyAsked
        BY <3>3 DEF DeleteTheme, KeyAsked, KeyKinds
      <3>4. ASSUME NEW q \in srvAsked, ThemesShown(q) \/ TemplatesWritten(q) \/ ThemeSaved(q) \/ ThemeDeleted(q)
            PROVE  KeyAsked' = KeyAsked
        BY <3>4 DEF ThemesShown, TemplatesWritten, ThemeSaved, ThemeDeleted, SrvAnswered, ThemeRead, KeyAsked, KeyKinds
      <3>5. ASSUME NEW n \in ThemeName, StyleAlone(n) PROVE KeyAsked' = KeyAsked
        BY <3>5 DEF StyleAlone, KeyAsked
      <3> QED BY <1>2, <3>1, <3>2, <3>3, <3>4, <3>5 DEF ThemeNext
    <2>3. KeyInv'
      BY <1>2, <2>1, <2>2, KeysAside DEF ServerInv
    <2>4. BootInv'
      BY <1>2 DEF ServerInv, BootInv, bootVars
    <2> QED BY <2>1, <2>3, <2>4 DEF ServerInv
  <1>3. CASE UNCHANGED <<keyVars, themeVars, srvAsked, stamp, srvChanges>> /\ (BootNext \/ UNCHANGED bootVars)
    <2>1. BootInv'
      BY <1>3, BootStep DEF ServerInv, BootInv, bootVars
    <2>2. OneAsked' /\ Bumped /\ UNCHANGED <<KeyAsked, ThemeAsked>>
      BY <1>3 DEF ServerInv, OneAsked, Bumped, KeyAsked, ThemeAsked
    <2>3. KeyInv' /\ ThemeInv'
      BY <1>3, <2>2, KeysAside, ThemesAside DEF ServerInv
    <2> QED BY <2>1, <2>2, <2>3 DEF ServerInv
  <1>4. ServerNext \/ UNCHANGED serverVars
    BY ServerSteps
  <1> QED BY <1>1, <1>2, <1>3, <1>4 DEF ServerNext, serverVars

LEMMA ServerMeans == ASSUME ServerInv PROVE ServerRight
  <1>1. /\ Keeper \subseteq Changer /\ KeyTab \subseteq Changer /\ DOMAIN srvChanges = Changer
    BY DEF ServerInv, OneAsked, Changer, KeyTab
  <1>2. KeysTrue
    <2> SUFFICES ASSUME NEW t \in KeyTab, Knows(t, keyTabs[t].at) PROVE keyTabs[t].shows = KeyList(t)
      BY DEF KeysTrue
    <2>1. ~KeyDue(t) /\ keyTabs[t].at # None
      BY DEF Knows, Waitless, KeyDue, KeyAsked
    <2>2. OthersStay(t, keyTabs[t].at)
      BY <1>1 DEF Knows, OthersStay
    <2> QED BY <2>1, <2>2 DEF ServerInv, KeyInv, KeyTabRight, KeysFit
  <1>3. ThemesTrue
    <2> SUFFICES ASSUME NEW p \in Keeper
                 PROVE  /\ Knows(p, themeTabs[p].at) /\ ~themeTabs[p].doubt => themeTabs[p].shows = ThemeList
                        /\ themeTabs[p].sel \notin themeTabs[p].gone
                        /\ themeTabs[p].sel \notin {None, New} => themeTabs[p].sel = themeTabs[p].name
      BY DEF ThemesTrue
    <2>1. ThemeTabRight(p) /\ themeTabs[p].sel \in ThemeName \cup {None, New}
      BY DEF ServerInv, ThemeInv, ThemeTab
    <2>2. ASSUME Knows(p, themeTabs[p].at) PROVE ~ThemeDue(p) /\ themeTabs[p].at # None /\ OthersStay(p, themeTabs[p].at)
      BY <2>2, <1>1 DEF Knows, Waitless, ThemeDue, ThemeAsked, OthersStay
    <2> QED BY <2>1, <2>2 DEF ThemeTabRight, ThemesFit
  <1>4. TemplatesOwn
    BY DEF TemplatesOwn, ServerInv, ThemeInv, ThemeRight
  <1>5. RestartRight
    BY DEF RestartRight, ServerInv, BootInv
  <1> QED BY <1>2, <1>3, <1>4, <1>5 DEF ServerRight

\* ServerRight for any tabs, tokens, themes and numbers of changes (Settings.jsx TokensTab,
\* AdminPanel.jsx MarpThemesTab, marp_themes.go, restart.go), as long as no two saves of a
\* theme overlap and a page that restarts the server knows its process: tokens and themes
\* are shown as they are, and a page reloads on another process than the one it told.
THEOREM ServerHolds == ASSUME ~Hurried PROVE Spec => []ServerRight
  <1>1. Init => ServerInv
    BY ServerStart
  <1>2. ServerInv /\ [Next]_vars => ServerInv'
    BY ServerStep
  <1>3. ServerInv => ServerRight
    BY ServerMeans
  <1> QED BY <1>1, <1>2, <1>3, PTL DEF Spec

-----------------------------------------------------------------------------
(* Who may reach a namespace.                                              *)

LEMMA AdminSteps == ASSUME [Next]_vars PROVE AdminNext \/ UNCHANGED adminVars
  BY DEF Next, PageNext, ToolNext, RestNext, vars, restVars

-----------------------------------------------------------------------------
(* Access, as the server keeps it.                                         *)

IsAccess(a) ==
  \E g, t, k, h : \E r \in [Person -> Role \cup {None}], n, m \in SUBSET Person :
     a = [role |-> r, admins |-> n, grants |-> g, members |-> m, team |-> t, made |-> k, there |-> h]

IsGrant(g) ==
  \E i, w : \E path \in Subpath, perm \in {"read", "write"} : g = Grant(i, w, path, perm)

\* A person or the group has one grant on a path.
OneGrant(a) == \A g, h \in a.grants : g.who = h.who /\ g.path = h.path => g = h

\* Of somebody who is not there nothing is left.
LeftBare(a, w) == w \notin a.admins /\ w \notin a.members /\ \A g \in a.grants : g.who # w
AllBare(a) == \A w \in Person : a.role[w] = None => LeftBare(a, w)

\* The role follows the namespace.
RoleFollows(a) == \A w \in a.admins : a.role[w] \in {"admin", "superadmin"}
Managed(a) == \E w \in Person : a.role[w] = "superadmin"

AccessRight(a) ==
  IsAccess(a) /\ (\A g \in a.grants : IsGrant(g)) /\ OneGrant(a) /\ AllBare(a) /\ RoleFollows(a) /\ Managed(a)

-----------------------------------------------------------------------------
(* What a page has read, and waits for.                                    *)

CallsOf(p) == {c \in pending : c.by = p}
IsCount(at) == at \in [Person -> Nat] /\ \A w \in Person : at[w] <= wrote[w]

LoadsFor(p, super) == badge[p] = "superadmin" \/ (~super /\ badge[p] = "admin")

\* The directory as it would be read now, and its first round.
PeopleGrants(p) == IF Administers(p) THEN {g \in access.grants : g.who # Team} ELSE {}
DirNow(p, super) ==
  [role |-> access.role,
   grants |-> PeopleGrants(p) \cup (IF super THEN {g \in access.grants : g.who = Team} ELSE {}),
   members |-> IF super THEN access.members ELSE {},
   admins |-> IF Administers(p) THEN access.admins ELSE {}]

\* What somebody who is added was to have, and has.
HoldsOf(grants, w) == {[path |-> g.path, perm |-> g.perm] : g \in {h \in grants : h.who = w}}
Holds(w) == HoldsOf(access.grants, w)
AllOfIt == {[path |-> "/", perm |-> "write"]}
ToHold(ch) == {[path |-> ch.path, perm |-> ch.perm]}

GivenBySuper(ch, todo) ==
  /\ todo \subseteq FollowUps(ch, TRUE)
  /\ (ch.ns /\ "give" \notin todo) => ToHold(ch) \subseteq Holds(Newcomer)
  /\ Holds(Newcomer) \subseteq (IF ch.ns /\ "give" \notin todo THEN ToHold(ch) ELSE {})
                               \cup (IF ch.admin /\ "promote" \notin todo THEN AllOfIt ELSE {})
  /\ Newcomer \in access.members <=> ch.team /\ "join" \notin todo
  /\ Newcomer \in access.admins <=> ch.admin /\ "promote" \notin todo

GivenByAdmin(ch, todo) ==
  /\ todo \subseteq FollowUps(ch, FALSE) /\ ("take" \in todo => "give" \in todo)
  /\ ("take" \in todo \/ "set" \in todo) => Holds(Newcomer) = AllOfIt
  /\ ("take" \notin todo /\ "give" \in todo) => Holds(Newcomer) = {}
  /\ todo = {} => Holds(Newcomer) = ToHold(ch)
  /\ Newcomer \notin access.members
  /\ Newcomer \in access.admins <=> ch.admin

GivenTo(ch, super, todo) ==
  /\ Sensible(ch, super)
  /\ IF super THEN GivenBySuper(ch, todo) ELSE GivenByAdmin(ch, todo)

\* What was chosen is there.
AsChosen(ch) ==
  /\ (IF ch.ns THEN ToHold(ch) ELSE {}) \subseteq Holds(Newcomer)
  /\ Holds(Newcomer) \subseteq (IF ch.ns THEN ToHold(ch) ELSE {}) \cup (IF ch.admin THEN AllOfIt ELSE {})
  /\ Newcomer \in access.members <=> ch.team
  /\ Newcomer \in access.admins <=> ch.admin

IsPanel(x) ==
  \E t, d, l, a, i : \E s \in BOOLEAN :
     x = [tab |-> t, super |-> s, dir |-> d, list |-> l, at |-> a, invited |-> i]

LoadedRight(p, c) ==
  /\ panel[p].tab = "people" /\ c.super = panel[p].super /\ c.ok = LoadsFor(p, c.super) /\ IsCount(c.at)
  /\ OthersQuiet(p, c.at) => c.role = access.role /\ c.grants = PeopleGrants(p)

ListingRight(p, c) ==
  /\ c.tab = panel[p].tab /\ c.tab \in {"groups", "share"} /\ IsCount(c.at)
  /\ OthersQuiet(p, c.at) => c.copy = OwnCopy(c.tab)

ClickedRight(p, c) == panel[p].tab \in {"people", "groups", "share"} /\ panel[p].invited = None

IsInvite(c) ==
  \E p, ch, at, todo : \E super, failed \in BOOLEAN :
     c = [kind |-> "invite", by |-> p, ch |-> ch, super |-> super, at |-> at, todo |-> todo, failed |-> failed]
InviteRight(p, c) ==
  /\ IsInvite(c) /\ panel[p].tab = "people" /\ panel[p].invited = None /\ c.super = panel[p].super /\ IsCount(c.at)
  /\ c.ch \in Choices /\ Sensible(c.ch, c.super) /\ c.todo \subseteq FollowUps(c.ch, c.super)
  /\ ~c.failed /\ OthersQuiet(p, c.at) => GivenTo(c.ch, c.super, c.todo)

CalledRight(p, c) ==
  \/ c.kind = "load" /\ LoadedRight(p, c)
  \/ c.kind = "list" /\ ListingRight(p, c)
  \/ c.kind = "click" /\ ClickedRight(p, c)
  \/ c.kind = "invite" /\ InviteRight(p, c)

\* What a page that waits for nothing shows.
DirTrue(p) ==
  panel[p].dir # None =>
    /\ LoadsFor(p, panel[p].super) /\ IsCount(panel[p].at)
    /\ panel[p].tab = "people" /\ CallsOf(p) = {} /\ (panel[p].invited # None => ~panel[p].invited.failed)
       /\ OthersQuiet(p, panel[p].at) => panel[p].dir = DirNow(p, panel[p].super)

CopyRight(p) ==
  panel[p].list # None =>
    /\ panel[p].tab \in {"groups", "share"} /\ IsCount(panel[p].at)
    /\ (\A c \in CallsOf(p) : c.kind = "click" /\ ~c.ok) /\ OthersQuiet(p, panel[p].at)
         => panel[p].list = OwnCopy(panel[p].tab)

InvitedRight(p) ==
  panel[p].invited # None =>
    /\ panel[p].invited.failed \in BOOLEAN /\ panel[p].invited.ch \in Choices /\ IsCount(panel[p].invited.at)
    /\ \A c \in CallsOf(p) : c.kind \in {"load", "list"}
    /\ ~panel[p].invited.failed /\ OthersQuiet(p, panel[p].invited.at) => AsChosen(panel[p].invited.ch)

PersonRight(p) ==
  /\ IsPanel(panel[p])
  /\ \A c, d \in CallsOf(p) : c = d
  /\ \A c \in CallsOf(p) : CalledRight(p, c)
  /\ DirTrue(p) /\ CopyRight(p) /\ InvitedRight(p)

AdminInv ==
  /\ AccessRight(access)
  /\ DOMAIN badge = Person /\ DOMAIN panel = Person /\ wrote \in [Person -> Nat]
  /\ \A c \in pending : c.by \in Person
  /\ \A p \in Person : PersonRight(p)

-----------------------------------------------------------------------------
(* What a request does to access.                                          *)

AccessOf(r, n, g, m, t, k, h) ==
  [role |-> r, admins |-> n, grants |-> g, members |-> m, team |-> t, made |-> k, there |-> h]

LEMMA AccessForm ==
  ASSUME NEW a, IsAccess(a)
  PROVE  /\ a = AccessOf(a.role, a.admins, a.grants, a.members, a.team, a.made, a.there)
         /\ a.role \in [Person -> Role \cup {None}] /\ a.admins \in SUBSET Person /\ a.members \in SUBSET Person
  BY DEF IsAccess, AccessOf

LEMMA AccessFields ==
  ASSUME NEW r, NEW n, NEW g, NEW m, NEW t, NEW k, NEW h, NEW b, b = AccessOf(r, n, g, m, t, k, h)
  PROVE  /\ b.role = r /\ b.admins = n /\ b.grants = g /\ b.members = m
         /\ r \in [Person -> Role \cup {None}] /\ n \in SUBSET Person /\ m \in SUBSET Person => IsAccess(b)
  BY DEF IsAccess, AccessOf

LEMMA AccessFlat ==
  ASSUME NEW a, IsAccess(a)
  PROVE  \E r, n, g, m, t, k, h :
           /\ a = AccessOf(r, n, g, m, t, k, h) /\ a.role = r /\ a.admins = n /\ a.grants = g /\ a.members = m
           /\ a.team = t /\ a.made = k /\ a.there = h
  BY DEF IsAccess, AccessOf

OpRight(op) ==
  /\ op.do \in {"role", "delete", "join", "leave", "team", "namespace", "promote", "demote", "give", "set", "take"}
  /\ op.do \in {"role", "delete", "join", "promote", "demote"} => op.who \in Person
  /\ op.do = "role" => op.perm \in Role /\ (op.who \in access.admins => op.perm # "collaborator")
  /\ op.do \in {"give", "set"} => op.perm \in {"read", "write"}
  /\ op.do = "give" => op.who \in Person \cup {Team} /\ op.path \in Subpath

LEMMA RoleIs == ASSUME NEW w \in Person, AccessRight(access) PROVE access.role[w] \in Role \/ access.role[w] = None
  BY AccessForm DEF AccessRight

LEMMA RoleOp ==
  ASSUME AccessRight(access), NEW by, NEW op, op.do = "role", OpRight(op), Permitted(by, op)
  PROVE  AccessRight(Carried(op))
  <1>1. PICK a : a = access
    OBVIOUS
  <1>2. PICK b : b = [a EXCEPT !.role[op.who] = op.perm]
    OBVIOUS
  <1>3. Carried(op) = b
    BY <1>1, <1>2, Zenon DEF Carried
  <1>4. PICK w, r : w = op.who /\ r = op.perm
    OBVIOUS
  <1>5. PICK f : f = [a.role EXCEPT ![w] = r]
    OBVIOUS
  <1>6. b = AccessOf(f, a.admins, a.grants, a.members, a.team, a.made, a.there)
    BY <1>1, <1>2, <1>4, <1>5, AccessForm DEF AccessOf, AccessRight
  <1>7. /\ w \in Person /\ r \in Role /\ (w \in a.admins => r # "collaborator")
        /\ a.role[w] # None /\ (r = "superadmin" \/ a.role[w] # "superadmin" \/ \E v \in Person \ {w} : a.role[v] = "superadmin")
    BY <1>1, <1>4 DEF OpRight, Permitted, There, LeavesSome, Supers
  <1>8. f \in [Person -> Role \cup {None}] /\ f[w] = r /\ \A v \in Person \ {w} : f[v] = a.role[v]
    BY <1>1, <1>5, <1>7, AccessForm DEF AccessRight
  <1>9. IsAccess(b) /\ b.role = f /\ b.admins = a.admins /\ b.grants = a.grants /\ b.members = a.members
    BY <1>1, <1>6, <1>8, AccessForm, AccessFields DEF AccessRight
  <1>10. AllBare(b)
    BY <1>1, <1>7, <1>8, <1>9, AdminAssumption DEF AccessRight, AllBare, LeftBare
  <1>11. RoleFollows(b)
    BY <1>1, <1>7, <1>8, <1>9, AccessForm DEF AccessRight, RoleFollows, Role
  <1>12. Managed(b)
    BY <1>1, <1>7, <1>8, <1>9 DEF AccessRight, Managed
  <1> QED BY <1>1, <1>3, <1>9, <1>10, <1>11, <1>12 DEF AccessRight, OneGrant

LEMMA DeleteOp ==
  ASSUME AccessRight(access), NEW by, NEW op, op.do = "delete", OpRight(op), Permitted(by, op)
  PROVE  AccessRight(Carried(op))
  <1>1. PICK a : a = access
    OBVIOUS
  <1>2. PICK w : w = op.who
    OBVIOUS
  <1>3. PICK f, g : f = [a.role EXCEPT ![w] = None] /\ g = {x \in a.grants : x.who # w}
    OBVIOUS
  <1>4. PICK b : b = Carried(op)
    OBVIOUS
  <1>5. b = [a EXCEPT !.role[w] = None, !.admins = a.admins \ {w}, !.members = a.members \ {w},
                      !.grants = {x \in a.grants : x.who # w}]
    BY <1>1, <1>2, <1>4, Zenon DEF Carried
  <1>6. b = AccessOf(f, a.admins \ {w}, g, a.members \ {w}, a.team, a.made, a.there)
    <2>1. PICK r0, n0, g0, m0, t0, k0, h0 :
           /\ a = AccessOf(r0, n0, g0, m0, t0, k0, h0) /\ a.role = r0 /\ a.admins = n0 /\ a.grants = g0 /\ a.members = m0
           /\ a.team = t0 /\ a.made = k0 /\ a.there = h0
      BY <1>1, AccessFlat DEF AccessRight
    <2>2. PICK n, m : n = a.admins \ {w} /\ m = a.members \ {w}
      OBVIOUS
    <2>3. b = [a EXCEPT !.role[w] = None, !.admins = n, !.members = m, !.grants = g]
      BY <1>3, <1>5, <2>2
    <2>4. b = AccessOf(f, n, g, m, t0, k0, h0)
      BY <1>3, <2>1, <2>3 DEF AccessOf
    <2> QED BY <2>1, <2>2, <2>4
  <1>7. w \in Person /\ (a.role[w] # "superadmin" \/ \E v \in Person \ {w} : a.role[v] = "superadmin")
    BY <1>1, <1>2 DEF OpRight, Permitted, LeavesSome, Supers
  <1>8. f \in [Person -> Role \cup {None}] /\ f[w] = None /\ \A v \in Person \ {w} : f[v] = a.role[v]
    BY <1>1, <1>3, <1>7, AccessForm DEF AccessRight
  <1>9. IsAccess(b) /\ b.role = f /\ b.admins = a.admins \ {w} /\ b.grants = g /\ b.members = a.members \ {w}
    BY <1>1, <1>6, <1>8, AccessForm, AccessFields DEF AccessRight
  <1>10. AllBare(b)
    BY <1>1, <1>3, <1>7, <1>8, <1>9 DEF AccessRight, AllBare, LeftBare
  <1>11. RoleFollows(b)
    BY <1>1, <1>7, <1>8, <1>9, AccessForm DEF AccessRight, RoleFollows
  <1>12. Managed(b)
    BY <1>1, <1>7, <1>8, <1>9 DEF AccessRight, Managed
  <1> QED BY <1>1, <1>3, <1>4, <1>9, <1>10, <1>11, <1>12 DEF AccessRight, OneGrant

LEMMA MembersOp ==
  ASSUME AccessRight(access), NEW by, NEW op, op.do \in {"join", "leave"}, OpRight(op), Permitted(by, op)
  PROVE  AccessRight(Carried(op))
  <1>1. PICK a : a = access
    OBVIOUS
  <1>2. PICK m : m = IF op.do = "join" THEN a.members \cup {op.who} ELSE a.members \ {op.who}
    OBVIOUS
  <1>3. PICK b : b = Carried(op)
    OBVIOUS
  <1>4. b = [a EXCEPT !.members = m]
    <2>1. CASE op.do = "join"
      BY <1>1, <1>2, <1>3, <2>1 DEF Carried
    <2>2. CASE op.do = "leave"
      BY <1>1, <1>2, <1>3, <2>2 DEF Carried
    <2> QED BY <2>1, <2>2
  <1>5. b = AccessOf(a.role, a.admins, a.grants, m, a.team, a.made, a.there)
    BY <1>1, <1>4, AccessForm DEF AccessOf, AccessRight
  <1>6. m \in SUBSET Person /\ \A v \in m : v \in a.members \/ a.role[v] # None
    BY <1>1, <1>2, AccessForm DEF AccessRight, OpRight, Permitted, There
  <1>7. IsAccess(b) /\ b.role = a.role /\ b.admins = a.admins /\ b.grants = a.grants /\ b.members = m
    BY <1>1, <1>5, <1>6, AccessForm, AccessFields DEF AccessRight
  <1> QED BY <1>1, <1>3, <1>6, <1>7 DEF AccessRight, OneGrant, AllBare, LeftBare, RoleFollows, Managed

LEMMA TeamOp ==
  ASSUME AccessRight(access), NEW op, op.do \in {"team", "namespace"}
  PROVE  AccessRight(Carried(op))
  <1>1. PICK a : a = access
    OBVIOUS
  <1>2. PICK b : b = Carried(op)
    OBVIOUS
  <1>3. PICK n, g, m, t, h :
           /\ b = AccessOf(a.role, n, g, m, t, a.made, h)
           /\ n \subseteq a.admins /\ g \subseteq a.grants /\ m \subseteq a.members
    <2>1. CASE op.do = "team"
      <3>1. PICK g, t : g = {x \in a.grants : x.who # Team} /\ t = ~a.team
        OBVIOUS
      <3>2. b = [a EXCEPT !.team = t, !.members = {}, !.grants = g]
        BY <1>1, <1>2, <2>1, <3>1 DEF Carried
      <3>3. PICK r0, n0, g0, m0, t0, k0, h0 :
           /\ a = AccessOf(r0, n0, g0, m0, t0, k0, h0) /\ a.role = r0 /\ a.admins = n0 /\ a.grants = g0 /\ a.members = m0
           /\ a.team = t0 /\ a.made = k0 /\ a.there = h0
        BY <1>1, AccessFlat DEF AccessRight
      <3>4. b = AccessOf(r0, n0, g, {}, t, k0, h0)
        BY <3>2, <3>3 DEF AccessOf
      <3> QED BY <3>1, <3>3, <3>4
    <2>2. CASE op.do = "namespace"
      <3>1. PICK n, g, h : /\ n = IF a.there THEN {} ELSE a.admins
                           /\ g = IF a.there THEN {x \in a.grants : x.who = Team} ELSE a.grants
                           /\ h = ~a.there
        OBVIOUS
      <3>2. b = [a EXCEPT !.there = h, !.admins = n, !.grants = g]
        BY <1>1, <1>2, <2>2, <3>1 DEF Carried
      <3>3. PICK r0, n0, g0, m0, t0, k0, h0 :
           /\ a = AccessOf(r0, n0, g0, m0, t0, k0, h0) /\ a.role = r0 /\ a.admins = n0 /\ a.grants = g0 /\ a.members = m0
           /\ a.team = t0 /\ a.made = k0 /\ a.there = h0
        BY <1>1, AccessFlat DEF AccessRight
      <3>4. b = AccessOf(r0, n, g, m0, t0, k0, h)
        BY <3>2, <3>3 DEF AccessOf
      <3> QED BY <3>1, <3>3, <3>4
    <2> QED BY <2>1, <2>2
  <1>4. n \in SUBSET Person /\ m \in SUBSET Person
    BY <1>1, <1>3, AccessForm DEF AccessRight
  <1>5. IsAccess(b) /\ b.role = a.role /\ b.admins = n /\ b.grants = g /\ b.members = m
    BY <1>1, <1>3, <1>4, AccessForm, AccessFields DEF AccessRight
  <1> QED BY <1>1, <1>2, <1>3, <1>5 DEF AccessRight, OneGrant, AllBare, LeftBare, RoleFollows, Managed

LEMMA DemoteOp ==
  ASSUME AccessRight(access), NEW op, op.do = "demote", OpRight(op)
  PROVE  AccessRight(Carried(op))
  <1>1. PICK a : a = access
    OBVIOUS
  <1>2. PICK w : w = op.who
    OBVIOUS
  <1>3. PICK r : r = IF a.role[w] = "admin" THEN "collaborator" ELSE a.role[w]
    OBVIOUS
  <1>4. PICK f : f = [a.role EXCEPT ![w] = r]
    OBVIOUS
  <1>5. PICK b : b = Carried(op)
    OBVIOUS
  <1>6. b = AccessOf(f, a.admins \ {w}, a.grants, a.members, a.team, a.made, a.there)
    <2>1. b = Demoted(a, w)
      BY <1>1, <1>2, <1>5, Zenon DEF Carried
    <2>2. b = [a EXCEPT !.admins = a.admins \ {w}, !.role[w] = r]
      BY <1>3, <2>1 DEF Demoted
    <2>3. PICK r0, n0, g0, m0, t0, k0, h0 :
           /\ a = AccessOf(r0, n0, g0, m0, t0, k0, h0) /\ a.role = r0 /\ a.admins = n0 /\ a.grants = g0 /\ a.members = m0
           /\ a.team = t0 /\ a.made = k0 /\ a.there = h0
      BY <1>1, AccessFlat DEF AccessRight
    <2>4. PICK n : n = a.admins \ {w}
      OBVIOUS
    <2>5. b = [a EXCEPT !.admins = n, !.role[w] = r]
      BY <2>2, <2>4
    <2>6. b = AccessOf(f, n, g0, m0, t0, k0, h0)
      BY <1>4, <2>3, <2>5 DEF AccessOf
    <2> QED BY <2>3, <2>4, <2>6
  <1>7. w \in Person
    BY <1>2 DEF OpRight
  <1>8. /\ f \in [Person -> Role \cup {None}] /\ f[w] = r /\ (\A v \in Person \ {w} : f[v] = a.role[v])
        /\ \A v \in Person : (f[v] = None => a.role[v] = None) /\ (a.role[v] = "superadmin" => f[v] = "superadmin")
    BY <1>1, <1>3, <1>4, <1>7, AccessForm, AdminAssumption DEF AccessRight, Role
  <1>9. IsAccess(b) /\ b.role = f /\ b.admins = a.admins \ {w} /\ b.grants = a.grants /\ b.members = a.members
    BY <1>1, <1>6, <1>8, AccessForm, AccessFields DEF AccessRight
  <1>10. AllBare(b)
    BY <1>1, <1>8, <1>9 DEF AccessRight, AllBare, LeftBare
  <1>11. RoleFollows(b)
    BY <1>1, <1>8, <1>9, AccessForm DEF AccessRight, RoleFollows
  <1>12. Managed(b)
    BY <1>1, <1>8, <1>9 DEF AccessRight, Managed
  <1> QED BY <1>1, <1>5, <1>9, <1>10, <1>11, <1>12 DEF AccessRight, OneGrant

\* One grant more, to who is there or the group, in place of any on that path.
LEMMA GrantMore ==
  ASSUME NEW a, AccessRight(a), NEW w, w = Team \/ (w \in Person /\ a.role[w] # None),
         NEW path \in Subpath, NEW perm \in {"read", "write"}, NEW k, NEW b,
         b = AccessOf(a.role, a.admins, {g \in a.grants : ~(g.who = w /\ g.path = path)} \cup {Grant(k, w, path, perm)},
                      a.members, a.team, k, a.there)
  PROVE  AccessRight(b)
  <1>1. PICK x : x = Grant(k, w, path, perm)
    OBVIOUS
  <1>2. PICK g : g = {y \in a.grants : ~(y.who = w /\ y.path = path)} \cup {x}
    OBVIOUS
  <1>3. IsGrant(x) /\ x.who = w /\ x.path = path
    BY <1>1 DEF IsGrant, Grant
  <1>4. IsAccess(b) /\ b.role = a.role /\ b.admins = a.admins /\ b.grants = g /\ b.members = a.members
    BY <1>1, <1>2, AccessForm, AccessFields DEF AccessRight
  <1>5. \A y \in g : IsGrant(y)
    BY <1>2, <1>3 DEF AccessRight
  <1>6. OneGrant(b)
    BY <1>2, <1>3, <1>4 DEF AccessRight, OneGrant
  <1>7. AllBare(b)
    BY <1>2, <1>3, <1>4, AdminAssumption DEF AccessRight, AllBare, LeftBare
  <1> QED BY <1>4, <1>5, <1>6, <1>7 DEF AccessRight, RoleFollows, Managed

LEMMA GiveForm ==
  ASSUME AccessRight(access), NEW op, op.do = "give"
  PROVE  \E k : Carried(op) = AccessOf(access.role, access.admins,
                                      {x \in access.grants : ~(x.who = op.who /\ x.path = op.path)}
                                        \cup {Grant(k, op.who, op.path, op.perm)},
                                      access.members, access.team, k, access.there)
  <1>1. PICK a : a = access
    OBVIOUS
  <1>2. PICK b, k : b = Carried(op) /\ k = a.made + 1
    OBVIOUS
  <1>3. PICK w, path, perm : w = op.who /\ path = op.path /\ perm = op.perm
    OBVIOUS
  <1>4. PICK g : g = {x \in a.grants : ~(x.who = w /\ x.path = path)}
    OBVIOUS
  <1>5. a.grants \ Direct(w, path) = g
    BY <1>1, <1>4 DEF Direct
  <1>6. PICK c : c = [a EXCEPT !.grants = g]
    OBVIOUS
  <1>7. b = Granted(c, w, path, perm)
    BY <1>1, <1>2, <1>3, <1>5, <1>6, Zenon DEF Carried
  <1>8. PICK x : x = Grant(k, w, path, perm)
    OBVIOUS
  <1>9. PICK r0, n0, g0, m0, t0, k0, h0 :
         /\ a = AccessOf(r0, n0, g0, m0, t0, k0, h0) /\ a.role = r0 /\ a.admins = n0 /\ a.grants = g0 /\ a.members = m0
         /\ a.team = t0 /\ a.made = k0 /\ a.there = h0
    BY <1>1, AccessFlat DEF AccessRight
  <1>10. c = AccessOf(r0, n0, g, m0, t0, k0, h0) /\ c.grants = g /\ c.made = k0
    BY <1>6, <1>9 DEF AccessOf
  <1>11. PICK y : y = g \cup {x}
    OBVIOUS
  <1>12. b = [c EXCEPT !.grants = y, !.made = k]
    BY <1>2, <1>7, <1>8, <1>9, <1>10, <1>11 DEF Granted
  <1>13. b = AccessOf(r0, n0, y, m0, t0, k, h0)
    BY <1>10, <1>12 DEF AccessOf
  <1> QED BY <1>1, <1>2, <1>3, <1>4, <1>8, <1>9, <1>11, <1>13

LEMMA GiveOp ==
  ASSUME AccessRight(access), NEW by, NEW op, op.do = "give", OpRight(op), Permitted(by, op)
  PROVE  AccessRight(Carried(op))
  <1>1. PICK a, b : a = access /\ b = Carried(op)
    OBVIOUS
  <1>2. PICK w, path, perm : w = op.who /\ path = op.path /\ perm = op.perm
    OBVIOUS
  <1>3. PICK k : b = AccessOf(a.role, a.admins, {y \in a.grants : ~(y.who = w /\ y.path = path)}
                               \cup {Grant(k, w, path, perm)}, a.members, a.team, k, a.there)
    BY <1>1, <1>2, GiveForm
  <1>4. w \in Person \cup {Team} /\ path \in Subpath /\ perm \in {"read", "write"}
    BY <1>2 DEF OpRight
  <1>5. w # Team => a.role[w] # None
    BY <1>1, <1>2 DEF Permitted, There
  <1>6. AccessRight(b)
    BY <1>1, <1>3, <1>4, <1>5, GrantMore
  <1> QED BY <1>1, <1>6

IsSet(y, x, perm) == y = [x EXCEPT !.perm = perm]

LEMMA GrantSet ==
  ASSUME NEW x, IsGrant(x), NEW perm \in {"read", "write"}, NEW y, IsSet(y, x, perm)
  PROVE  IsGrant(y) /\ y.who = x.who /\ y.path = x.path /\ y.perm = perm
  <1>1. PICK i, w : \E path \in Subpath, q \in {"read", "write"} : x = Grant(i, w, path, q)
    BY DEF IsGrant
  <1>2. PICK path \in Subpath, q \in {"read", "write"} : x = Grant(i, w, path, q)
    BY <1>1
  <1>3. y = Grant(i, w, path, perm)
    BY <1>2 DEF IsSet, Grant
  <1> QED BY <1>2, <1>3 DEF IsGrant, Grant

\* The grants with one of them set.
Reset(op, x) == IF x.id = op.id THEN [x EXCEPT !.perm = op.perm] ELSE x

LEMMA ResetIs ==
  ASSUME NEW op, op.perm \in {"read", "write"}, NEW x, IsGrant(x)
  PROVE  /\ IsGrant(Reset(op, x)) /\ Reset(op, x).who = x.who /\ Reset(op, x).path = x.path
         /\ x.id = op.id => Reset(op, x).perm = op.perm
  <1>1. PICK y : IsSet(y, x, op.perm)
    BY DEF IsSet
  <1>2. IsGrant(y) /\ y.who = x.who /\ y.path = x.path /\ y.perm = op.perm
    BY <1>1, GrantSet
  <1> QED BY <1>1, <1>2 DEF Reset, IsSet

LEMMA SetCarries ==
  ASSUME NEW op, op.do = "set"
  PROVE  Carried(op) = [access EXCEPT !.grants = {Reset(op, x) : x \in access.grants}]
  BY DEF Carried, Reset

LEMMA GrantsOp ==
  ASSUME AccessRight(access), NEW op, op.do \in {"set", "take"}, OpRight(op)
  PROVE  AccessRight(Carried(op))
  <1>1. PICK a : a = access
    OBVIOUS
  <1>2. PICK b : b = Carried(op)
    OBVIOUS
  <1>3. PICK g : /\ b = [a EXCEPT !.grants = g]
                 /\ \A y \in g : IsGrant(y) /\ \E x \in a.grants : y.who = x.who
                 /\ \A y, z \in g : y.who = z.who /\ y.path = z.path => y = z
    <2>1. CASE op.do = "set"
      <3>1. PICK g : g = {Reset(op, x) : x \in a.grants}
        OBVIOUS
      <3>2. b = [a EXCEPT !.grants = g]
        BY <1>1, <1>2, <2>1, <3>1, SetCarries
      <3>3. \A x \in a.grants : IsGrant(Reset(op, x)) /\ Reset(op, x).who = x.who /\ Reset(op, x).path = x.path
        BY <1>1, <2>1, ResetIs DEF AccessRight, OpRight
      <3>4. \A y, z \in g : y.who = z.who /\ y.path = z.path => y = z
        <4> SUFFICES ASSUME NEW y \in g, NEW z \in g, y.who = z.who, y.path = z.path PROVE y = z
          OBVIOUS
        <4>1. PICK u, v \in a.grants : y = Reset(op, u) /\ z = Reset(op, v)
          BY <3>1
        <4>2. u.who = v.who /\ u.path = v.path
          BY <3>3, <4>1
        <4>3. u = v
          BY <1>1, <4>2 DEF AccessRight, OneGrant
        <4> QED BY <4>1, <4>3
      <3>5. \A y \in g : IsGrant(y) /\ \E x \in a.grants : y.who = x.who
        BY <3>1, <3>3
      <3> QED BY <3>2, <3>4, <3>5
    <2>2. CASE op.do = "take"
      <3>1. PICK g : g = {x \in a.grants : x.id # op.id}
        OBVIOUS
      <3>2. b = [a EXCEPT !.grants = g]
        BY <1>1, <1>2, <2>2, <3>1 DEF Carried
      <3>3. g \subseteq a.grants
        BY <3>1
      <3>4. \A y, z \in g : y.who = z.who /\ y.path = z.path => y = z
        BY <1>1, <3>3 DEF AccessRight, OneGrant
      <3>5. \A y \in g : IsGrant(y) /\ \E x \in a.grants : y.who = x.who
        BY <1>1, <3>3 DEF AccessRight
      <3> QED BY <3>2, <3>4, <3>5
    <2> QED BY <2>1, <2>2
  <1>4. b = AccessOf(a.role, a.admins, g, a.members, a.team, a.made, a.there)
    BY <1>1, <1>3, AccessForm DEF AccessOf, AccessRight
  <1>5. IsAccess(b) /\ b.role = a.role /\ b.admins = a.admins /\ b.grants = g /\ b.members = a.members
    BY <1>1, <1>4, AccessForm, AccessFields DEF AccessRight
  <1> QED BY <1>1, <1>2, <1>3, <1>5 DEF AccessRight, OneGrant, AllBare, LeftBare, RoleFollows, Managed

LEMMA PromoteForm ==
  ASSUME AccessRight(access), NEW op, op.do = "promote"
  PROVE  \E f, b :
           /\ f = [access.role EXCEPT ![op.who] = IF access.role[op.who] = "collaborator" THEN "admin"
                                                 ELSE access.role[op.who]]
           /\ b = AccessOf(f, access.admins \cup {op.who}, access.grants, access.members, access.team, access.made,
                           access.there)
           /\ Carried(op) = IF Direct(op.who, "/") = {} THEN Granted(b, op.who, "/", "write") ELSE b
  <1>1. PICK a : a = access
    OBVIOUS
  <1>2. PICK w : w = op.who
    OBVIOUS
  <1>3. PICK r : r = IF a.role[w] = "collaborator" THEN "admin" ELSE a.role[w]
    OBVIOUS
  <1>4. PICK f, n : f = [a.role EXCEPT ![w] = r] /\ n = a.admins \cup {w}
    OBVIOUS
  <1>5. PICK r0, n0, g0, m0, t0, k0, h0 :
           /\ a = AccessOf(r0, n0, g0, m0, t0, k0, h0) /\ a.role = r0 /\ a.admins = n0 /\ a.grants = g0 /\ a.members = m0
           /\ a.team = t0 /\ a.made = k0 /\ a.there = h0
    BY <1>1, AccessFlat DEF AccessRight
  <1>6. PICK b : b = AccessOf(f, n, g0, m0, t0, k0, h0)
    OBVIOUS
  <1>7. Carried(op) = IF Direct(w, "/") = {} THEN Granted(b, w, "/", "write") ELSE b
    <2>1. Carried(op) = Promoted(a, w)
      BY <1>1, <1>2, Zenon DEF Carried
    <2>2. [a EXCEPT !.admins = a.admins \cup {w}, !.role[w] = IF a.role[w] = "collaborator" THEN "admin" ELSE a.role[w]] = b
      <3>1. PICK c : c = [a EXCEPT !.admins = n, !.role[w] = r]
        OBVIOUS
      <3>2. f = [r0 EXCEPT ![w] = r]
        BY <1>4, <1>5
      <3>3. c = AccessOf(f, n, g0, m0, t0, k0, h0)
        BY <1>5, <3>1, <3>2 DEF AccessOf
      <3> QED BY <1>3, <1>4, <1>6, <3>1, <3>3
    <2> QED BY <2>1, <2>2 DEF Promoted
  <1> QED BY <1>1, <1>2, <1>3, <1>4, <1>5, <1>6, <1>7

LEMMA PromoteOp ==
  ASSUME AccessRight(access), NEW by, NEW op, op.do = "promote", OpRight(op), Permitted(by, op)
  PROVE  AccessRight(Carried(op))
  <1>1. PICK a : a = access
    OBVIOUS
  <1>2. PICK w : w = op.who
    OBVIOUS
  <1>3. PICK r, n : r = (IF a.role[w] = "collaborator" THEN "admin" ELSE a.role[w]) /\ n = a.admins \cup {w}
    OBVIOUS
  <1>4. PICK g0, m0, t0, k0, h0 : g0 = a.grants /\ m0 = a.members /\ t0 = a.team /\ k0 = a.made /\ h0 = a.there
    OBVIOUS
  <1>5. PICK f, b : /\ f = [a.role EXCEPT ![w] = r] /\ b = AccessOf(f, n, g0, m0, t0, k0, h0)
                    /\ Carried(op) = IF Direct(w, "/") = {} THEN Granted(b, w, "/", "write") ELSE b
    BY <1>1, <1>2, <1>3, <1>4, PromoteForm
  <1>8. w \in Person /\ a.role[w] # None /\ a.role[w] # "superadmin" /\ a.role[w] \in Role
    BY <1>1, <1>2, RoleIs DEF OpRight, Permitted, There, Supers
  <1>9. f \in [Person -> Role \cup {None}] /\ f[w] = "admin" /\ \A v \in Person \ {w} : f[v] = a.role[v]
    BY <1>1, <1>3, <1>5, <1>8, AccessForm DEF AccessRight, Role
  <1>10. IsAccess(b) /\ b.role = f /\ b.admins = n /\ b.grants = a.grants /\ b.members = a.members
    <2>1. n \in SUBSET Person /\ m0 \in SUBSET Person
      BY <1>1, <1>3, <1>4, <1>8, AccessForm DEF AccessRight
    <2> QED BY <1>4, <1>5, <1>9, <2>1, AccessFields
  <1>11. AccessRight(b)
    <2>1. AllBare(b)
      BY <1>1, <1>3, <1>8, <1>9, <1>10, AdminAssumption DEF AccessRight, AllBare, LeftBare, Role
    <2>2. RoleFollows(b)
      BY <1>1, <1>3, <1>9, <1>10, AccessForm DEF AccessRight, RoleFollows
    <2>3. Managed(b)
      BY <1>1, <1>8, <1>9, <1>10 DEF AccessRight, Managed
    <2> QED BY <1>1, <1>10, <2>1, <2>2, <2>3 DEF AccessRight, OneGrant
  <1>12. ASSUME Direct(w, "/") = {} PROVE AccessRight(Granted(b, w, "/", "write"))
    <2>1. PICK k, g, c : k = k0 + 1 /\ g = {y \in g0 : ~(y.who = w /\ y.path = "/")} \cup {Grant(k, w, "/", "write")}
                         /\ c = Granted(b, w, "/", "write")
      OBVIOUS
    <2>2. g = g0 \cup {Grant(k, w, "/", "write")}
      BY <1>1, <1>4, <1>12, <2>1 DEF Direct
    <2>3. b.made = k0 /\ b.grants = g0 /\ b.team = t0 /\ b.there = h0 /\ b.members = m0
      BY <1>5 DEF AccessOf
    <2>4. c = [b EXCEPT !.grants = g, !.made = k]
      BY <2>1, <2>2, <2>3 DEF Granted
    <2>5. c = AccessOf(f, n, g, m0, t0, k, h0)
      BY <1>5, <2>4 DEF AccessOf
    <2>6. c = AccessOf(b.role, b.admins, {y \in b.grants : ~(y.who = w /\ y.path = "/")} \cup {Grant(k, w, "/", "write")},
                       b.members, b.team, k, b.there)
      BY <1>10, <2>1, <2>3, <2>5
    <2>7. b.role[w] # None /\ "/" \in Subpath
      BY <1>9, <1>10, AdminAssumption DEF Subpath, Role
    <2> QED BY <1>8, <1>11, <2>1, <2>6, <2>7, GrantMore
  <1> QED BY <1>5, <1>11, <1>12

LEMMA CarriedRight ==
  ASSUME AccessRight(access), NEW by, NEW op, OpRight(op), Permitted(by, op)
  PROVE  AccessRight(Carried(op))
  BY RoleOp, DeleteOp, MembersOp, TeamOp, DemoteOp, GiveOp, GrantsOp, PromoteOp DEF OpRight

-----------------------------------------------------------------------------
(* Who looks on.                                                           *)

\* A step of one person's: what they changed is counted as theirs.
StepOf(p) ==
  /\ wrote' \in [Person -> Nat] /\ wrote'[p] >= wrote[p]
  /\ \A w \in Person \ {p} : wrote'[w] = wrote[w]
  /\ access' = access \/ wrote'[p] > wrote[p]

\* Nobody else's page, session or requests.
OnlyOf(p) ==
  /\ DOMAIN badge' = Person /\ DOMAIN panel' = Person
  /\ \A q \in Person \ {p} : panel'[q] = panel[q] /\ badge'[q] = badge[q]
  /\ \A c : c.by # p => (c \in pending' <=> c \in pending)

LEMMA CountStays ==
  ASSUME wrote \in [Person -> Nat], NEW p \in Person, StepOf(p), NEW at, IsCount(at)
  PROVE  IsCount(at)' /\ (OthersQuiet(p, at)' <=> OthersQuiet(p, at))
  BY DEF StepOf, IsCount, OthersQuiet

LEMMA CountTells ==
  ASSUME wrote \in [Person -> Nat], NEW p \in Person, NEW q \in Person \ {p}, StepOf(p), NEW at, IsCount(at)
  PROVE  OthersQuiet(q, at)' => OthersQuiet(q, at) /\ access' = access
  BY DEF StepOf, IsCount, OthersQuiet

LEMMA SameReading ==
  ASSUME access' = access, NEW q, badge'[q] = badge[q], NEW super, NEW t0, NEW ch, NEW todo
  PROVE  /\ PeopleGrants(q)' = PeopleGrants(q) /\ DirNow(q, super)' = DirNow(q, super)
         /\ OwnCopy(t0)' = OwnCopy(t0) /\ (GivenTo(ch, super, todo)' <=> GivenTo(ch, super, todo))
         /\ AsChosen(ch)' <=> AsChosen(ch)
  <1>1. Administers(q)' <=> Administers(q)
    BY DEF Administers
  <1>2. PeopleGrants(q)' = PeopleGrants(q)
    BY <1>1 DEF PeopleGrants
  <1>3. DirNow(q, super)' = DirNow(q, super)
    BY <1>1, <1>2 DEF DirNow
  <1>4. OwnCopy(t0)' = OwnCopy(t0)
    BY DEF OwnCopy
  <1>5. Holds(Newcomer)' = Holds(Newcomer)
    BY DEF Holds
  <1>6. GivenTo(ch, super, todo)' <=> GivenTo(ch, super, todo)
    BY <1>5 DEF GivenTo, GivenBySuper, GivenByAdmin, FollowUps
  <1>7. AsChosen(ch)' <=> AsChosen(ch)
    BY <1>5 DEF AsChosen
  <1> QED BY <1>2, <1>3, <1>4, <1>6, <1>7

LEMMA LoadsSame == ASSUME NEW q, badge'[q] = badge[q], NEW super PROVE LoadsFor(q, super)' <=> LoadsFor(q, super)
  BY DEF LoadsFor

LEMMA OthersCall ==
  ASSUME wrote \in [Person -> Nat], NEW p \in Person, NEW q \in Person \ {p}, StepOf(p),
         panel'[q] = panel[q], badge'[q] = badge[q], NEW c, CalledRight(q, c)
  PROVE  CalledRight(q, c)'
  <1>1. CASE c.kind = "load" /\ LoadedRight(q, c)
    <2>1. IsCount(c.at)' /\ (OthersQuiet(q, c.at)' => OthersQuiet(q, c.at) /\ access' = access)
      BY <1>1, CountStays, CountTells DEF LoadedRight
    <2>2. access' = access => PeopleGrants(q)' = PeopleGrants(q)
      BY SameReading
    <2>3. LoadsFor(q, c.super)' = LoadsFor(q, c.super)
      BY DEF LoadsFor
    <2>4. LoadedRight(q, c)'
      BY <1>1, <2>1, <2>2, <2>3 DEF LoadedRight
    <2> QED BY <1>1, <2>4 DEF CalledRight
  <1>2. CASE c.kind = "list" /\ ListingRight(q, c)
    <2>1. IsCount(c.at)' /\ (OthersQuiet(q, c.at)' => OthersQuiet(q, c.at) /\ access' = access)
      BY <1>2, CountStays, CountTells DEF ListingRight
    <2>2. access' = access => OwnCopy(c.tab)' = OwnCopy(c.tab)
      BY SameReading
    <2>3. ListingRight(q, c)'
      BY <1>2, <2>1, <2>2 DEF ListingRight
    <2> QED BY <1>2, <2>3 DEF CalledRight
  <1>3. CASE c.kind = "click" /\ ClickedRight(q, c)
    BY <1>3 DEF CalledRight, ClickedRight
  <1>4. CASE c.kind = "invite" /\ InviteRight(q, c)
    <2>1. IsCount(c.at)' /\ (OthersQuiet(q, c.at)' => OthersQuiet(q, c.at) /\ access' = access)
      BY <1>4, CountStays, CountTells DEF InviteRight
    <2>2. access' = access => (GivenTo(c.ch, c.super, c.todo)' <=> GivenTo(c.ch, c.super, c.todo))
      BY SameReading
    <2>3. InviteRight(q, c)'
      BY <1>4, <2>1, <2>2 DEF InviteRight
    <2> QED BY <1>4, <2>3 DEF CalledRight
  <1> QED BY <1>1, <1>2, <1>3, <1>4 DEF CalledRight

LEMMA Bystander ==
  ASSUME AdminInv, NEW p \in Person, NEW q \in Person \ {p}, StepOf(p), OnlyOf(p)
  PROVE  PersonRight(q)'
  <1>1. PICK x : x = panel[q]
    OBVIOUS
  <1>2. panel'[q] = x /\ panel'[q] = panel[q] /\ badge'[q] = badge[q] /\ wrote \in [Person -> Nat]
    BY <1>1 DEF OnlyOf, AdminInv
  <1>3. CallsOf(q)' = CallsOf(q)
    BY DEF OnlyOf, CallsOf
  <1>4. PersonRight(q)
    BY DEF AdminInv
  <1>5. \A c \in CallsOf(q) : CalledRight(q, c)'
    BY <1>2, <1>4, OthersCall DEF PersonRight
  <1>6. DirTrue(q)'
    <2>1. CASE x.dir = None
      BY <1>2, <2>1 DEF DirTrue
    <2>2. CASE x.dir # None
      <3>1. LoadsFor(q, x.super) /\ IsCount(x.at)
        BY <1>1, <1>4, <2>2 DEF PersonRight, DirTrue
      <3>2. LoadsFor(q, x.super)' /\ IsCount(x.at)'
        BY <1>2, <3>1, LoadsSame, CountStays
      <3>3. OthersQuiet(q, x.at)' => OthersQuiet(q, x.at) /\ DirNow(q, x.super)' = DirNow(q, x.super)
        BY <1>2, <3>1, CountTells, SameReading
      <3> QED BY <1>1, <1>2, <1>3, <1>4, <2>2, <3>2, <3>3 DEF PersonRight, DirTrue
    <2> QED BY <2>1, <2>2
  <1>7. CopyRight(q)'
    <2>1. CASE x.list = None
      BY <1>2, <2>1 DEF CopyRight
    <2>2. CASE x.list # None
      <3>1. IsCount(x.at)
        BY <1>1, <1>4, <2>2 DEF PersonRight, CopyRight
      <3>2. IsCount(x.at)'
        BY <1>2, <3>1, CountStays
      <3>3. OthersQuiet(q, x.at)' => OthersQuiet(q, x.at) /\ OwnCopy(x.tab)' = OwnCopy(x.tab)
        BY <1>2, <3>1, CountTells, SameReading
      <3> QED BY <1>1, <1>2, <1>3, <1>4, <2>2, <3>2, <3>3 DEF PersonRight, CopyRight
    <2> QED BY <2>1, <2>2
  <1>8. InvitedRight(q)'
    <2>1. CASE x.invited = None
      BY <1>2, <2>1 DEF InvitedRight
    <2>2. CASE x.invited # None
      <3>1. PICK i : i = x.invited
        OBVIOUS
      <3>2. IsCount(i.at)
        BY <1>1, <1>4, <2>2, <3>1 DEF PersonRight, InvitedRight
      <3>3. IsCount(i.at)'
        BY <1>2, <3>2, CountStays
      <3>4. OthersQuiet(q, i.at)' => OthersQuiet(q, i.at) /\ (AsChosen(i.ch)' <=> AsChosen(i.ch))
        BY <1>2, <3>2, CountTells, SameReading
      <3> QED BY <1>1, <1>2, <1>3, <1>4, <2>2, <3>1, <3>3, <3>4 DEF PersonRight, InvitedRight
    <2> QED BY <2>1, <2>2
  <1>9. IsPanel(panel[q])'
    BY <1>1, <1>2, <1>4 DEF PersonRight
  <1> QED BY <1>3, <1>4, <1>5, <1>6, <1>7, <1>8, <1>9 DEF PersonRight

LEMMA PersonStep ==
  ASSUME AdminInv, NEW p \in Person, StepOf(p), OnlyOf(p), AccessRight(access'), PersonRight(p)'
  PROVE  AdminInv'
  <1>1. \A q \in Person : PersonRight(q)'
    BY Bystander
  <1>2. \A c \in pending' : c.by \in Person
    BY DEF OnlyOf, AdminInv
  <1>3. AccessRight(access)'
    BY DEF AccessRight, IsAccess, IsGrant, Grant, OneGrant, AllBare, LeftBare, RoleFollows, Managed, Role, Subpath
  <1> QED BY <1>1, <1>2, <1>3 DEF AdminInv, StepOf, OnlyOf

-----------------------------------------------------------------------------
(* Reading.                                                                *)

PanelOf(t, s, d, l, a, i) == [tab |-> t, super |-> s, dir |-> d, list |-> l, at |-> a, invited |-> i]

LEMMA PanelFlat ==
  ASSUME NEW x, IsPanel(x)
  PROVE  \E t, d, l, a, i : \E s \in BOOLEAN :
           /\ x = PanelOf(t, s, d, l, a, i) /\ x.tab = t /\ x.super = s /\ x.dir = d /\ x.list = l /\ x.at = a
           /\ x.invited = i
  BY DEF IsPanel, PanelOf

LEMMA PanelFields ==
  ASSUME NEW t, NEW s \in BOOLEAN, NEW d, NEW l, NEW a, NEW i, NEW x, x = PanelOf(t, s, d, l, a, i)
  PROVE  IsPanel(x) /\ x.tab = t /\ x.super = s /\ x.dir = d /\ x.list = l /\ x.at = a /\ x.invited = i
  BY DEF IsPanel, PanelOf

\* Nothing but reading.
Reading == access' = access /\ wrote' = wrote

LEMMA ReadingStep == ASSUME AdminInv, NEW p \in Person, Reading PROVE StepOf(p) /\ AccessRight(access')
  BY DEF AdminInv, StepOf, Reading

LEMMA ReadingCount ==
  ASSUME Reading, NEW q, NEW at
  PROVE  (IsCount(at)' <=> IsCount(at)) /\ (OthersQuiet(q, at)' <=> OthersQuiet(q, at))
  BY DEF Reading, IsCount, OthersQuiet

LEMMA ReadingDir ==
  ASSUME Reading, NEW q, badge'[q] = badge[q], NEW super
  PROVE  DirNow(q, super)' = DirNow(q, super) /\ PeopleGrants(q)' = PeopleGrants(q) /\ (LoadsFor(q, super)' <=> LoadsFor(q, super))
  BY SameReading, LoadsSame DEF Reading

LEMMA ReadingCopy == ASSUME Reading, NEW t0 PROVE OwnCopy(t0)' = OwnCopy(t0)
  BY DEF Reading, OwnCopy

LEMMA ReadingChosen == ASSUME Reading, NEW ch PROVE AsChosen(ch)' <=> AsChosen(ch)
  BY DEF Reading, AsChosen, Holds

\* The request of a person's, the only one.
LEMMA OnlyCall ==
  ASSUME AdminInv, NEW c \in pending
  PROVE  c.by \in Person /\ CallsOf(c.by) = {c} /\ PersonRight(c.by) /\ CalledRight(c.by, c)
  BY DEF AdminInv, PersonRight, CallsOf

LEMMA NowCounts == ASSUME AdminInv, NEW q PROVE IsCount(wrote) /\ OthersQuiet(q, wrote)
  BY DEF AdminInv, IsCount, OthersQuiet

LEMMA PanelPick ==
  ASSUME NEW p, PersonRight(p)
  PROVE  \E t, d, l, a, i : \E s \in BOOLEAN :
           /\ panel[p] = PanelOf(t, s, d, l, a, i) /\ panel[p].tab = t /\ panel[p].super = s /\ panel[p].dir = d
           /\ panel[p].list = l /\ panel[p].at = a /\ panel[p].invited = i
  BY PanelFlat DEF PersonRight

LEMMA SecondReadStays ==
  ASSUME AdminInv, NEW c \in pending, SecondRead(c)
  PROVE  AdminInv'
  <1>1. PICK p : p = c.by
    OBVIOUS
  <1>2. p \in Person /\ CallsOf(p) = {c} /\ PersonRight(p) /\ c.kind = "load" /\ LoadedRight(p, c)
    BY <1>1, OnlyCall DEF SecondRead, CalledRight
  <1>3. Reading /\ badge' = badge /\ pending' = pending \ {c}
    BY DEF SecondRead, Reading
  <1>4. CallsOf(p)' = {}
    BY <1>2, <1>3 DEF CallsOf
  <1>5. PICK t, d, l, a, i : \E s \in BOOLEAN :
           /\ panel[p] = PanelOf(t, s, d, l, a, i) /\ panel[p].tab = t /\ panel[p].super = s /\ panel[p].dir = d
           /\ panel[p].list = l /\ panel[p].at = a /\ panel[p].invited = i
    BY <1>2, PanelPick
  <1>6. PICK s \in BOOLEAN :
           /\ panel[p] = PanelOf(t, s, d, l, a, i) /\ panel[p].tab = t /\ panel[p].super = s /\ panel[p].dir = d
           /\ panel[p].list = l /\ panel[p].at = a /\ panel[p].invited = i
    BY <1>5
  <1>7. t = "people" /\ c.super = s /\ c.ok = LoadsFor(p, s) /\ IsCount(c.at) /\ l = None
    BY <1>2, <1>6 DEF LoadedRight, PersonRight, CopyRight
  <1>8. PICK x : x = panel'[p]
    OBVIOUS
  <1>9. \E dd, aa : /\ x = PanelOf("people", s, dd, None, aa, i) /\ DOMAIN panel' = Person
                    /\ \A q \in Person \ {p} : panel'[q] = panel[q]
                    /\ dd # None => LoadsFor(p, s) /\ IsCount(aa)
                    /\ dd # None /\ OthersQuiet(p, aa) => dd = DirNow(p, s)
    <2>1. CASE ~c.ok
      <3>1. panel' = panel /\ d = None
        BY <1>2, <1>6, <1>7, <2>1 DEF SecondRead, PersonRight, DirTrue
      <3> QED BY <1>6, <1>7, <1>8, <3>1 DEF AdminInv
    <2>2. CASE c.ok
      <3>1. PICK dd, aa :
               /\ aa = c.at
               /\ dd = [role |-> c.role,
                        grants |-> c.grants \cup (IF c.super THEN {g \in access.grants : g.who = Team} ELSE {}),
                        members |-> IF c.super THEN access.members ELSE {},
                        admins |-> IF Administers(c.by) THEN access.admins ELSE {}]
        OBVIOUS
      <3>2. panel' = [panel EXCEPT ![p].at = aa, ![p].dir = dd]
        BY <1>1, <1>6, <1>7, <2>2, <3>1 DEF SecondRead
      <3>3. x = [panel[p] EXCEPT !.at = aa, !.dir = dd] /\ DOMAIN panel' = Person
            /\ \A q \in Person \ {p} : panel'[q] = panel[q]
        BY <1>2, <1>8, <3>2 DEF AdminInv
      <3>4. x = PanelOf("people", s, dd, None, aa, i)
        BY <1>6, <1>7, <3>3 DEF PanelOf
      <3>5. OthersQuiet(p, aa) => dd = DirNow(p, s)
        BY <1>1, <1>2, <1>7, <3>1 DEF LoadedRight, DirNow
      <3> QED BY <1>7, <2>2, <3>1, <3>3, <3>4, <3>5
    <2> QED BY <2>1, <2>2
  <1>10. PICK dd, aa : /\ x = PanelOf("people", s, dd, None, aa, i) /\ DOMAIN panel' = Person
                       /\ \A q \in Person \ {p} : panel'[q] = panel[q]
                       /\ dd # None => LoadsFor(p, s) /\ IsCount(aa)
                       /\ dd # None /\ OthersQuiet(p, aa) => dd = DirNow(p, s)
    BY <1>9
  <1>11. IsPanel(x) /\ x.tab = "people" /\ x.super = s /\ x.dir = dd /\ x.list = None /\ x.at = aa /\ x.invited = i
    BY <1>10, PanelFields
  <1>12. DirTrue(p)'
    <2>1. (IsCount(aa)' <=> IsCount(aa)) /\ (OthersQuiet(p, aa)' <=> OthersQuiet(p, aa))
      BY <1>3, ReadingCount
    <2>2. DirNow(p, s)' = DirNow(p, s) /\ (LoadsFor(p, s)' <=> LoadsFor(p, s))
      BY <1>3, ReadingDir
    <2>3. dd # None => LoadsFor(p, s) /\ IsCount(aa) /\ (OthersQuiet(p, aa) => dd = DirNow(p, s))
      BY <1>10
    <2>4. panel'[p].dir = dd /\ panel'[p].super = s /\ panel'[p].at = aa
      BY <1>8, <1>11
    <2>5. CASE dd = None
      BY <2>4, <2>5 DEF DirTrue
    <2>6. CASE dd # None
      <3>1. LoadsFor(p, s)' /\ IsCount(aa)' /\ (OthersQuiet(p, aa)' => dd = DirNow(p, s)')
        BY <2>1, <2>2, <2>3, <2>6
      <3> QED BY <2>4, <3>1 DEF DirTrue
    <2> QED BY <2>5, <2>6
  <1>13. CopyRight(p)'
    BY <1>8, <1>11 DEF CopyRight
  <1>14. InvitedRight(p)'
    <2>1. PICK at, ch : at = i.at /\ ch = i.ch
      OBVIOUS
    <2>2. /\ IsCount(at)' <=> IsCount(at)
          /\ OthersQuiet(p, at)' <=> OthersQuiet(p, at)
          /\ AsChosen(ch)' <=> AsChosen(ch)
      BY <1>3, ReadingCount, ReadingChosen
    <2> QED BY <1>2, <1>4, <1>6, <1>8, <1>11, <2>1, <2>2 DEF InvitedRight, PersonRight
  <1>15. PersonRight(p)'
    BY <1>4, <1>8, <1>11, <1>12, <1>13, <1>14 DEF PersonRight
  <1>16. OnlyOf(p)
    <2>1. \A e : e.by # p => (e \in pending' <=> e \in pending)
      BY <1>1, <1>3
    <2>2. DOMAIN badge' = Person /\ \A q \in Person \ {p} : badge'[q] = badge[q]
      BY <1>3 DEF AdminInv
    <2>3. DOMAIN panel' = Person /\ \A q \in Person \ {p} : panel'[q] = panel[q]
      BY <1>10
    <2> QED BY <2>1, <2>2, <2>3 DEF OnlyOf
  <1> QED BY <1>2, <1>3, <1>15, <1>16, ReadingStep, PersonStep

\* What a page is left with.
PanelFits(p, t, s, d, l, a, i, reqs) ==
  /\ \A e, f \in reqs : e = f
  /\ d # None => /\ LoadsFor(p, s) /\ IsCount(a)
                 /\ t = "people" /\ reqs = {} /\ (i # None => ~i.failed) /\ OthersQuiet(p, a) => d = DirNow(p, s)
  /\ l # None => /\ t \in {"groups", "share"} /\ IsCount(a)
                 /\ (\A e \in reqs : e.kind = "click" /\ ~e.ok) /\ OthersQuiet(p, a) => l = OwnCopy(t)
  /\ i # None => /\ i.failed \in BOOLEAN /\ i.ch \in Choices /\ IsCount(i.at) /\ (\A e \in reqs : e.kind \in {"load", "list"})
                 /\ ~i.failed /\ OthersQuiet(p, i.at) => AsChosen(i.ch)

LEMMA PanelStays ==
  ASSUME AdminInv, NEW p \in Person, Reading, badge' = badge,
         DOMAIN panel' = Person, \A q \in Person \ {p} : panel'[q] = panel[q],
         \A e : e.by # p => (e \in pending' <=> e \in pending),
         NEW t, NEW s \in BOOLEAN, NEW d, NEW l, NEW a, NEW i, panel'[p] = PanelOf(t, s, d, l, a, i),
         NEW reqs, CallsOf(p)' = reqs, \A e \in reqs : CalledRight(p, e)',
         PanelFits(p, t, s, d, l, a, i, reqs)
  PROVE  AdminInv'
  <1>1. PICK x : x = panel'[p]
    OBVIOUS
  <1>2. IsPanel(x) /\ x.tab = t /\ x.super = s /\ x.dir = d /\ x.list = l /\ x.at = a /\ x.invited = i
    BY <1>1, PanelFields
  <1>3. (IsCount(a)' <=> IsCount(a)) /\ (OthersQuiet(p, a)' <=> OthersQuiet(p, a))
    BY ReadingCount
  <1>4. DirTrue(p)'
    <2>1. CASE d = None
      BY <1>1, <1>2, <2>1 DEF DirTrue
    <2>2. CASE d # None
      <3>1. DirNow(p, s)' = DirNow(p, s) /\ (LoadsFor(p, s)' <=> LoadsFor(p, s))
        BY ReadingDir
      <3>2. /\ LoadsFor(p, s)' /\ IsCount(a)'
            /\ t = "people" /\ reqs = {} /\ (i # None => ~i.failed) /\ OthersQuiet(p, a)' => d = DirNow(p, s)'
        BY <1>3, <2>2, <3>1 DEF PanelFits
      <3> QED BY <1>1, <1>2, <3>2 DEF DirTrue
    <2> QED BY <2>1, <2>2
  <1>5. CopyRight(p)'
    <2>1. CASE l = None
      BY <1>1, <1>2, <2>1 DEF CopyRight
    <2>2. CASE l # None
      <3>1. OwnCopy(t)' = OwnCopy(t)
        BY ReadingCopy
      <3>2. /\ t \in {"groups", "share"} /\ IsCount(a)'
            /\ (\A e \in reqs : e.kind = "click" /\ ~e.ok) /\ OthersQuiet(p, a)' => l = OwnCopy(t)'
        BY <1>3, <2>2, <3>1 DEF PanelFits
      <3> QED BY <1>1, <1>2, <3>2 DEF CopyRight
    <2> QED BY <2>1, <2>2
  <1>6. InvitedRight(p)'
    <2>1. CASE i = None
      BY <1>1, <1>2, <2>1 DEF InvitedRight
    <2>2. CASE i # None
      <3>1. PICK at, ch : at = i.at /\ ch = i.ch
        OBVIOUS
      <3>2. (IsCount(at)' <=> IsCount(at)) /\ (OthersQuiet(p, at)' <=> OthersQuiet(p, at)) /\ (AsChosen(ch)' <=> AsChosen(ch))
        BY ReadingCount, ReadingChosen
      <3>3. /\ i.failed \in BOOLEAN /\ ch \in Choices /\ IsCount(at)' /\ \A e \in reqs : e.kind \in {"load", "list"}
            /\ ~i.failed /\ OthersQuiet(p, at)' => AsChosen(ch)'
        BY <2>2, <3>1, <3>2 DEF PanelFits
      <3> QED BY <1>1, <1>2, <3>1, <3>3 DEF InvitedRight
    <2> QED BY <2>1, <2>2
  <1>7. \A e, f \in reqs : e = f
    BY DEF PanelFits
  <1>8. PersonRight(p)'
    BY <1>1, <1>2, <1>4, <1>5, <1>6, <1>7 DEF PersonRight
  <1>9. OnlyOf(p)
    <2>1. DOMAIN badge' = Person /\ \A q \in Person \ {p} : badge'[q] = badge[q]
      BY DEF AdminInv
    <2> QED BY <2>1 DEF OnlyOf
  <1> QED BY <1>8, <1>9, ReadingStep, PersonStep

\* A page that reads asks for what there is.
LEMMA ReadsRight ==
  ASSUME AdminInv, Reading, badge' = badge, NEW p \in Person, NEW t \in {"people", "groups", "share"}, NEW s,
         panel'[p].tab = t, panel'[p].super = s, NEW e, e = ReadsOf(p, t, s)
  PROVE  e.by = p /\ e.kind \in {"load", "list"} /\ CalledRight(p, e)'
  <1>1. PICK at : at = wrote
    OBVIOUS
  <1>2. IsCount(at)'
    BY <1>1, NowCounts, ReadingCount
  <1>3. CASE t = "people"
    <2>1. PICK r, g, ok : r = access.role /\ g = PeopleGrants(p) /\ ok = LoadsFor(p, s)
      OBVIOUS
    <2>2. e = [kind |-> "load", by |-> p, super |-> s, at |-> at, role |-> r, ok |-> ok, grants |-> g]
      BY <1>1, <1>3, <2>1 DEF ReadsOf, FirstRead, PeopleGrants, LoadsFor
    <2>3. r = access'.role /\ g = PeopleGrants(p)' /\ ok = LoadsFor(p, s)'
      <3>1. LoadsFor(p, s)' = LoadsFor(p, s)
        BY DEF LoadsFor
      <3>2. PeopleGrants(p)' = PeopleGrants(p)
        BY ReadingDir
      <3> QED BY <2>1, <3>1, <3>2 DEF Reading
    <2>4. e.kind = "load" /\ e.by = p /\ e.super = s /\ e.at = at /\ e.role = r /\ e.ok = ok /\ e.grants = g
      BY <2>2
    <2>5. LoadedRight(p, e)'
      BY <1>2, <1>3, <2>3, <2>4 DEF LoadedRight
    <2> QED BY <2>4, <2>5 DEF CalledRight
  <1>4. CASE t # "people"
    <2>1. PICK copy : copy = OwnCopy(t)
      OBVIOUS
    <2>2. e = [kind |-> "list", by |-> p, tab |-> t, copy |-> copy, at |-> at]
      BY <1>1, <1>4, <2>1 DEF ReadsOf, Listing
    <2>3. copy = OwnCopy(t)'
      BY <2>1, ReadingCopy
    <2>4. e.kind = "list" /\ e.by = p /\ e.tab = t /\ e.at = at /\ e.copy = copy
      BY <2>2
    <2>5. ListingRight(p, e)'
      BY <1>2, <1>4, <2>3, <2>4 DEF ListingRight
    <2> QED BY <2>4, <2>5 DEF CalledRight
  <1> QED BY <1>3, <1>4

LEMMA ListShownStays ==
  ASSUME AdminInv, NEW c \in pending, ListShown(c)
  PROVE  AdminInv'
  <1>1. PICK p : p = c.by
    OBVIOUS
  <1>2. p \in Person /\ CallsOf(p) = {c} /\ PersonRight(p) /\ c.kind = "list" /\ ListingRight(p, c)
    BY <1>1, OnlyCall DEF ListShown, CalledRight
  <1>3. Reading /\ badge' = badge /\ pending' = pending \ {c}
    BY DEF ListShown, Reading
  <1>4. CallsOf(p)' = {}
    BY <1>2, <1>3 DEF CallsOf
  <1>5. PICK t, d, l, a, i : \E s \in BOOLEAN :
           /\ panel[p] = PanelOf(t, s, d, l, a, i) /\ panel[p].tab = t /\ panel[p].super = s /\ panel[p].dir = d
           /\ panel[p].list = l /\ panel[p].at = a /\ panel[p].invited = i
    BY <1>2, PanelPick
  <1>6. PICK s \in BOOLEAN :
           /\ panel[p] = PanelOf(t, s, d, l, a, i) /\ panel[p].tab = t /\ panel[p].super = s /\ panel[p].dir = d
           /\ panel[p].list = l /\ panel[p].at = a /\ panel[p].invited = i
    BY <1>5
  <1>7. c.tab = t /\ t \in {"groups", "share"} /\ IsCount(c.at) /\ (OthersQuiet(p, c.at) => c.copy = OwnCopy(t))
    BY <1>2, <1>6 DEF ListingRight
  <1>8. PICK at, copy : at = c.at /\ copy = c.copy
    OBVIOUS
  <1>9. panel' = [panel EXCEPT ![p].list = copy, ![p].at = at]
    BY <1>1, <1>6, <1>7, <1>8 DEF ListShown
  <1>10. panel'[p] = [panel[p] EXCEPT !.list = copy, !.at = at] /\ DOMAIN panel' = Person
         /\ \A q \in Person \ {p} : panel'[q] = panel[q]
    BY <1>2, <1>9 DEF AdminInv
  <1>11. panel'[p] = PanelOf(t, s, d, copy, at, i)
    BY <1>6, <1>10 DEF PanelOf
  <1>12. PanelFits(p, t, s, d, copy, at, i, {})
    BY <1>2, <1>6, <1>7, <1>8 DEF PersonRight, DirTrue, InvitedRight, PanelFits
  <1> QED BY <1>1, <1>2, <1>3, <1>4, <1>10, <1>11, <1>12, PanelStays

LEMMA OpensStays ==
  ASSUME AdminInv, NEW p \in Person, NEW t, OpensPanel(p, t)
  PROVE  AdminInv'
  <1>1. Reading /\ badge' = badge /\ t \in {"people", "share"} /\ CallsOf(p) = {}
    BY DEF OpensPanel, Reading, Quiet, CallsOf
  <1>2. PICK s : s = (access.role[p] = "superadmin")
    OBVIOUS
  <1>3. PICK e : e = ReadsOf(p, t, s)
    OBVIOUS
  <1>4. panel' = [panel EXCEPT ![p] = [NoPanel EXCEPT !.tab = t, !.super = s]] /\ pending' = pending \cup {e}
    BY <1>2, <1>3 DEF OpensPanel
  <1>5. panel'[p] = [NoPanel EXCEPT !.tab = t, !.super = s] /\ DOMAIN panel' = Person
        /\ \A q \in Person \ {p} : panel'[q] = panel[q]
    BY <1>4 DEF AdminInv
  <1>6. panel'[p] = PanelOf(t, s, None, None, None, None)
    BY <1>5 DEF NoPanel, PanelOf
  <1>7. panel'[p].tab = t /\ panel'[p].super = s
    BY <1>6 DEF PanelOf
  <1>8. e.by = p /\ e.kind \in {"load", "list"} /\ CalledRight(p, e)'
    BY <1>1, <1>3, <1>7, ReadsRight
  <1>9. CallsOf(p)' = {e} /\ \A f : f.by # p => (f \in pending' <=> f \in pending)
    BY <1>1, <1>4, <1>8 DEF CallsOf
  <1>10. PanelFits(p, t, s, None, None, None, None, {e}) /\ s \in BOOLEAN
    BY <1>2 DEF PanelFits
  <1> QED BY <1>1, <1>5, <1>6, <1>8, <1>9, <1>10, PanelStays

LEMMA SwitchStays ==
  ASSUME AdminInv, NEW p \in Person, NEW t, SwitchTab(p, t)
  PROVE  AdminInv'
  <1>1. Reading /\ badge' = badge /\ t \in {"people", "groups"} /\ CallsOf(p) = {} /\ PersonRight(p)
    BY DEF SwitchTab, Reading, Quiet, CallsOf, AdminInv
  <1>2. PICK t0, d, l, a, i : \E s \in BOOLEAN :
           /\ panel[p] = PanelOf(t0, s, d, l, a, i) /\ panel[p].tab = t0 /\ panel[p].super = s /\ panel[p].dir = d
           /\ panel[p].list = l /\ panel[p].at = a /\ panel[p].invited = i
    BY <1>1, PanelPick
  <1>3. PICK s \in BOOLEAN :
           /\ panel[p] = PanelOf(t0, s, d, l, a, i) /\ panel[p].tab = t0 /\ panel[p].super = s /\ panel[p].dir = d
           /\ panel[p].list = l /\ panel[p].at = a /\ panel[p].invited = i
    BY <1>2
  <1>4. PICK e : e = ReadsOf(p, t, s)
    OBVIOUS
  <1>5. panel' = [panel EXCEPT ![p].tab = t, ![p].list = None, ![p].invited = None] /\ pending' = pending \cup {e}
    BY <1>3, <1>4 DEF SwitchTab
  <1>6. panel'[p] = [panel[p] EXCEPT !.tab = t, !.list = None, !.invited = None] /\ DOMAIN panel' = Person
        /\ \A q \in Person \ {p} : panel'[q] = panel[q]
    BY <1>5 DEF AdminInv
  <1>7. panel'[p] = PanelOf(t, s, d, None, a, None)
    BY <1>3, <1>6 DEF PanelOf
  <1>8. panel'[p].tab = t /\ panel'[p].super = s
    BY <1>7 DEF PanelOf
  <1>9. e.by = p /\ e.kind \in {"load", "list"} /\ CalledRight(p, e)'
    BY <1>1, <1>4, <1>8, ReadsRight
  <1>10. CallsOf(p)' = {e} /\ \A f : f.by # p => (f \in pending' <=> f \in pending)
    BY <1>1, <1>5, <1>9 DEF CallsOf
  <1>11. PanelFits(p, t, s, d, None, a, None, {e})
    BY <1>1, <1>3 DEF PersonRight, DirTrue, PanelFits
  <1> QED BY <1>1, <1>6, <1>7, <1>9, <1>10, <1>11, PanelStays

LEMMA SignsInStays ==
  ASSUME AdminInv, NEW p \in Person, SignsInAgain(p)
  PROVE  AdminInv'
  <1>1. Reading /\ CallsOf(p) = {} /\ CallsOf(p)' = {}
    BY DEF SignsInAgain, Reading, Quiet, CallsOf
  <1>2. panel'[p] = NoPanel /\ OnlyOf(p)
    BY DEF SignsInAgain, OnlyOf, AdminInv
  <1>3. PICK x : x = panel'[p]
    OBVIOUS
  <1>4. x = PanelOf(None, FALSE, None, None, None, None)
    BY <1>2, <1>3 DEF NoPanel, PanelOf
  <1>5. IsPanel(x) /\ x.dir = None /\ x.list = None /\ x.invited = None
    BY <1>4 DEF IsPanel, PanelOf
  <1>6. PersonRight(p)'
    BY <1>1, <1>3, <1>5 DEF PersonRight, DirTrue, CopyRight, InvitedRight
  <1> QED BY <1>1, <1>2, <1>6, ReadingStep, PersonStep

LEMMA ClickDoneStays ==
  ASSUME AdminInv, NEW c \in pending, ClickDone(c)
  PROVE  AdminInv'
  <1>1. PICK p : p = c.by
    OBVIOUS
  <1>2. p \in Person /\ CallsOf(p) = {c} /\ PersonRight(p) /\ c.kind = "click" /\ ClickedRight(p, c)
    BY <1>1, OnlyCall DEF ClickDone, CalledRight
  <1>3. Reading /\ badge' = badge /\ panel' = panel
    BY DEF ClickDone, Reading
  <1>4. PICK t, d, l, a, i : \E s \in BOOLEAN :
           /\ panel[p] = PanelOf(t, s, d, l, a, i) /\ panel[p].tab = t /\ panel[p].super = s /\ panel[p].dir = d
           /\ panel[p].list = l /\ panel[p].at = a /\ panel[p].invited = i
    BY <1>2, PanelPick
  <1>5. PICK s \in BOOLEAN :
           /\ panel[p] = PanelOf(t, s, d, l, a, i) /\ panel[p].tab = t /\ panel[p].super = s /\ panel[p].dir = d
           /\ panel[p].list = l /\ panel[p].at = a /\ panel[p].invited = i
    BY <1>4
  <1>6. t \in {"people", "groups", "share"} /\ i = None
    BY <1>2, <1>5 DEF ClickedRight
  <1>7. DOMAIN panel' = Person /\ \A q \in Person \ {p} : panel'[q] = panel[q]
    BY <1>3 DEF AdminInv
  <1>8. CASE t = "people" \/ c.ok
    <2>1. PICK e : e = ReadsOf(p, t, s)
      OBVIOUS
    <2>2. pending' = (pending \ {c}) \cup {e}
      BY <1>1, <1>5, <1>6, <1>8, <2>1, AdminAssumption DEF ClickDone, Rereads
    <2>3. e.by = p /\ e.kind \in {"load", "list"} /\ CalledRight(p, e)'
      BY <1>2, <1>3, <1>5, <1>6, <2>1, ReadsRight
    <2>4. CallsOf(p)' = {e} /\ \A f : f.by # p => (f \in pending' <=> f \in pending)
      BY <1>1, <1>2, <2>2, <2>3 DEF CallsOf
    <2>5. PanelFits(p, t, s, d, l, a, i, {e})
      BY <1>2, <1>5, <1>6, <2>3 DEF PersonRight, DirTrue, CopyRight, PanelFits
    <2> QED BY <1>2, <1>3, <1>5, <1>7, <2>3, <2>4, <2>5, PanelStays
  <1>9. CASE ~(t = "people" \/ c.ok)
    <2>1. pending' = pending \ {c}
      BY <1>1, <1>5, <1>9 DEF ClickDone, Rereads
    <2>2. CallsOf(p)' = {} /\ \A f : f.by # p => (f \in pending' <=> f \in pending)
      BY <1>1, <1>2, <2>1 DEF CallsOf
    <2>3. PanelFits(p, t, s, d, l, a, i, {})
      BY <1>2, <1>5, <1>6, <1>9 DEF PersonRight, DirTrue, CopyRight, PanelFits
    <2> QED BY <1>2, <1>3, <1>5, <1>7, <2>2, <2>3, PanelStays
  <1> QED BY <1>8, <1>9

LEMMA GivenMeans == ASSUME NEW ch, NEW super, GivenTo(ch, super, {}) PROVE AsChosen(ch)
  <1>1. CASE super
    BY <1>1 DEF GivenTo, GivenBySuper, AsChosen
  <1>2. CASE ~super
    BY <1>2 DEF GivenTo, GivenByAdmin, AsChosen, Sensible
  <1> QED BY <1>1, <1>2

InviteOf(p, ch, super, at, todo, failed) ==
  [kind |-> "invite", by |-> p, ch |-> ch, super |-> super, at |-> at, todo |-> todo, failed |-> failed]

LEMMA InviteFlat ==
  ASSUME NEW c, IsInvite(c)
  PROVE  \E p, ch, at, todo : \E super, failed \in BOOLEAN :
           /\ c = InviteOf(p, ch, super, at, todo, failed) /\ c.by = p /\ c.ch = ch /\ c.super = super /\ c.at = at
           /\ c.todo = todo /\ c.failed = failed
  <1>1. PICK p, ch, at, todo : \E super, failed \in BOOLEAN :
           c = [kind |-> "invite", by |-> p, ch |-> ch, super |-> super, at |-> at, todo |-> todo, failed |-> failed]
    BY DEF IsInvite
  <1>2. PICK super, failed \in BOOLEAN :
           c = [kind |-> "invite", by |-> p, ch |-> ch, super |-> super, at |-> at, todo |-> todo, failed |-> failed]
    BY <1>1
  <1>3. c = InviteOf(p, ch, super, at, todo, failed)
    BY <1>2 DEF InviteOf
  <1>4. c.by = p /\ c.ch = ch /\ c.super = super /\ c.at = at /\ c.todo = todo /\ c.failed = failed
    BY <1>2
  <1> QED BY <1>3, <1>4

LEMMA InviteDoneStays ==
  ASSUME AdminInv, NEW c \in pending, InviteDone(c)
  PROVE  AdminInv'
  <1>1. PICK p : p = c.by
    OBVIOUS
  <1>2. p \in Person /\ CallsOf(p) = {c} /\ PersonRight(p) /\ InviteRight(p, c) /\ c.todo = {}
    BY <1>1, OnlyCall DEF InviteDone, CalledRight
  <1>3. Reading /\ badge' = badge
    BY DEF InviteDone, Reading
  <1>4. PICK t, d, l, a, i : \E s \in BOOLEAN :
           /\ panel[p] = PanelOf(t, s, d, l, a, i) /\ panel[p].tab = t /\ panel[p].super = s /\ panel[p].dir = d
           /\ panel[p].list = l /\ panel[p].at = a /\ panel[p].invited = i
    BY <1>2, PanelPick
  <1>5. PICK s \in BOOLEAN :
           /\ panel[p] = PanelOf(t, s, d, l, a, i) /\ panel[p].tab = t /\ panel[p].super = s /\ panel[p].dir = d
           /\ panel[p].list = l /\ panel[p].at = a /\ panel[p].invited = i
    BY <1>4
  <1>6. t = "people" /\ c.super = s /\ l = None
    BY <1>2, <1>5 DEF InviteRight, PersonRight, CopyRight
  <1>7. PICK failed, ch, at : failed = c.failed /\ ch = c.ch /\ at = c.at
    OBVIOUS
  <1>8. failed \in BOOLEAN /\ ch \in Choices /\ IsCount(at) /\ (~failed /\ OthersQuiet(p, at) => AsChosen(ch))
    BY <1>2, <1>7, InviteFlat, GivenMeans DEF InviteRight
  <1>9. PICK now : now = [failed |-> failed, ch |-> ch, at |-> at]
    OBVIOUS
  <1>10. now.failed = failed /\ now.ch = ch /\ now.at = at
    BY <1>9
  <1>11. now # None
    BY <1>2, <1>7, <1>8, <1>9, InvitedAssumption DEF InviteRight, IsCount
  <1>12. panel' = [panel EXCEPT ![p].invited = now]
    BY <1>1, <1>7, <1>9 DEF InviteDone
  <1>13. panel'[p] = [panel[p] EXCEPT !.invited = now] /\ DOMAIN panel' = Person
         /\ \A q \in Person \ {p} : panel'[q] = panel[q]
    BY <1>2, <1>12 DEF AdminInv
  <1>14. panel'[p] = PanelOf(t, s, d, l, a, now)
    BY <1>5, <1>13 DEF PanelOf
  <1>15. panel'[p].tab = t /\ panel'[p].super = s
    BY <1>14 DEF PanelOf
  <1>16. d # None => LoadsFor(p, s) /\ IsCount(a)
    BY <1>2, <1>5 DEF PersonRight, DirTrue
  <1>17. p \in Person /\ DOMAIN panel' = Person /\ \A q \in Person \ {p} : panel'[q] = panel[q]
    BY <1>2, <1>13
  <1>18. CASE failed
    <2>1. pending' = pending \ {c}
      BY <1>7, <1>18 DEF InviteDone
    <2>2. CallsOf(p)' = {} /\ \A f : f.by # p => (f \in pending' <=> f \in pending)
      BY <1>1, <1>2, <2>1 DEF CallsOf
    <2>3. now.failed
      BY <1>10, <1>18
    <2>4. PanelFits(p, t, s, d, l, a, now, {})
      BY <1>6, <1>8, <1>10, <1>16, <1>11, <2>3 DEF PanelFits
    <2> QED BY <1>3, <1>14, <1>17, <2>2, <2>4, PanelStays
  <1>19. CASE ~failed
    <2>1. PICK e : e = ReadsOf(p, t, s)
      OBVIOUS
    <2>2. pending' = (pending \ {c}) \cup {e}
      BY <1>1, <1>6, <1>7, <1>19, <2>1 DEF InviteDone, ReadsOf
    <2>3. e.by = p /\ e.kind \in {"load", "list"} /\ CalledRight(p, e)'
      BY <1>2, <1>3, <1>6, <1>15, <2>1, ReadsRight
    <2>4. CallsOf(p)' = {e} /\ \A f : f.by # p => (f \in pending' <=> f \in pending)
      BY <1>1, <1>2, <2>2, <2>3 DEF CallsOf
    <2>5. PanelFits(p, t, s, d, l, a, now, {e})
      <3>1. now.failed \in BOOLEAN /\ now.ch \in Choices /\ IsCount(now.at) /\ (~now.failed /\ OthersQuiet(p, now.at) => AsChosen(now.ch))
        BY <1>8, <1>10
      <3>2. \A f \in {e} : f.kind \in {"load", "list"}
        BY <2>3
      <3>3. {e} # {} /\ \A f, g \in {e} : f = g
        OBVIOUS
      <3> QED BY <1>6, <1>16, <3>1, <3>2, <3>3 DEF PanelFits
    <2> QED BY <1>3, <1>14, <1>17, <2>3, <2>4, <2>5, PanelStays
  <1> QED BY <1>8, <1>18, <1>19

-----------------------------------------------------------------------------
(* Clicking.                                                               *)

LEMMA GrantOpsRight == ASSUME NEW grants, NEW op \in GrantOps(grants) PROVE OpRight(op)
  <1>1. CASE \E g \in grants : op = Op("set", g.who, g.path, Toggled(g.perm), g.id)
    BY <1>1 DEF OpRight, Op, Toggled
  <1>2. CASE \E g \in grants : op = Op("take", g.who, g.path, g.perm, g.id)
    BY <1>2 DEF OpRight, Op
  <1> QED BY <1>1, <1>2 DEF GrantOps

LEMMA GiveOpsRight == ASSUME NEW who \in SUBSET (Person \cup {Team}), NEW op \in GiveOps(who) PROVE OpRight(op)
  <1>1. PICK w \in who, path \in Subpath, perm \in {"read", "write"} : op = Op("give", w, path, perm, 0)
    BY DEF GiveOps
  <1> QED BY <1>1 DEF OpRight, Op

LEMMA PlainOpRight ==
  ASSUME NEW do \in {"delete", "join", "leave", "promote", "demote", "team", "namespace"}, NEW w,
         w \in Person \/ do \in {"leave", "team", "namespace"}
  PROVE  OpRight(OnPerson(do, w))
  BY DEF OpRight, OnPerson, Op

LEMMA CardOpsRight == ASSUME NEW d, NEW op \in CardOps(d) PROVE OpRight(op)
  <1>1. PICK people : people = {v \in Person : d.role[v] # None}
    OBVIOUS
  <1>2. \/ \E w \in people : op = OnPerson(IF w \in d.admins THEN "demote" ELSE "promote", w)
        \/ op \in GiveOps(people)
        \/ op \in GrantOps({g \in d.grants : g.who # Team})
    BY <1>1 DEF CardOps
  <1>3. people \in SUBSET (Person \cup {Team})
    BY <1>1
  <1>4. CASE \E w \in people : op = OnPerson(IF w \in d.admins THEN "demote" ELSE "promote", w)
    <2>1. PICK w \in people : op = OnPerson(IF w \in d.admins THEN "demote" ELSE "promote", w)
      BY <1>4
    <2> QED BY <1>1, <2>1, PlainOpRight
  <1> QED BY <1>2, <1>3, <1>4, GiveOpsRight, GrantOpsRight

LEMMA SuperOpsRight ==
  ASSUME NEW p, NEW op \in SuperOps(panel[p].dir), Informed(p, op)
  PROVE  OpRight(op)
  <1>1. PICK d : d = panel[p].dir
    OBVIOUS
  <1>2. PICK people : people = {v \in Person : d.role[v] # None}
    OBVIOUS
  <1>3. \/ \E w \in people : op = Op("role", w, "/", IF d.role[w] = "superadmin" THEN RoleAfter(d, w) ELSE "superadmin", 0)
        \/ \E w \in people : op \in {OnPerson("delete", w), OnPerson("join", w), OnPerson("leave", w)}
        \/ op \in GiveOps({Team})
        \/ op \in GrantOps({g \in d.grants : g.who = Team})
        \/ op = OnPerson("namespace", None)
    BY <1>1, <1>2 DEF SuperOps
  <1>4. CASE \E w \in people : op = Op("role", w, "/", IF d.role[w] = "superadmin" THEN RoleAfter(d, w) ELSE "superadmin", 0)
    <2>1. PICK v \in people : op = Op("role", v, "/", IF d.role[v] = "superadmin" THEN RoleAfter(d, v) ELSE "superadmin", 0)
      BY <1>4
    <2>2. op.do = "role" /\ op.who = v /\ op.perm = IF d.role[v] = "superadmin" THEN RoleAfter(d, v) ELSE "superadmin"
      BY <2>1 DEF Op
    <2>3. op.perm \in Role /\ (op.perm = "collaborator" => v \notin d.admins)
      BY <2>2 DEF Role, RoleAfter
    <2>4. op.perm # "superadmin" => (v \in d.admins <=> v \in access.admins)
      BY <1>1, <2>2 DEF Informed
    <2> QED BY <1>2, <2>2, <2>3, <2>4 DEF OpRight
  <1>5. CASE \E w \in people : op \in {OnPerson("delete", w), OnPerson("join", w), OnPerson("leave", w)}
    BY <1>2, <1>5, PlainOpRight
  <1>6. CASE op = OnPerson("namespace", None)
    BY <1>6, PlainOpRight
  <1>7. {Team} \in SUBSET (Person \cup {Team})
    OBVIOUS
  <1> QED BY <1>3, <1>4, <1>5, <1>6, <1>7, GiveOpsRight, GrantOpsRight

LEMMA OpsRight ==
  ASSUME NEW p, NEW op \in CanClick(p), Informed(p, op)
  PROVE  OpRight(op)
  <1>1. PICK l : l = panel[p].list
    OBVIOUS
  <1>2. \/ op \in CardOps(panel[p].dir) \/ op \in SuperOps(panel[p].dir)
        \/ op \in GroupOps(l) \/ op \in ShareOps(l)
    BY <1>1 DEF CanClick
  <1>3. CASE op \in GroupOps(l)
    <2>1. \/ \E w \in Person : op = OnPerson("join", w)
          \/ \E w : op = OnPerson("leave", w)
          \/ op \in GiveOps({Team}) \/ op \in GrantOps(l.grants) \/ op = OnPerson("team", None)
      BY <1>3 DEF GroupOps
    <2>2. {Team} \in SUBSET (Person \cup {Team})
      OBVIOUS
    <2> QED BY <2>1, <2>2, PlainOpRight, GiveOpsRight, GrantOpsRight
  <1>4. CASE op \in ShareOps(l)
    <2>1. PICK who : who = {w \in Person : access.role[w] = "collaborator"}
      OBVIOUS
    <2>2. op \in GrantOps(l.grants) \/ op \in GiveOps(who)
      BY <1>4, <2>1 DEF ShareOps
    <2>3. who \in SUBSET (Person \cup {Team})
      BY <2>1
    <2> QED BY <2>2, <2>3, GiveOpsRight, GrantOpsRight
  <1> QED BY <1>2, <1>3, <1>4, CardOpsRight, SuperOpsRight

\* What the server makes of a request.
LEMMA ServeStep ==
  ASSUME AdminInv, NEW p \in Person, NEW op, OpRight(op), Serve(p, op)
  PROVE  StepOf(p) /\ AccessRight(access') /\ (~Permitted(p, op) => access' = access /\ wrote' = wrote)
         /\ (Permitted(p, op) => access' = Carried(op))
  <1>1. access' = IF Permitted(p, op) THEN Carried(op) ELSE access
    BY DEF Serve
  <1>2. wrote' = IF access' = access THEN wrote ELSE [wrote EXCEPT ![p] = @ + 1]
    BY DEF Serve
  <1>3. AccessRight(access')
    BY <1>1, CarriedRight DEF AdminInv
  <1>4. StepOf(p)
    BY <1>2 DEF StepOf, AdminInv
  <1> QED BY <1>1, <1>2, <1>3, <1>4

LEMMA ClicksStays ==
  ASSUME AdminInv, ~Hurried, NEW p \in Person, Clicks(p)
  PROVE  AdminInv'
  <1>1. PICK op \in CanClick(p) :
           /\ Informed(p, op) /\ Serve(p, op)
           /\ pending' = pending \cup {[kind |-> "click", by |-> p, ok |-> Permitted(p, op)]}
    BY DEF Clicks
  <1>2. CallsOf(p) = {} /\ PersonRight(p) /\ badge' = badge /\ panel' = [panel EXCEPT ![p].invited = None]
    BY DEF Clicks, Quiet, CallsOf, AdminInv
  <1>3. OpRight(op)
    BY <1>1, OpsRight
  <1>4. ~Permitted(p, op) => access' = access /\ wrote' = wrote
    BY <1>1, <1>3, ServeStep
  <1>5. StepOf(p) /\ AccessRight(access')
    BY <1>1, <1>3, ServeStep
  <1>6. PICK e : e = [kind |-> "click", by |-> p, ok |-> Permitted(p, op)]
    OBVIOUS
  <1>7. e.kind = "click" /\ e.by = p /\ (e.ok \/ (access' = access /\ wrote' = wrote))
    <2>1. e.kind = "click" /\ e.by = p /\ e.ok = Permitted(p, op)
      BY <1>6
    <2>2. Permitted(p, op) => e.ok
      BY <2>1, Zenon
    <2> QED BY <1>4, <2>1, <2>2
  <1>8. CallsOf(p)' = {e} /\ \A f : f.by # p => (f \in pending' <=> f \in pending)
    BY <1>1, <1>2, <1>6, <1>7 DEF CallsOf
  <1>9. PICK t, d, l, a, i : \E s \in BOOLEAN :
           /\ panel[p] = PanelOf(t, s, d, l, a, i) /\ panel[p].tab = t /\ panel[p].super = s /\ panel[p].dir = d
           /\ panel[p].list = l /\ panel[p].at = a /\ panel[p].invited = i
    BY <1>2, PanelPick
  <1>10. PICK s \in BOOLEAN :
           /\ panel[p] = PanelOf(t, s, d, l, a, i) /\ panel[p].tab = t /\ panel[p].super = s /\ panel[p].dir = d
           /\ panel[p].list = l /\ panel[p].at = a /\ panel[p].invited = i
    BY <1>9
  <1>11. panel'[p] = [panel[p] EXCEPT !.invited = None] /\ DOMAIN panel' = Person
         /\ \A q \in Person \ {p} : panel'[q] = panel[q]
    BY <1>2 DEF AdminInv
  <1>12. PICK x : x = panel'[p]
    OBVIOUS
  <1>13. x = PanelOf(t, s, d, l, a, None)
    BY <1>10, <1>11, <1>12 DEF PanelOf
  <1>14. IsPanel(x) /\ x.tab = t /\ x.super = s /\ x.dir = d /\ x.list = l /\ x.at = a /\ x.invited = None
    BY <1>13, PanelFields
  <1>15. t \in {"people", "groups", "share"}
    BY <1>1, <1>10 DEF CanClick
  <1>16. IsCount(a) => IsCount(a)' /\ (OthersQuiet(p, a)' <=> OthersQuiet(p, a))
    BY <1>5, CountStays DEF AdminInv
  <1>17. DirTrue(p)'
    <2>1. d # None => LoadsFor(p, s)' /\ IsCount(a)'
      BY <1>2, <1>10, <1>16 DEF PersonRight, DirTrue, LoadsFor
    <2>2. CallsOf(p)' # {}
      BY <1>8
    <2> QED BY <1>12, <1>14, <2>1, <2>2 DEF DirTrue
  <1>18. CopyRight(p)'
    <2>1. CASE l = None
      BY <1>12, <1>14, <2>1 DEF CopyRight
    <2>2. CASE l # None
      <3>1. t \in {"groups", "share"} /\ IsCount(a) /\ (OthersQuiet(p, a) => l = OwnCopy(t))
        BY <1>2, <1>10, <2>2 DEF PersonRight, CopyRight
      <3>2. ~e.ok => OwnCopy(t)' = OwnCopy(t)
        BY <1>7 DEF OwnCopy
      <3>3. (\A f \in CallsOf(p)' : f.kind = "click" /\ ~f.ok) => ~e.ok
        BY <1>8
      <3> QED BY <1>12, <1>14, <1>16, <3>1, <3>2, <3>3 DEF CopyRight
    <2> QED BY <2>1, <2>2
  <1>19. InvitedRight(p)'
    BY <1>12, <1>14 DEF InvitedRight
  <1>20. CalledRight(p, e)'
    BY <1>7, <1>12, <1>14, <1>15 DEF CalledRight, ClickedRight
  <1>21. PersonRight(p)'
    BY <1>8, <1>12, <1>14, <1>17, <1>18, <1>19, <1>20 DEF PersonRight
  <1>22. OnlyOf(p)
    BY <1>2, <1>8, <1>11 DEF OnlyOf, AdminInv
  <1> QED BY <1>5, <1>21, <1>22, PersonStep

-----------------------------------------------------------------------------
(* Adding a person.                                                        *)

LEMMA HoldsMore ==
  ASSUME NEW w, NEW path, NEW perm, NEW k, NEW g, NEW h, h = g \cup {Grant(k, w, path, perm)}
  PROVE  HoldsOf(h, w) = HoldsOf(g, w) \cup {[path |-> path, perm |-> perm]}
  <1>1. PICK x : x = Grant(k, w, path, perm)
    OBVIOUS
  <1>2. x.who = w /\ x.path = path /\ x.perm = perm
    BY <1>1 DEF Grant
  <1> QED BY <1>1, <1>2 DEF HoldsOf

\* Somebody new: nothing but what they are given with the account.
LEMMA InvitedIs ==
  ASSUME AccessRight(access), access.role[Newcomer] = None, NEW ch, NEW super
  PROVE  LET a == Invited(ch, super)
         IN  /\ AccessRight(a)
             /\ HoldsOf(a.grants, Newcomer) = IF super THEN {} ELSE AllOfIt
             /\ Newcomer \notin a.members
             /\ Newcomer \in a.admins <=> ~super /\ ch.admin
             /\ a.role[Newcomer] # None
  <1>1. PICK r0, n0, g0, m0, t0, k0, h0 :
           /\ access = AccessOf(r0, n0, g0, m0, t0, k0, h0) /\ access.role = r0 /\ access.admins = n0
           /\ access.grants = g0 /\ access.members = m0 /\ access.team = t0 /\ access.made = k0 /\ access.there = h0
    BY AccessFlat DEF AccessRight
  <1>2. PICK r : r = IF ch.admin THEN "admin" ELSE "collaborator"
    OBVIOUS
  <1>3. PICK f, n : f = [r0 EXCEPT ![Newcomer] = r] /\ n = IF ch.admin THEN n0 \cup {Newcomer} ELSE n0
    OBVIOUS
  <1>4. PICK a : a = [access EXCEPT !.role[Newcomer] = r]
    OBVIOUS
  <1>5. a = AccessOf(f, n0, g0, m0, t0, k0, h0)
    BY <1>1, <1>3, <1>4 DEF AccessOf
  <1>6. PICK b : b = [a EXCEPT !.admins = n]
    OBVIOUS
  <1>7. b = AccessOf(f, n, g0, m0, t0, k0, h0)
    BY <1>5, <1>6 DEF AccessOf
  <1>8. a.admins = n0 /\ a.role = f /\ a.grants = g0 /\ a.members = m0
    BY <1>5 DEF AccessOf
  <1>9. Invited(ch, super) = IF super THEN a ELSE Granted(b, Newcomer, "/", "write")
    <2> DEFINE x == [access EXCEPT !.role[Newcomer] = IF ch.admin THEN "admin" ELSE "collaborator"]
               y == [x EXCEPT !.admins = IF ch.admin THEN @ \cup {Newcomer} ELSE @]
    <2>1. Invited(ch, super) = IF ~super THEN Granted(y, Newcomer, "/", "write") ELSE x
      BY DEF Invited, NamesIt
    <2>2. x = a
      BY <1>2, <1>4
    <2> HIDE DEF x
    <2>3. y = b
      BY <1>3, <1>6, <1>8, <2>2
    <2> HIDE DEF y
    <2> QED BY <2>1, <2>2, <2>3
  <1>10. f \in [Person -> Role \cup {None}] /\ f[Newcomer] = r /\ r \in Role /\ \A v \in Person \ {Newcomer} : f[v] = r0[v]
    BY <1>1, <1>2, <1>3, AccessForm, AdminAssumption DEF AccessRight, Role
  <1>11. n0 \in SUBSET Person /\ n \in SUBSET Person /\ m0 \in SUBSET Person
    BY <1>1, <1>3, AccessForm, AdminAssumption DEF AccessRight
  <1>12. LeftBare(access, Newcomer)
    BY AdminAssumption DEF AccessRight, AllBare
  <1>13. AccessRight(a)
    <2>1. IsAccess(a)
      BY <1>5, <1>10, <1>11, AccessFields
    <2>2. AllBare(a)
      BY <1>1, <1>8, <1>10, AdminAssumption DEF AccessRight, AllBare, LeftBare
    <2>3. RoleFollows(a)
      BY <1>1, <1>8, <1>10, <1>11, <1>12 DEF AccessRight, RoleFollows, LeftBare
    <2>4. Managed(a)
      BY <1>1, <1>8, <1>10, AdminAssumption DEF AccessRight, Managed, Role
    <2> QED BY <1>1, <1>8, <2>1, <2>2, <2>3, <2>4 DEF AccessRight, OneGrant
  <1>14. b.admins = n /\ b.role = f /\ b.grants = g0 /\ b.members = m0 /\ b.team = t0 /\ b.made = k0 /\ b.there = h0
    BY <1>7 DEF AccessOf
  <1>15. AccessRight(b)
    <2>1. IsAccess(b)
      BY <1>7, <1>10, <1>11, AccessFields
    <2>2. AllBare(b)
      BY <1>1, <1>3, <1>10, <1>14, AdminAssumption DEF AccessRight, AllBare, LeftBare
    <2>3. RoleFollows(b)
      BY <1>1, <1>2, <1>3, <1>10, <1>12, <1>14 DEF AccessRight, RoleFollows, LeftBare
    <2>4. Managed(b)
      BY <1>1, <1>10, <1>14, AdminAssumption DEF AccessRight, Managed, Role
    <2> QED BY <1>1, <1>14, <2>1, <2>2, <2>3, <2>4 DEF AccessRight, OneGrant
  <1>16. HoldsOf(g0, Newcomer) = {} /\ Newcomer \notin m0 /\ Newcomer \notin n0
    BY <1>1, <1>12 DEF LeftBare, HoldsOf
  <1>17. CASE super
    BY <1>8, <1>9, <1>10, <1>13, <1>16, <1>17, AdminAssumption
  <1>18. CASE ~super
    <2>1. PICK k, g, c : k = k0 + 1 /\ g = g0 \cup {Grant(k, Newcomer, "/", "write")}
                         /\ c = Granted(b, Newcomer, "/", "write")
      OBVIOUS
    <2>2. c = [b EXCEPT !.grants = g, !.made = k]
      BY <1>14, <2>1 DEF Granted
    <2>3. c = AccessOf(f, n, g, m0, t0, k, h0)
      BY <1>7, <2>2 DEF AccessOf
    <2>4. g = {y \in g0 : ~(y.who = Newcomer /\ y.path = "/")} \cup {Grant(k, Newcomer, "/", "write")}
      BY <1>1, <1>12, <2>1 DEF LeftBare
    <2>5. c = AccessOf(b.role, b.admins, {y \in b.grants : ~(y.who = Newcomer /\ y.path = "/")}
                         \cup {Grant(k, Newcomer, "/", "write")}, b.members, b.team, k, b.there)
      BY <1>14, <2>3, <2>4
    <2>6. b.role[Newcomer] # None /\ "/" \in Subpath /\ Newcomer \in Person
      BY <1>10, <1>14, AdminAssumption DEF Subpath
    <2>7. AccessRight(c)
      BY <1>15, <2>5, <2>6, GrantMore
    <2>8. c.grants = g /\ c.members = m0 /\ c.admins = n /\ c.role = f
      BY <2>3 DEF AccessOf
    <2>9. HoldsOf(g, Newcomer) = AllOfIt
      BY <1>16, <2>1, HoldsMore DEF AllOfIt
    <2> QED BY <1>3, <1>9, <1>14, <1>16, <1>18, <2>1, <2>6, <2>7, <2>8, <2>9
  <1> QED BY <1>17, <1>18

\* A single grant, that of all of it.
LEMMA AllIsOne ==
  ASSUME OneGrant(access), NEW w, Holds(w) = AllOfIt
  PROVE  \E g \in access.grants : /\ g.who = w /\ (\A x \in access.grants : x.who = w => x = g)
                                  /\ Direct(w, "/") = {g} /\ (CHOOSE x \in Direct(w, "/") : TRUE) = g
  <1>1. PICK all : all = [path |-> "/", perm |-> "write"]
    OBVIOUS
  <1>2. Holds(w) = {all} /\ all.path = "/"
    BY <1>1 DEF AllOfIt
  <1>3. PICK g \in access.grants : g.who = w /\ [path |-> g.path, perm |-> g.perm] = all
    BY <1>2 DEF Holds, HoldsOf
  <1>4. \A x \in access.grants : x.who = w => x.path = "/"
    <2> SUFFICES ASSUME NEW x \in access.grants, x.who = w PROVE x.path = "/"
      OBVIOUS
    <2>1. PICK y : y = [path |-> x.path, perm |-> x.perm]
      OBVIOUS
    <2>2. y = all
      BY <1>2, <2>1 DEF Holds, HoldsOf
    <2> QED BY <1>2, <2>1, <2>2
  <1>5. \A x \in access.grants : x.who = w => x = g
    BY <1>3, <1>4 DEF OneGrant
  <1>6. Direct(w, "/") = {g}
    BY <1>3, <1>4, <1>5 DEF Direct
  <1>7. (CHOOSE x \in Direct(w, "/") : TRUE) = g
    BY <1>6
  <1> QED BY <1>3, <1>5, <1>6, <1>7

LEMMA GiveAdds ==
  ASSUME AccessRight(access), NEW by, NEW op, op.do = "give", op.who # Team, Permitted(by, op)
  PROVE  /\ HoldsOf(Carried(op).grants, op.who) = Holds(op.who) \cup {[path |-> op.path, perm |-> op.perm]}
         /\ Carried(op).members = access.members /\ Carried(op).admins = access.admins
  <1>1. PICK a, b, w, path, perm : a = access /\ b = Carried(op) /\ w = op.who /\ path = op.path /\ perm = op.perm
    OBVIOUS
  <1>2. PICK k : b = AccessOf(a.role, a.admins, {y \in a.grants : ~(y.who = w /\ y.path = path)}
                               \cup {Grant(k, w, path, perm)}, a.members, a.team, k, a.there)
    BY <1>1, GiveForm
  <1>3. {y \in a.grants : ~(y.who = w /\ y.path = path)} = a.grants
    BY <1>1 DEF Permitted, Direct
  <1>4. b.grants = a.grants \cup {Grant(k, w, path, perm)} /\ b.members = a.members /\ b.admins = a.admins
    BY <1>2, <1>3 DEF AccessOf
  <1>5. HoldsOf(b.grants, w) = HoldsOf(a.grants, w) \cup {[path |-> path, perm |-> perm]}
    BY <1>4, HoldsMore
  <1> QED BY <1>1, <1>4, <1>5 DEF Holds

LEMMA PromoteAdds ==
  ASSUME AccessRight(access), NEW op, op.do = "promote"
  PROVE  /\ HoldsOf(Carried(op).grants, op.who) \in {Holds(op.who), Holds(op.who) \cup AllOfIt}
         /\ Carried(op).members = access.members /\ Carried(op).admins = access.admins \cup {op.who}
  <1>1. PICK a, c, w : a = access /\ c = Carried(op) /\ w = op.who
    OBVIOUS
  <1>2. PICK n, g0, m0, t0, k0, h0 :
         n = a.admins \cup {w} /\ g0 = a.grants /\ m0 = a.members /\ t0 = a.team /\ k0 = a.made /\ h0 = a.there
    OBVIOUS
  <1>3. PICK f, b : /\ b = AccessOf(f, n, g0, m0, t0, k0, h0)
                    /\ c = IF Direct(w, "/") = {} THEN Granted(b, w, "/", "write") ELSE b
    BY <1>1, <1>2, PromoteForm
  <1>4. b.grants = g0 /\ b.members = m0 /\ b.admins = n /\ b.made = k0
    BY <1>3 DEF AccessOf
  <1>5. CASE Direct(w, "/") = {}
    <2>1. PICK k, g : k = k0 + 1 /\ g = g0 \cup {Grant(k, w, "/", "write")}
      OBVIOUS
    <2>2. c = [b EXCEPT !.grants = g, !.made = k]
      BY <1>3, <1>4, <1>5, <2>1 DEF Granted
    <2>3. c = AccessOf(f, n, g, m0, t0, k, h0)
      BY <1>3, <2>2 DEF AccessOf
    <2>4. c.grants = g /\ c.members = m0 /\ c.admins = n
      BY <2>3 DEF AccessOf
    <2>5. HoldsOf(g, w) = HoldsOf(g0, w) \cup AllOfIt
      BY <2>1, HoldsMore DEF AllOfIt
    <2> QED BY <1>1, <1>2, <2>4, <2>5 DEF Holds
  <1>6. CASE Direct(w, "/") # {}
    BY <1>1, <1>2, <1>3, <1>4, <1>6 DEF Holds
  <1> QED BY <1>5, <1>6

LEMMA JoinAdds ==
  ASSUME AccessRight(access), NEW op, op.do = "join"
  PROVE  /\ Carried(op).grants = access.grants /\ Carried(op).members = access.members \cup {op.who}
         /\ Carried(op).admins = access.admins
  <1>1. PICK m, b : m = access.members \cup {op.who} /\ b = Carried(op)
    OBVIOUS
  <1>2. b = [access EXCEPT !.members = m]
    BY <1>1 DEF Carried
  <1>3. PICK r0, n0, g0, m0, t0, k0, h0 :
         /\ access = AccessOf(r0, n0, g0, m0, t0, k0, h0) /\ access.admins = n0 /\ access.grants = g0
    BY AccessFlat DEF AccessRight
  <1>4. b = AccessOf(r0, n0, g0, m, t0, k0, h0)
    BY <1>2, <1>3 DEF AccessOf
  <1>5. b.grants = g0 /\ b.members = m /\ b.admins = n0
    BY <1>4 DEF AccessOf
  <1> QED BY <1>1, <1>3, <1>5

\* To narrow what an account came with.
LEMMA TakesAll ==
  ASSUME AccessRight(access), NEW op, op.do = "take", NEW w, Holds(w) = AllOfIt,
         \A g \in access.grants : g.who = w => g.id = op.id, NEW b, b = Carried(op)
  PROVE  HoldsOf(b.grants, w) = {} /\ b.members = access.members /\ b.admins = access.admins
  <1>1. PICK r0, n0, g0, m0, t0, k0, h0 :
         /\ access = AccessOf(r0, n0, g0, m0, t0, k0, h0) /\ access.admins = n0 /\ access.grants = g0 /\ access.members = m0
    BY AccessFlat DEF AccessRight
  <1>2. PICK h : h = {x \in g0 : x.id # op.id}
    OBVIOUS
  <1>3. b = [access EXCEPT !.grants = h]
    BY <1>1, <1>2 DEF Carried
  <1>4. b = AccessOf(r0, n0, h, m0, t0, k0, h0)
    BY <1>1, <1>3 DEF AccessOf
  <1>5. b.grants = h /\ b.members = m0 /\ b.admins = n0
    BY <1>4 DEF AccessOf
  <1>6. HoldsOf(h, w) = {}
    BY <1>1, <1>2 DEF HoldsOf
  <1> QED BY <1>1, <1>5, <1>6

LEMMA SetsAll ==
  ASSUME AccessRight(access), NEW op, op.do = "set", op.perm \in {"read", "write"}, NEW w, Holds(w) = AllOfIt,
         \A g \in access.grants : g.who = w => g.id = op.id, NEW b, b = Carried(op)
  PROVE  /\ HoldsOf(b.grants, w) = {[path |-> "/", perm |-> op.perm]}
         /\ b.members = access.members /\ b.admins = access.admins
  <1>1. PICK r0, n0, g0, m0, t0, k0, h0 :
         /\ access = AccessOf(r0, n0, g0, m0, t0, k0, h0) /\ access.admins = n0 /\ access.grants = g0 /\ access.members = m0
    BY AccessFlat DEF AccessRight
  <1>2. PICK h : h = {Reset(op, x) : x \in g0}
    OBVIOUS
  <1>3. b = [access EXCEPT !.grants = h]
    BY <1>1, <1>2, SetCarries
  <1>4. b = AccessOf(r0, n0, h, m0, t0, k0, h0)
    BY <1>1, <1>3 DEF AccessOf
  <1>5. b.grants = h /\ b.members = m0 /\ b.admins = n0
    BY <1>4 DEF AccessOf
  <1>6. PICK g \in g0 : /\ g.who = w /\ (\A x \in g0 : x.who = w => x = g) /\ Direct(w, "/") = {g}
    BY <1>1, AllIsOne DEF AccessRight
  <1>7. g.path = "/" /\ g.id = op.id
    BY <1>1, <1>6 DEF Direct
  <1>8. \A x \in g0 : /\ Reset(op, x).who = x.who /\ Reset(op, x).path = x.path
                      /\ x.id = op.id => Reset(op, x).perm = op.perm
    BY <1>1, ResetIs DEF AccessRight
  <1>9. PICK y : y = Reset(op, g)
    OBVIOUS
  <1>10. y.who = w /\ y.path = "/" /\ y.perm = op.perm
    BY <1>6, <1>7, <1>8, <1>9
  <1>11. {x \in h : x.who = w} = {y}
    BY <1>2, <1>6, <1>8, <1>9, <1>10
  <1>12. HoldsOf(h, w) = {[path |-> y.path, perm |-> y.perm]}
    BY <1>11 DEF HoldsOf
  <1> QED BY <1>1, <1>5, <1>10, <1>12

LEMMA OpIs ==
  ASSUME NEW do, NEW who, NEW path, NEW perm, NEW id
  PROVE  LET op == Op(do, who, path, perm, id)
         IN  op.do = do /\ op.who = who /\ op.path = path /\ op.perm = perm /\ op.id = id
  BY DEF Op

LEMMA FollowIs ==
  ASSUME NEW c, NEW do
  PROVE  LET op == FollowUp(c, do)
         IN  /\ op.do = do /\ op.who = Newcomer /\ op.path = c.ch.path /\ op.perm = c.ch.perm
             /\ Holds(Newcomer) = AllOfIt /\ OneGrant(access) => \A g \in access.grants : g.who = Newcomer => g.id = op.id
  <1>1. PICK id : id = IF Direct(Newcomer, "/") = {} THEN 0 ELSE (CHOOSE g \in Direct(Newcomer, "/") : TRUE).id
    OBVIOUS
  <1>2. FollowUp(c, do) = Op(do, Newcomer, c.ch.path, c.ch.perm, id)
    BY <1>1 DEF FollowUp
  <1>3. Holds(Newcomer) = AllOfIt /\ OneGrant(access) => \A g \in access.grants : g.who = Newcomer => g.id = id
    <2> SUFFICES ASSUME Holds(Newcomer) = AllOfIt, OneGrant(access), NEW g \in access.grants, g.who = Newcomer
                 PROVE  g.id = id
      OBVIOUS
    <2>1. Direct(Newcomer, "/") = {g} /\ (CHOOSE x \in Direct(Newcomer, "/") : TRUE) = g
      BY AllIsOne
    <2>2. Direct(Newcomer, "/") # {}
      BY <2>1
    <2> QED BY <1>1, <2>1, <2>2
  <1> QED BY <1>1, <1>2, <1>3, OpIs

LEMMA SuperFollows ==
  ASSUME AccessRight(access), NEW c, c.super = TRUE, GivenTo(c.ch, TRUE, c.todo), NEW do \in c.todo, NEW by,
         Permitted(by, FollowUp(c, do)), access' = Carried(FollowUp(c, do)), NEW todo, todo = c.todo \ {do}
  PROVE  GivenTo(c.ch, TRUE, todo)'
  <1>1. PICK op, ch : op = FollowUp(c, do) /\ ch = c.ch
    OBVIOUS
  <1>2. op.do = do /\ op.who = Newcomer /\ op.path = ch.path /\ op.perm = ch.perm
    BY <1>1, FollowIs
  <1>3. Sensible(ch, TRUE) /\ GivenBySuper(ch, c.todo)
    BY <1>1 DEF GivenTo
  <1>4. PICK b : b = access' /\ b = Carried(op)
    BY <1>1
  <1>5. Holds(Newcomer)' = HoldsOf(b.grants, Newcomer)
    BY <1>4 DEF Holds
  <1>6. CASE do = "give"
    <2>1. /\ HoldsOf(b.grants, Newcomer) = Holds(Newcomer) \cup ToHold(ch)
          /\ b.members = access.members /\ b.admins = access.admins
      BY <1>1, <1>2, <1>4, <1>6, GiveAdds, AdminAssumption DEF ToHold
    <2>2. ch.ns
      BY <1>3, <1>6 DEF GivenBySuper, FollowUps
    <2>3. GivenBySuper(ch, todo)'
      BY <1>3, <1>4, <1>5, <1>6, <2>1, <2>2 DEF GivenBySuper
    <2> QED BY <1>1, <1>3, <2>3 DEF GivenTo
  <1>7. CASE do = "promote"
    <2>1. /\ HoldsOf(b.grants, Newcomer) \in {Holds(Newcomer), Holds(Newcomer) \cup AllOfIt}
          /\ b.members = access.members /\ b.admins = access.admins \cup {Newcomer}
      BY <1>2, <1>4, <1>7, PromoteAdds
    <2>2. ch.admin
      BY <1>3, <1>7 DEF GivenBySuper, FollowUps
    <2>3. GivenBySuper(ch, todo)'
      BY <1>3, <1>4, <1>5, <1>7, <2>1, <2>2 DEF GivenBySuper
    <2> QED BY <1>1, <1>3, <2>3 DEF GivenTo
  <1>8. CASE do = "join"
    <2>1. b.grants = access.grants /\ b.members = access.members \cup {Newcomer} /\ b.admins = access.admins
      BY <1>2, <1>4, <1>8, JoinAdds
    <2>2. ch.team /\ Holds(Newcomer)' = Holds(Newcomer)
      BY <1>3, <1>5, <1>8, <2>1 DEF GivenBySuper, FollowUps, Holds
    <2>3. GivenBySuper(ch, todo)'
      BY <1>3, <1>4, <1>8, <2>1, <2>2 DEF GivenBySuper
    <2> QED BY <1>1, <1>3, <2>3 DEF GivenTo
  <1>9. do \in {"give", "promote", "join"}
    BY <1>3 DEF GivenBySuper, FollowUps
  <1> QED BY <1>6, <1>7, <1>8, <1>9

LEMMA AdminFollows ==
  ASSUME AccessRight(access), NEW c, c.super = FALSE, c.ch \in Choices, GivenTo(c.ch, FALSE, c.todo),
         NEW do \in c.todo, do # "give" \/ "take" \notin c.todo, NEW by,
         Permitted(by, FollowUp(c, do)), access' = Carried(FollowUp(c, do)), NEW todo, todo = c.todo \ {do}
  PROVE  GivenTo(c.ch, FALSE, todo)'
  <1>1. PICK op, ch : op = FollowUp(c, do) /\ ch = c.ch
    OBVIOUS
  <1>2. /\ op.do = do /\ op.who = Newcomer /\ op.path = ch.path /\ op.perm = ch.perm
        /\ Holds(Newcomer) = AllOfIt => \A g \in access.grants : g.who = Newcomer => g.id = op.id
    BY <1>1, FollowIs DEF AccessRight
  <1>3. Sensible(ch, FALSE) /\ GivenByAdmin(ch, c.todo) /\ ch.perm \in {"read", "write"}
    BY <1>1 DEF GivenTo, Choices
  <1>4. PICK b : b = access' /\ b = Carried(op)
    BY <1>1
  <1>5. Holds(Newcomer)' = HoldsOf(b.grants, Newcomer)
    BY <1>4 DEF Holds
  <1>6. CASE do = "give"
    <2>1. /\ HoldsOf(b.grants, Newcomer) = Holds(Newcomer) \cup ToHold(ch)
          /\ b.members = access.members /\ b.admins = access.admins
      BY <1>1, <1>2, <1>4, <1>6, GiveAdds, AdminAssumption DEF ToHold
    <2>2. Holds(Newcomer) = {}
      BY <1>3, <1>6 DEF GivenByAdmin
    <2>3. todo = {}
      BY <1>3, <1>6 DEF GivenByAdmin, FollowUps
    <2>4. GivenByAdmin(ch, todo)'
      BY <1>3, <1>4, <1>5, <2>1, <2>2, <2>3 DEF GivenByAdmin
    <2> QED BY <1>1, <1>3, <2>4 DEF GivenTo
  <1>7. CASE do = "take"
    <2>1. /\ HoldsOf(b.grants, Newcomer) = {}
          /\ b.members = access.members /\ b.admins = access.admins
      <3>1. Holds(Newcomer) = AllOfIt
        BY <1>3, <1>7 DEF GivenByAdmin
      <3>2. \A g \in access.grants : g.who = Newcomer => g.id = op.id
        BY <1>2, <3>1
      <3>3. op.do = "take" /\ op.perm = ch.perm
        BY <1>2, <1>7
      <3> QED BY <1>4, <3>1, <3>2, <3>3, TakesAll
    <2>2. todo = {"give"} /\ FollowUps(ch, FALSE) = {"take", "give"}
      BY <1>3, <1>7 DEF GivenByAdmin, FollowUps
    <2>3. GivenByAdmin(ch, todo)'
      BY <1>3, <1>4, <1>5, <2>1, <2>2 DEF GivenByAdmin
    <2> QED BY <1>1, <1>3, <2>3 DEF GivenTo
  <1>8. CASE do = "set"
    <2>1. /\ HoldsOf(b.grants, Newcomer) = {[path |-> "/", perm |-> ch.perm]}
          /\ b.members = access.members /\ b.admins = access.admins
      <3>1. Holds(Newcomer) = AllOfIt
        BY <1>3, <1>8 DEF GivenByAdmin
      <3>2. \A g \in access.grants : g.who = Newcomer => g.id = op.id
        BY <1>2, <3>1
      <3>3. op.do = "set" /\ op.perm = ch.perm
        BY <1>2, <1>8
      <3>4. HoldsOf(b.grants, Newcomer) = {[path |-> "/", perm |-> op.perm]}
            /\ b.members = access.members /\ b.admins = access.admins
        BY <1>3, <1>4, <3>1, <3>2, <3>3, SetsAll
      <3> QED BY <3>3, <3>4
    <2>2. todo = {} /\ ch.path = "/"
      BY <1>3, <1>8 DEF GivenByAdmin, FollowUps
    <2>3. GivenByAdmin(ch, todo)'
      BY <1>3, <1>4, <1>5, <2>1, <2>2 DEF GivenByAdmin, ToHold
    <2> QED BY <1>1, <1>3, <2>3 DEF GivenTo
  <1>9. do \in {"give", "take", "set"}
    BY <1>3 DEF GivenByAdmin, FollowUps
  <1> QED BY <1>6, <1>7, <1>8, <1>9

\* The form waits.
LEMMA InviteWaits ==
  ASSUME AdminInv, NEW p \in Person, StepOf(p), AccessRight(access'), badge' = badge,
         NEW super \in BOOLEAN, NEW d, NEW l, NEW a, NEW i, panel[p] = PanelOf("people", super, d, l, a, i),
         panel'[p] = PanelOf("people", super, d, l, a, None),
         DOMAIN panel' = Person, \A q \in Person \ {p} : panel'[q] = panel[q],
         \A f : f.by # p => (f \in pending' <=> f \in pending),
         NEW ch \in Choices, NEW at, IsCount(at)',
         NEW todo, NEW failed \in BOOLEAN, Sensible(ch, super), todo \subseteq FollowUps(ch, super),
         ~failed /\ OthersQuiet(p, at)' => GivenTo(ch, super, todo)',
         NEW e, e = InviteOf(p, ch, super, at, todo, failed), CallsOf(p)' = {e}
  PROVE  AdminInv'
  <1>1. PersonRight(p)
    BY DEF AdminInv
  <1>2. PICK t, s : t = "people" /\ s = super
    OBVIOUS
  <1>3. PICK z : z = panel[p]
    OBVIOUS
  <1>4. z.tab = t /\ z.super = s /\ z.dir = d /\ z.list = l /\ z.at = a /\ z.invited = i
    BY <1>2, <1>3, PanelFields
  <1>5. PICK x : x = panel'[p]
    OBVIOUS
  <1>6. x = PanelOf(t, s, d, l, a, None)
    BY <1>2, <1>5
  <1>7. IsPanel(x) /\ x.tab = t /\ x.super = s /\ x.dir = d /\ x.list = l /\ x.at = a /\ x.invited = None
    BY <1>2, <1>6, PanelFields
  <1>8. e.kind = "invite" /\ e.ch = ch /\ e.super = super /\ e.at = at /\ e.todo = todo /\ e.failed = failed
    BY DEF InviteOf
  <1>9. IsInvite(e)' /\ Sensible(ch, super)' /\ FollowUps(ch, super)' = FollowUps(ch, super)
    BY DEF InviteOf, IsInvite, Sensible, FollowUps
  <1>10. InviteRight(p, e)'
    BY <1>2, <1>5, <1>7, <1>8, <1>9 DEF InviteRight
  <1>11. DirTrue(p)'
    <2>1. d # None => LoadsFor(p, s) /\ IsCount(a)
      BY <1>1, <1>3, <1>4 DEF PersonRight, DirTrue
    <2>2. d # None => LoadsFor(p, s)' /\ IsCount(a)'
      BY <2>1, LoadsSame, CountStays DEF AdminInv
    <2> QED BY <1>5, <1>7, <2>2 DEF DirTrue
  <1>12. CopyRight(p)' /\ InvitedRight(p)'
    <2>1. l = None
      BY <1>1, <1>2, <1>3, <1>4 DEF PersonRight, CopyRight
    <2> QED BY <1>5, <1>7, <2>1 DEF CopyRight, InvitedRight
  <1>13. PersonRight(p)'
    BY <1>5, <1>7, <1>8, <1>10, <1>11, <1>12 DEF PersonRight, CalledRight
  <1>14. OnlyOf(p)
    BY DEF OnlyOf, AdminInv
  <1> QED BY <1>13, <1>14, PersonStep

LEMMA InviteSubmitStays ==
  ASSUME AdminInv, NEW p \in Person, InviteSubmit(p)
  PROVE  AdminInv'
  <1>1. PICK s, ok : s = panel[p].super /\ ok = (Administers(p) /\ ~There(Newcomer))
    OBVIOUS
  <1>2. PICK ch \in Choices :
           /\ Sensible(ch, s)
           /\ access' = IF ok THEN Invited(ch, s) ELSE access
           /\ wrote' = IF ok THEN [wrote EXCEPT ![p] = @ + 1] ELSE wrote
           /\ pending' = pending \cup {[kind |-> "invite", by |-> p, ch |-> ch, super |-> s, at |-> wrote,
                                    todo |-> IF ok THEN FollowUps(ch, s) ELSE {}, failed |-> ~ok]}
    BY <1>1 DEF InviteSubmit
  <1>3. /\ CallsOf(p) = {} /\ PersonRight(p) /\ badge' = badge /\ panel[p].tab = "people"
        /\ panel' = [panel EXCEPT ![p].invited = None]
    BY DEF InviteSubmit, Quiet, CallsOf, AdminInv
  <1>4. s \in BOOLEAN
    BY <1>1, <1>3, PanelPick
  <1>5. PICK todo, failed : todo = (IF ok THEN FollowUps(ch, s) ELSE {}) /\ failed = ~ok
    OBVIOUS
  <1>6. PICK e : e = InviteOf(p, ch, s, wrote, todo, failed)
    OBVIOUS
  <1>7. pending' = pending \cup {e} /\ e.by = p
    BY <1>2, <1>5, <1>6 DEF InviteOf
  <1>8. CallsOf(p)' = {e} /\ \A f : f.by # p => (f \in pending' <=> f \in pending)
    BY <1>3, <1>7 DEF CallsOf
  <1>9. PICK d, l, a, i :
           /\ panel[p] = PanelOf("people", s, d, l, a, i) /\ panel'[p] = PanelOf("people", s, d, l, a, None)
           /\ DOMAIN panel' = Person /\ \A q \in Person \ {p} : panel'[q] = panel[q]
    <2>1. PICK t, d, l, a, i : \E z \in BOOLEAN :
             panel[p] = PanelOf(t, z, d, l, a, i) /\ panel[p].tab = t /\ panel[p].super = z
      BY <1>3, PanelPick
    <2>2. PICK x : x = panel[p]
      OBVIOUS
    <2>3. x = PanelOf("people", s, d, l, a, i)
      BY <1>1, <1>3, <2>1, <2>2
    <2>4. [x EXCEPT !.invited = None] = PanelOf("people", s, d, l, a, None)
      BY <2>3 DEF PanelOf
    <2>5. panel'[p] = [x EXCEPT !.invited = None] /\ DOMAIN panel' = Person /\ \A q \in Person \ {p} : panel'[q] = panel[q]
      BY <1>3, <2>2 DEF AdminInv
    <2> QED BY <2>2, <2>3, <2>4, <2>5
  <1>10. failed \in BOOLEAN /\ todo \subseteq FollowUps(ch, s)
    BY <1>1, <1>5
  <1>11. StepOf(p)
    BY <1>2 DEF StepOf, AdminInv
  <1>12. ok => /\ AccessRight(Invited(ch, s)) /\ Newcomer \notin Invited(ch, s).members
               /\ HoldsOf(Invited(ch, s).grants, Newcomer) = IF s THEN {} ELSE AllOfIt
               /\ Newcomer \in Invited(ch, s).admins <=> ~s /\ ch.admin
    BY <1>1, InvitedIs DEF There, AdminInv
  <1>13. AccessRight(access')
    BY <1>2, <1>12 DEF AdminInv
  <1>14. PICK at : at = wrote
    OBVIOUS
  <1>15. IsCount(at)'
    BY <1>11, <1>14, NowCounts, CountStays DEF AdminInv
  <1>16. ~failed => GivenTo(ch, s, todo)'
    <2> SUFFICES ASSUME ok PROVE GivenTo(ch, s, todo)'
      BY <1>5
    <2>1. access' = Invited(ch, s) /\ todo = FollowUps(ch, s)
      BY <1>2, <1>5
    <2>2. Holds(Newcomer)' = IF s THEN {} ELSE AllOfIt
      BY <1>12, <2>1 DEF Holds
    <2>3. CASE s
      <3>1. GivenBySuper(ch, todo)'
        BY <1>12, <2>1, <2>2, <2>3 DEF GivenBySuper, FollowUps
      <3> QED BY <1>2, <2>3, <3>1 DEF GivenTo
    <2>4. CASE ~s
      <3>1. todo = {} => ToHold(ch) = AllOfIt
        BY <2>1, <2>4 DEF FollowUps, Choices, ToHold, AllOfIt
      <3>2. GivenByAdmin(ch, todo)'
        BY <1>12, <2>1, <2>2, <2>4, <3>1 DEF GivenByAdmin, FollowUps
      <3> QED BY <1>2, <2>4, <3>2 DEF GivenTo
    <2> QED BY <2>3, <2>4
  <1>17. Sensible(ch, s)
    BY <1>2
  <1>18. e = InviteOf(p, ch, s, at, todo, failed)
    BY <1>6, <1>14
  <1> QED BY <1>3, <1>4, <1>8, <1>9, <1>10, <1>11, <1>13, <1>15, <1>16, <1>17, <1>18, InviteWaits

LEMMA InviteStepStays ==
  ASSUME AdminInv, NEW c \in pending, InviteStep(c)
  PROVE  AdminInv'
  <1>1. PICK p : p = c.by
    OBVIOUS
  <1>2. p \in Person /\ CallsOf(p) = {c} /\ PersonRight(p) /\ InviteRight(p, c)
    BY <1>1, OnlyCall DEF InviteStep, CalledRight
  <1>3. PICK do \in c.todo, lost \in BOOLEAN :
           LET op == FollowUp(c, do)
               ok == ~lost /\ Permitted(c.by, op)
               left == [c EXCEPT !.todo = IF ok \/ c.super THEN @ \ {do} ELSE {}, !.failed = @ \/ ~ok]
           IN  /\ ~c.super => do # "give" \/ "take" \notin c.todo
               /\ IF lost THEN plan.fails > 0 /\ plan' = [plan EXCEPT !.fails = @ - 1] /\ UNCHANGED <<access, wrote>>
                  ELSE UNCHANGED plan /\ Serve(c.by, op)
               /\ pending' = (pending \ {c}) \cup {left}
    BY DEF InviteStep
  <1>4. PICK ok, op : op = FollowUp(c, do) /\ ok = (~lost /\ Permitted(p, op))
    OBVIOUS
  <1>5. PICK todo, failed : todo = (IF ok \/ c.super THEN c.todo \ {do} ELSE {}) /\ failed = (c.failed \/ ~ok)
    OBVIOUS
  <1>6. PICK ch, s, at : ch = c.ch /\ s = c.super /\ at = c.at
    OBVIOUS
  <1>7. c = InviteOf(p, ch, s, at, c.todo, c.failed) /\ s \in BOOLEAN /\ c.failed \in BOOLEAN
    BY <1>1, <1>2, <1>6, InviteFlat DEF InviteRight
  <1>8. PICK e : e = InviteOf(p, ch, s, at, todo, failed)
    OBVIOUS
  <1>9. [c EXCEPT !.todo = todo, !.failed = failed] = e
    <2>1. PICK todo0, failed0 : todo0 = c.todo /\ failed0 = c.failed
      OBVIOUS
    <2>2. c = InviteOf(p, ch, s, at, todo0, failed0)
      BY <1>7, <2>1
    <2>3. PICK x : x = [c EXCEPT !.todo = todo]
      OBVIOUS
    <2>4. x = InviteOf(p, ch, s, at, todo, failed0)
      BY <2>2, <2>3 DEF InviteOf
    <2>5. [x EXCEPT !.failed = failed] = e
      BY <1>8, <2>4 DEF InviteOf
    <2>6. [c EXCEPT !.todo = todo, !.failed = failed] = [x EXCEPT !.failed = failed]
      BY <2>3
    <2> QED BY <2>5, <2>6
  <1>10. pending' = (pending \ {c}) \cup {e}
    BY <1>1, <1>3, <1>4, <1>5, <1>9
  <1>11. e.by = p
    BY <1>8 DEF InviteOf
  <1>12. CallsOf(p)' = {e} /\ \A f : f.by # p => (f \in pending' <=> f \in pending)
    BY <1>1, <1>2, <1>10, <1>11 DEF CallsOf
  <1>13. panel' = panel /\ badge' = badge
    BY DEF InviteStep
  <1>14. PICK d, l, a, i :
           /\ panel[p] = PanelOf("people", s, d, l, a, i) /\ panel'[p] = PanelOf("people", s, d, l, a, None)
           /\ DOMAIN panel' = Person /\ \A q \in Person \ {p} : panel'[q] = panel[q]
    <2>1. PICK t, d, l, a, i : \E z \in BOOLEAN :
             /\ panel[p] = PanelOf(t, z, d, l, a, i) /\ panel[p].tab = t /\ panel[p].super = z /\ panel[p].invited = i
      BY <1>2, PanelPick
    <2>2. t = "people" /\ i = None /\ s = panel[p].super
      BY <1>2, <1>6, <2>1 DEF InviteRight
    <2> QED BY <1>13, <2>1, <2>2 DEF AdminInv
  <1>15. panel[p].tab = "people" /\ s = panel[p].super /\ ch \in Choices /\ Sensible(ch, s)
         /\ c.todo \subseteq FollowUps(ch, s) /\ IsCount(at)
         /\ (~c.failed /\ OthersQuiet(p, at) => GivenTo(ch, s, c.todo))
    BY <1>2, <1>6 DEF InviteRight
  <1>16. failed \in BOOLEAN /\ todo \subseteq FollowUps(ch, s)
    BY <1>5, <1>15
  <1>17. OpRight(op)
    <2>1. op.do = do /\ op.who = Newcomer /\ op.path = ch.path /\ op.perm = ch.perm
      BY <1>4, <1>6, FollowIs
    <2>2. do \in {"give", "promote", "join", "take", "set"}
      BY <1>15 DEF FollowUps
    <2>3. ch.path \in Subpath /\ ch.perm \in {"read", "write"}
      BY <1>15 DEF Choices
    <2> QED BY <2>1, <2>2, <2>3, AdminAssumption DEF OpRight
  <1>18. /\ StepOf(p) /\ AccessRight(access')
         /\ ok => access' = Carried(op) /\ Permitted(p, op)
    <2>1. CASE lost
      <3>1. access' = access /\ wrote' = wrote
        BY <1>3, <2>1
      <3>2. AccessRight(access') /\ StepOf(p)
        BY <1>2, <3>1 DEF StepOf, AdminInv
      <3> QED BY <1>4, <2>1, <3>2
    <2>2. CASE ~lost
      <3>1. Serve(p, op)
        BY <1>1, <1>3, <1>4, <2>2
      <3> QED BY <1>2, <1>4, <1>17, <3>1, ServeStep
    <2> QED BY <2>1, <2>2
  <1>19. IsCount(at)' /\ (OthersQuiet(p, at)' <=> OthersQuiet(p, at))
    BY <1>2, <1>15, <1>18, CountStays DEF AdminInv
  <1>20. ASSUME ~failed, OthersQuiet(p, at)' PROVE GivenTo(ch, s, todo)'
    <2>1. ok /\ ~c.failed /\ todo = c.todo \ {do}
      BY <1>5, <1>20
    <2>2. GivenTo(ch, s, c.todo)
      BY <1>15, <1>19, <1>20, <2>1
    <2>3. AccessRight(access) /\ access' = Carried(FollowUp(c, do)) /\ Permitted(p, FollowUp(c, do))
      BY <1>4, <1>18, <2>1 DEF AdminInv
    <2>4. CASE s
      BY <1>6, <2>1, <2>2, <2>3, <2>4, SuperFollows
    <2>5. CASE ~s
      <3>1. do # "give" \/ "take" \notin c.todo
        BY <1>3, <1>6, <2>5
      <3>2. s = FALSE
        BY <1>7, <2>5
      <3>3. GivenTo(ch, FALSE, todo)'
        BY <1>6, <1>15, <2>1, <2>2, <2>3, <3>1, <3>2, AdminFollows
      <3> QED BY <3>2, <3>3
    <2> QED BY <2>4, <2>5
  <1>21. p \in Person
    BY <1>2
  <1> QED BY <1>7, <1>8, <1>12, <1>13, <1>14, <1>15, <1>16, <1>18, <1>19, <1>20, <1>21, InviteWaits

-----------------------------------------------------------------------------
(* The pages are right.                                                    *)

LEMMA AdminStart == ASSUME Init PROVE AdminInv
  <1>1. PICK r : r = [w \in Person |-> CASE w = Chief -> "superadmin"
                                        [] w = Newcomer -> None [] OTHER -> "collaborator"]
    OBVIOUS
  <1>2. PICK g : g = {Grant(1, Team, "/", "read")} \cup {Grant(2, w, "d", "write") : w \in Person \ {Chief, Newcomer}}
    OBVIOUS
  <1>3. /\ access = [role |-> r, admins |-> {}, grants |-> g, members |-> {}, team |-> TRUE, made |-> 2, there |-> TRUE]
        /\ badge = access.role /\ panel = [w \in Person |-> NoPanel] /\ pending = {} /\ wrote = [w \in Person |-> 0]
    BY <1>1, <1>2 DEF Init, AdminInit
  <1>4. access = AccessOf(r, {}, g, {}, TRUE, 2, TRUE)
    BY <1>3 DEF AccessOf
  <1>5. r \in [Person -> Role \cup {None}] /\ r[Chief] = "superadmin"
        /\ \A w \in Person : r[w] = None => w = Newcomer
    BY <1>1, AdminAssumption DEF Role
  <1>6. IsAccess(access) /\ access.role = r /\ access.admins = {} /\ access.grants = g /\ access.members = {}
    <2>1. PICK n, t, k, a : n = {} /\ t = TRUE /\ k = 2 /\ a = access
      OBVIOUS
    <2>2. a = AccessOf(r, n, g, n, t, k, t) /\ n \in SUBSET Person
      BY <1>4, <2>1
    <2>3. IsAccess(a) /\ a.role = r /\ a.admins = n /\ a.grants = g /\ a.members = n
      BY <1>5, <2>2, AccessFields
    <2> QED BY <2>1, <2>3
  <1>7. \A x \in g : IsGrant(x) /\ ((x.who = Team /\ x = Grant(1, Team, "/", "read"))
                                      \/ (x.who \in Person \ {Chief, Newcomer} /\ x = Grant(2, x.who, "d", "write")))
    <2>1. \A i, w : \A path \in Subpath, perm \in {"read", "write"} :
            IsGrant(Grant(i, w, path, perm)) /\ Grant(i, w, path, perm).who = w
      BY DEF IsGrant, Grant
    <2> QED BY <1>2, <2>1 DEF Subpath
  <1>8. OneGrant(access)
    BY <1>6, <1>7, AdminAssumption DEF OneGrant
  <1>9. AllBare(access)
    BY <1>5, <1>6, <1>7, AdminAssumption DEF AllBare, LeftBare
  <1>10. AccessRight(access)
    BY <1>5, <1>6, <1>7, <1>8, <1>9, AdminAssumption DEF AccessRight, RoleFollows, Managed
  <1>11. ASSUME NEW p \in Person PROVE PersonRight(p)
    <2>1. PICK x : x = panel[p]
      OBVIOUS
    <2>2. x = PanelOf(None, FALSE, None, None, None, None)
      BY <1>3, <2>1 DEF NoPanel, PanelOf
    <2>3. IsPanel(x) /\ x.dir = None /\ x.list = None /\ x.invited = None
      BY <2>2, PanelFields DEF PanelOf, IsPanel
    <2>4. CallsOf(p) = {}
      BY <1>3 DEF CallsOf
    <2> QED BY <2>1, <2>3, <2>4 DEF PersonRight, DirTrue, CopyRight, InvitedRight
  <1> QED BY <1>3, <1>5, <1>6, <1>10, <1>11 DEF AdminInv

LEMMA AdminStutter == ASSUME AdminInv, UNCHANGED adminVars PROVE AdminInv'
  <1>1. access' = access /\ badge' = badge /\ panel' = panel /\ pending' = pending /\ wrote' = wrote
    BY DEF adminVars
  <1>2. Reading
    BY <1>1 DEF Reading
  <1>3. \A p \in Person : StepOf(p) /\ OnlyOf(p)
    BY <1>1 DEF StepOf, OnlyOf, AdminInv
  <1>4. ASSUME NEW q \in Person PROVE PersonRight(q)'
    <2>1. PICK p \in Person : q \in Person \ {p}
      BY AdminAssumption
    <2> QED BY <1>3, <2>1, Bystander
  <1>5. Chief \in Person
    BY AdminAssumption
  <1> QED BY <1>2, <1>3, <1>4, <1>5, ReadingStep, PersonStep

LEMMA AdminStep == ASSUME AdminInv, ~Hurried, [Next]_vars PROVE AdminInv'
  <1>1. CASE UNCHANGED adminVars
    BY <1>1, AdminStutter
  <1>2. ASSUME NEW p \in Person,
               Clicks(p) \/ InviteSubmit(p) \/ SignsInAgain(p)
                 \/ \E t \in {"people", "groups", "share"} : OpensPanel(p, t) \/ SwitchTab(p, t)
        PROVE  AdminInv'
    BY <1>2, ClicksStays, InviteSubmitStays, SignsInStays, OpensStays, SwitchStays
  <1>3. ASSUME NEW c \in pending,
               SecondRead(c) \/ ListShown(c) \/ ClickDone(c) \/ InviteStep(c) \/ InviteDone(c)
        PROVE  AdminInv'
    BY <1>3, SecondReadStays, ListShownStays, ClickDoneStays, InviteStepStays, InviteDoneStays
  <1> QED BY <1>1, <1>2, <1>3, AdminSteps DEF AdminNext

LEMMA HasReason ==
  ASSUME NEW d, NEW w, NEW q, NEW r
  PROVE  r \in Reasons(d, w, q) <=>
           \/ \E g \in d.grants : g.path = q /\ (g.who = w \/ (g.who = Team /\ w \in d.members)) /\ g.perm = r
           \/ q = "/" /\ w \in d.admins /\ r = "write"
  BY DEF Reasons, ByAdmin

LEMMA ReachMeans == ASSUME AdminInv PROVE ReachShown
  <1> SUFFICES ASSUME NEW p \in Person, panel[p].dir # None, panel[p].tab = "people", UpToDate(p),
                      NEW w \in Person, NEW path \in Subpath, NEW perm \in {"read", "write"},
                      There(w), w \notin Supers, badge[w] = access.role[w]
               PROVE  /\ ShownReach(panel[p].dir, w, path, perm) => Enforced(w, path, perm)
                      /\ panel[p].super /\ Enforced(w, path, perm) => ShownReach(panel[p].dir, w, path, perm)
    BY DEF ReachShown
  <1>1. PICK d, s : d = panel[p].dir /\ s = panel[p].super
    OBVIOUS
  <1>2. PersonRight(p) /\ AccessRight(access)
    BY DEF AdminInv
  <1>3. CallsOf(p) = {}
    BY DEF UpToDate, Quiet, CallsOf
  <1>4. d = DirNow(p, s) /\ LoadsFor(p, s)
    BY <1>1, <1>2, <1>3 DEF PersonRight, DirTrue, UpToDate
  <1>5. d.grants \subseteq access.grants /\ d.members \subseteq access.members /\ d.admins \subseteq access.admins
    BY <1>4 DEF DirNow, PeopleGrants
  <1>6. s => d.grants = access.grants /\ d.members = access.members /\ d.admins = access.admins
    BY <1>4 DEF DirNow, PeopleGrants, LoadsFor, Administers
  <1>7. w \in access.admins => badge[w] = "admin"
    BY <1>2 DEF AccessRight, RoleFollows, Supers
  <1>8. ASSUME ShownReach(d, w, path, perm) PROVE Enforced(w, path, perm)
    <2>1. PICK q \in {"/", path} : Reasons(d, w, q) # {} /\ (perm = "read" \/ Stronger(Reasons(d, w, q)) = "write")
      BY <1>8 DEF ShownReach
    <2>2. PICK r : r \in Reasons(d, w, q) /\ (perm = "read" \/ r = "write")
      BY <2>1 DEF Stronger
    <2>3. CASE q = "/" /\ w \in d.admins /\ r = "write"
      BY <1>5, <1>7, <2>3 DEF Enforced
    <2>4. CASE \E g \in d.grants : g.path = q /\ (g.who = w \/ (g.who = Team /\ w \in d.members)) /\ g.perm = r
      BY <1>5, <2>1, <2>2, <2>4 DEF Enforced, Allows
    <2> QED BY <2>2, <2>3, <2>4, HasReason
  <1>9. ASSUME s, Enforced(w, path, perm) PROVE ShownReach(d, w, path, perm)
    <2>1. CASE w \in access.admins
      <3>1. "write" \in Reasons(d, w, "/")
        BY <1>6, <1>9, <2>1, HasReason
      <3> QED BY <3>1 DEF ShownReach, Stronger
    <2>2. CASE w \notin access.admins
      <3>1. PICK g \in access.grants : (g.who = w \/ (g.who = Team /\ w \in access.members)) /\ Allows(g, path, perm)
        BY <1>9, <2>2 DEF Enforced
      <3>2. PICK q, r : q = g.path /\ r = g.perm
        OBVIOUS
      <3>3. q \in {"/", path} /\ (perm = "read" \/ r = "write")
        BY <3>1, <3>2 DEF Allows
      <3>4. r \in Reasons(d, w, q)
        BY <1>6, <1>9, <3>1, <3>2, HasReason
      <3> QED BY <3>3, <3>4 DEF ShownReach, Stronger
    <2> QED BY <2>1, <2>2
  <1> QED BY <1>1, <1>8, <1>9

LEMMA AdminMean == ASSUME AdminInv PROVE AdminRight
  <1>1. SomebodyManages
    BY DEF AdminInv, AccessRight, Managed, SomebodyManages, Supers
  <1>2. CopiesTrue
    <2> SUFFICES ASSUME NEW p \in Person, panel[p].list # None, UpToDate(p)
                 PROVE  panel[p].list = OwnCopy(panel[p].tab)
      BY DEF CopiesTrue
    <2>1. CallsOf(p) = {}
      BY DEF UpToDate, Quiet, CallsOf
    <2> QED BY <2>1 DEF AdminInv, PersonRight, CopyRight, UpToDate
  <1>3. InvitedAsChosen
    <2> SUFFICES ASSUME NEW p \in Person, panel[p].invited # None, ~panel[p].invited.failed,
                        OthersQuiet(p, panel[p].invited.at)
                 PROVE  LET ch == panel[p].invited.ch
                            all == {[path |-> "/", perm |-> "write"]}
                            chosen == IF ch.ns THEN {[path |-> ch.path, perm |-> ch.perm]} ELSE {}
                            has == {[path |-> g.path, perm |-> g.perm] : g \in {h \in access.grants : h.who = Newcomer}}
                        IN  /\ chosen \subseteq has /\ has \subseteq chosen \cup (IF ch.admin THEN all ELSE {})
                            /\ (Newcomer \in access.members) = ch.team
                            /\ (Newcomer \in access.admins) = ch.admin
      BY DEF InvitedAsChosen
    <2>1. AsChosen(panel[p].invited.ch) /\ panel[p].invited.ch \in Choices
      BY DEF AdminInv, PersonRight, InvitedRight
    <2>2. panel[p].invited.ch.team \in BOOLEAN /\ panel[p].invited.ch.admin \in BOOLEAN
      BY <2>1 DEF Choices
    <2> QED BY <2>1, <2>2 DEF AsChosen, Holds, HoldsOf, ToHold, AllOfIt
  <1> QED BY <1>1, <1>2, <1>3, ReachMeans DEF AdminRight

\* AdminRight for any people, namespaces' arrangements and numbers of changes (AdminPeople.jsx,
\* AdminPanel.jsx, ShareDialog.jsx, admin.go, groups.go), as long as a page waits for its own
\* answers and a role is given back knowing whom the namespace has for admins: somebody always
\* manages, a page shows who can reach what as the server would have it, and who was added
\* has what was chosen for them.
THEOREM AdminHolds == ASSUME ~Hurried PROVE Spec => []AdminRight
  <1>1. Init => AdminInv
    BY AdminStart
  <1>2. AdminInv /\ [Next]_vars => AdminInv'
    BY AdminStep
  <1>3. AdminInv => AdminRight
    BY AdminMean
  <1> QED BY <1>1, <1>2, <1>3, PTL DEF Spec

\* AccountRight for any people, browsers and plans, as long as nobody hurries: signing in, the
\* pages a namespace is arranged on and what the tabs say of the server are right together.
THEOREM AccountsHold == ASSUME ~Hurried PROVE Spec => []AccountRight
  <1>1. Spec => []SignedInRight
    BY SignInHolds
  <1>2. Spec => []AdminRight
    BY AdminHolds
  <1>3. Spec => []ServerRight
    BY ServerHolds
  <1>4. SignedInRight /\ AdminRight /\ ServerRight => AccountRight
    BY DEF AccountRight
  <1> QED BY <1>1, <1>2, <1>3, <1>4, PTL
=============================================================================
