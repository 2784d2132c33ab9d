------------------------------ MODULE HaStorage ------------------------------
(***************************************************************************)
(* The git-native HA write path: app replicas (QueuedStorage) publish each *)
(* mutation to the Redis working set and enqueue it on a Redis stream; one *)
(* elected writer (RedisLeader, Writer, RedisStreamQueue) applies the      *)
(* stream to the durable git tree and reflects the outcome back.           *)
(*                                                                         *)
(* Every Redis round trip and every touch of the tree is a step of its     *)
(* own, so replicas, writers, crashes and lost leadership interleave       *)
(* between them.                                                           *)
(***************************************************************************)
EXTENDS NoteTree, Sequences

CONSTANTS
  Session,    \* request goroutines on different app replicas
  Writer,     \* writer processes
  Free,       \* value of the leader key when it does not exist
  Requests,   \* the kinds of request the sessions make
  MarkOf,     \* markers a client may send: subset of BOOLEAN
  Count,      \* XREADGROUP COUNT
  MaxRequests,\* bound on the requests of a behaviour
  Fault,      \* the kinds of fault that may happen
  MaxFaults   \* bound on the faults of a behaviour

FaultKind == {"crash", "expire", "renew", "queue", "apply", "ack", "del",
              "trim", "get", "publish", "enqueue"}

Ask == {"write", "patch", "append", "mkdir", "remove", "removeAll", "rename"}

ASSUME HaAssumption ==
  /\ Free \notin Writer
  /\ Requests \subseteq Ask
  /\ MarkOf \subseteq BOOLEAN
  /\ Count \in Nat \ {0}
  /\ MaxRequests \in Nat
  /\ Fault \subseteq FaultKind
  /\ MaxFaults \in Nat

VARIABLES
  ws,         \* the working set in Redis
  disk,       \* the durable tree
  marked,     \* paths whose marker the git history may remember
  log,        \* every entry ever added to the stream
  present,    \* ids of the entries still in the stream
  cursor,     \* the group's last-delivered id
  pel,        \* ids delivered and not acknowledged
  lock,       \* the leader key
  live,       \* per writer: its leader context is not cancelled
  wpc,        \* per writer: where its goroutine stands
  todo,       \* per writer: paths hydrate has not come to yet
  batch,      \* per writer: ids delivered to it and not dealt with
  claimed,    \* per writer: batch comes from XAUTOCLAIM, not XREADGROUP
  trimId,     \* per writer: trimApplied's local ids
  req,        \* per session: the request in progress
  requests,   \* requests started so far
  faults,     \* faults so far
  hist,       \* history: the text of the tree after 0, 1, 2... accepted ops
  done        \* history: ids applied to the tree at least once

redis   == <<ws, log, present, cursor, pel>>
leading == <<lock, live>>
local   == <<wpc, todo, batch, claimed, trimId>>
app     == <<req, requests>>
tree    == <<disk, marked, done>>
vars    == <<redis, leading, local, app, tree, faults, hist>>

Ids == 1..Len(log)

Lowest(S) == CHOOSE i \in S : \A j \in S : i <= j

\* A fault of kind f happens in this step.
Fails(f) == f \in Fault /\ faults < MaxFaults /\ faults' = faults + 1
NoFault  == UNCHANGED faults

Last(s) == s[Len(s)]

IdleRequest == [pc |-> "idle", asked |-> "mkdir",
                op |-> [kind |-> "mkdir", path |-> Root, to |-> Root, data |-> Folder]]

Init ==
  /\ ws = EmptyTree /\ disk = EmptyTree /\ marked = {}
  /\ log = <<>> /\ present = {} /\ cursor = 0 /\ pel = {}
  /\ lock = Free /\ live = [w \in Writer |-> FALSE]
  /\ wpc = [w \in Writer |-> "campaign"]
  /\ todo = [w \in Writer |-> {}]
  /\ batch = [w \in Writer |-> {}]
  /\ claimed = [w \in Writer |-> FALSE]
  /\ trimId = [w \in Writer |-> 0]
  /\ req = [s \in Session |-> IdleRequest]
  /\ requests = 0 /\ faults = 0
  /\ hist = <<EmptyTree>> /\ done = {}

-----------------------------------------------------------------------------
(* The app replica: read what the request needs, publish, enqueue.         *)

\* The body a request writes: new text, under a marker the client sends, or
\* the cached body with a piece added at its end.
Fresh(m)       == [text |-> {requests + 1}, mark |-> m]
Extended(body) == IF body = None THEN Fresh(FALSE)
                  ELSE [body EXCEPT !.text = @ \cup {requests + 1}]

Start(s, asked, kind, p, to, data) ==
  /\ asked \in Requests
  /\ req[s].pc = "idle" /\ requests < MaxRequests
  /\ requests' = requests + 1
  /\ req' = [req EXCEPT ![s] = [pc |-> "publish", asked |-> asked,
               op |-> [kind |-> kind, path |-> p, to |-> to, data |-> data]]]
  /\ UNCHANGED <<redis, leading, local, tree, hist>>

\* PUT, POST and uploads: a whole new body.
StartWrite(s, n, m) == Start(s, "write", "write", n, n, Fresh(m)) /\ NoFault

\* PATCH and chat posts: ReadFile, then WriteFile of the longer body.
StartPatch(s, n) ==
  ws[n] # None /\ Start(s, "patch", "write", n, n, Extended(ws[n])) /\ NoFault

\* QueuedStorage.Append (comment sidecars) ignores the error of its Get: a
\* failed Get and a missing body both make it start from nothing.
StartAppend(s, n) ==
  \/ Start(s, "append", "write", n, n, Extended(ws[n])) /\ NoFault
  \/ ws[n] # None /\ Start(s, "append", "write", n, n, Extended(None)) /\ Fails("get")

StartMkdir(s) == Start(s, "mkdir", "mkdir", Root, Root, Folder) /\ NoFault

StartRemove(s, n) ==
  ws[n] # None /\ Start(s, "remove", "remove", n, n, Folder) /\ NoFault

StartRemoveAll(s) ==
  ws[Root] # None /\ Start(s, "removeAll", "removeAll", Root, Root, Folder) /\ NoFault

\* A move needs a source and a free destination.
StartRename(s, n, to) ==
  /\ n # to /\ ws[n] # None /\ ws[to] = None
  /\ Start(s, "rename", "rename", n, to, ws[n]) /\ NoFault

\* The working-set update is best effort: its error is dropped.
Publish(s) ==
  /\ req[s].pc = "publish"
  /\ req' = [req EXCEPT ![s].pc = "enqueue"]
  /\ \/ ws' = Published(ws, req[s].op) /\ NoFault
     \/ UNCHANGED ws /\ Fails("publish")
  /\ UNCHANGED <<log, present, cursor, pel, leading, local, tree, requests, hist>>

Accept(op) ==
  /\ log' = Append(log, op)
  /\ present' = present \cup {Len(log) + 1}
  /\ hist' = Append(hist, Effect(Last(hist), WithMark(op, FALSE)))

\* Enqueue: the answer is 200 once the entry is in the stream.
Enqueue(s) ==
  /\ req[s].pc = "enqueue"
  /\ Accept(req[s].op)
  /\ req' = [req EXCEPT ![s] = IdleRequest]
  /\ UNCHANGED <<ws, cursor, pel, leading, local, tree, requests, faults>>

\* Redis refuses the entry, or the replica dies before it gets there.
EnqueueFails(s) ==
  /\ req[s].pc = "enqueue" /\ Fails("enqueue")
  /\ req' = [req EXCEPT ![s] = IdleRequest]
  /\ UNCHANGED <<redis, leading, local, tree, requests, hist>>

-----------------------------------------------------------------------------
(* Leadership.                                                             *)

\* Campaign: SET NX PX succeeds and a new leader context starts.
Campaign(w) ==
  /\ wpc[w] = "campaign" /\ lock = Free
  /\ lock' = w
  /\ live' = [live EXCEPT ![w] = TRUE]
  /\ wpc' = [wpc EXCEPT ![w] = "hydrate"]
  /\ todo' = [todo EXCEPT ![w] = Path]
  /\ UNCHANGED <<redis, batch, claimed, trimId, app, tree, faults, hist>>

\* keep: the lock is another writer's or gone, or the renewal itself fails.
KeepCancels(w) ==
  /\ live[w]
  /\ \/ lock # w /\ NoFault
     \/ lock = w /\ Fails("renew")
  /\ live' = [live EXCEPT ![w] = FALSE]
  /\ UNCHANGED <<redis, lock, local, app, tree, hist>>

\* The key's TTL runs out: nobody renews it, or its renewals come too late.
Expire ==
  /\ lock # Free
  /\ lock' = Free
  /\ \/ ~live[lock] /\ NoFault
     \/ live[lock] /\ Fails("expire")
  /\ UNCHANGED <<redis, live, local, app, tree, hist>>

\* Mutant: the term ends without end(), so its renew loop keeps the lock (the
\* state of things before issue #147 was fixed).
BackWithoutEnd(w) ==
  /\ wpc' = [wpc EXCEPT ![w] = "campaign"]
  /\ todo' = [todo EXCEPT ![w] = {}]
  /\ batch' = [batch EXCEPT ![w] = {}]
  /\ UNCHANGED <<live, claimed, trimId>>

\* The term is over: lead returns, Run waits and campaigns again.
BackToCampaign(w) ==
  /\ wpc' = [wpc EXCEPT ![w] = "campaign"]
  /\ todo' = [todo EXCEPT ![w] = {}]
  /\ batch' = [batch EXCEPT ![w] = {}]
  /\ live' = [live EXCEPT ![w] = FALSE]
  /\ UNCHANGED <<claimed, trimId>>

\* The leader context is cancelled and the goroutine has come to a point where
\* it notices.  Inside a reclaimed batch there is no such point.
EndTerm(w) ==
  /\ ~live[w]
  /\ \/ wpc[w] \in {"hydrate", "claim", "trim", "trimPending", "trimCut", "read"}
     \/ wpc[w] = "next" /\ (~claimed[w] \/ batch[w] = {})
  /\ BackToCampaign(w)
  /\ UNCHANGED <<redis, lock, app, tree, faults, hist>>

\* A Redis error ends the term while the lock is still held: end() cancels the
\* context and keep releases the lock, if Redis lets it.
QueueFails(w) ==
  /\ live[w] /\ wpc[w] \in {"claim", "read"}
  /\ Fails("queue")
  /\ lock' \in {lock, IF lock = w THEN Free ELSE lock}
  /\ BackToCampaign(w)
  /\ UNCHANGED <<redis, app, tree, hist>>

Crash(w) ==
  /\ wpc[w] # "down" /\ Fails("crash")
  /\ wpc' = [wpc EXCEPT ![w] = "down"]
  /\ todo' = [todo EXCEPT ![w] = {}]
  /\ batch' = [batch EXCEPT ![w] = {}]
  /\ live' = [live EXCEPT ![w] = FALSE]
  /\ UNCHANGED <<redis, lock, claimed, trimId, app, tree, hist>>

Restart(w) ==
  /\ wpc[w] = "down"
  /\ wpc' = [wpc EXCEPT ![w] = "campaign"]
  /\ UNCHANGED <<redis, leading, todo, batch, claimed, trimId, app, tree, faults, hist>>

-----------------------------------------------------------------------------
(* The writer's term: hydrate, reclaim, then read, apply and trim.         *)

\* A cancelled context makes every Redis call of the term fail.
Hydrate(w, p) ==
  /\ wpc[w] = "hydrate" /\ live[w] /\ p \in todo[w]
  /\ ws' = Hydrated(ws, disk, p)
  /\ todo' = [todo EXCEPT ![w] = @ \ {p}]
  /\ UNCHANGED <<log, present, cursor, pel, leading, wpc, batch, claimed, trimId,
                 app, tree, faults, hist>>

HydrateDone(w) ==
  /\ wpc[w] = "hydrate" /\ todo[w] = {}
  /\ wpc' = [wpc EXCEPT ![w] = "claim"]
  /\ UNCHANGED <<redis, leading, todo, batch, claimed, trimId, app, tree, faults, hist>>

\* Mutant: nothing is taken over from the previous writer.
ReclaimNothing(w) ==
  /\ wpc[w] = "claim" /\ live[w]
  /\ wpc' = [wpc EXCEPT ![w] = "read"]
  /\ UNCHANGED <<redis, leading, todo, batch, claimed, trimId, app, tree, faults, hist>>

\* reclaimPending: XAUTOCLAIM with MinIdle 0 takes over every pending entry.
Reclaim(w) ==
  /\ wpc[w] = "claim" /\ live[w]
  /\ batch' = [batch EXCEPT ![w] = pel]
  /\ claimed' = [claimed EXCEPT ![w] = TRUE]
  /\ wpc' = [wpc EXCEPT ![w] = "next"]
  /\ UNCHANGED <<redis, leading, todo, trimId, app, tree, faults, hist>>

\* Mutant: the group's position moves past the end of the stream.
ReadPastEnd == cursor + Count

\* The last entry one XREADGROUP delivers.
ReadUpTo == IF cursor + Count < Len(log) THEN cursor + Count ELSE Len(log)

\* A blocked XREADGROUP returns even after the context is cancelled.
Deliver(w) ==
  /\ wpc[w] = "read" /\ cursor < Len(log)
  /\ batch' = [batch EXCEPT ![w] = (cursor + 1)..ReadUpTo]
  /\ claimed' = [claimed EXCEPT ![w] = FALSE]
  /\ cursor' = ReadUpTo
  /\ pel' = pel \cup (cursor + 1)..ReadUpTo
  /\ wpc' = [wpc EXCEPT ![w] = "next"]
  /\ UNCHANGED <<ws, log, present, leading, todo, trimId, app, tree, faults, hist>>

\* The loop over the messages: Consume looks at the context before each one,
\* reclaimPending does not.
Take(w) ==
  /\ wpc[w] = "next" /\ batch[w] # {}
  /\ claimed[w] \/ live[w]
  /\ wpc' = [wpc EXCEPT ![w] = "apply"]
  /\ UNCHANGED <<redis, leading, todo, batch, claimed, trimId, app, tree, faults, hist>>

BatchDone(w) ==
  /\ wpc[w] = "next" /\ batch[w] = {}
  /\ wpc' = [wpc EXCEPT ![w] = "trim"]
  /\ UNCHANGED <<redis, leading, todo, batch, claimed, trimId, app, tree, faults, hist>>

\* Mutant: the newest entry of a batch first.
NewestFirst(w) == CHOOSE i \in batch[w] : \A j \in batch[w] : j <= i

\* The entry of its batch a writer comes to next: the oldest.
Current(w) == Lowest(batch[w])

\* The entry is dealt with; it stays pending unless it was acknowledged.
Leave(w) ==
  /\ batch' = [batch EXCEPT ![w] = @ \ {Current(w)}]
  /\ wpc' = [wpc EXCEPT ![w] = "next"]

\* apply, first half: the tree.
Apply(w) ==
  LET op == log[Current(w)]
  IN  /\ wpc[w] = "apply"
      /\ \E m \in Marks(disk[op.path], op.data, op.path \in marked) :
           disk' = Effect(disk, WithMark(op, m))
      /\ marked' = marked \cup {p \in Note : disk'[p] # None /\ disk'[p].mark}
      /\ done' = done \cup {Current(w)}
      /\ wpc' = [wpc EXCEPT ![w] = "reflect"]
      /\ UNCHANGED <<redis, leading, todo, batch, claimed, trimId, app, faults, hist>>

\* Mutant: an op the tree refused is acknowledged all the same.
ApplyFailsAcked(w) ==
  /\ wpc[w] = "apply" /\ Fails("apply")
  /\ pel' = pel \ {Current(w)}
  /\ Leave(w)
  /\ UNCHANGED <<ws, log, present, cursor, leading, todo, claimed, trimId, app, tree, hist>>

\* The tree refuses the op (disk full, I/O error): left pending.
ApplyFails(w) ==
  /\ wpc[w] = "apply" /\ Fails("apply")
  /\ Leave(w)
  /\ UNCHANGED <<redis, leading, todo, claimed, trimId, app, tree, hist>>

\* apply, second half: the working set, errors dropped.
Reflect(w) ==
  /\ wpc[w] = "reflect"
  /\ ws' = IF live[w] THEN Reflected(ws, disk, log[Current(w)]) ELSE ws
  /\ wpc' = [wpc EXCEPT ![w] = "ack"]
  /\ UNCHANGED <<log, present, cursor, pel, leading, todo, batch, claimed, trimId,
                 app, tree, faults, hist>>

\* XACK, then XDEL whose error is dropped.
Ack(w) ==
  /\ wpc[w] = "ack" /\ live[w]
  /\ pel' = pel \ {Current(w)}
  /\ \/ present' = present \ {Current(w)} /\ NoFault
     \/ UNCHANGED present /\ Fails("del")
  /\ Leave(w)
  /\ UNCHANGED <<ws, log, cursor, leading, todo, claimed, trimId, app, tree, hist>>

\* XACK fails: still pending.
AckFails(w) ==
  /\ wpc[w] = "ack"
  /\ \/ ~live[w] /\ NoFault
     \/ live[w] /\ Fails("ack")
  /\ Leave(w)
  /\ UNCHANGED <<redis, leading, todo, claimed, trimId, app, tree, hist>>

\* trimApplied: the last-delivered id first...
TrimRead(w) ==
  /\ wpc[w] = "trim" /\ live[w]
  /\ trimId' = [trimId EXCEPT ![w] = cursor + 1]
  /\ wpc' = [wpc EXCEPT ![w] = IF cursor = 0 THEN "read" ELSE "trimPending"]
  /\ UNCHANGED <<redis, leading, todo, batch, claimed, app, tree, faults, hist>>

\* Mutant: the trim point does not look at the pending entries.
TrimIgnoresPending(w) ==
  /\ wpc[w] = "trimPending" /\ live[w]
  /\ wpc' = [wpc EXCEPT ![w] = "trimCut"]
  /\ UNCHANGED <<redis, leading, todo, batch, claimed, trimId, app, tree, faults, hist>>

\* ...then the oldest pending entry...
TrimPending(w) ==
  /\ wpc[w] = "trimPending" /\ live[w]
  /\ trimId' = [trimId EXCEPT ![w] = IF pel = {} THEN @ ELSE Lowest(pel)]
  /\ wpc' = [wpc EXCEPT ![w] = "trimCut"]
  /\ UNCHANGED <<redis, leading, todo, batch, claimed, app, tree, faults, hist>>

\* ...then XTRIM MINID.
TrimCut(w) ==
  /\ wpc[w] = "trimCut" /\ live[w]
  /\ present' = {i \in present : i >= trimId[w]}
  /\ wpc' = [wpc EXCEPT ![w] = "read"]
  /\ UNCHANGED <<ws, log, cursor, pel, leading, todo, batch, claimed, trimId,
                 app, tree, faults, hist>>

\* A Redis error skips the trim.
TrimSkip(w) ==
  /\ wpc[w] \in {"trim", "trimPending", "trimCut"} /\ live[w] /\ Fails("trim")
  /\ wpc' = [wpc EXCEPT ![w] = "read"]
  /\ UNCHANGED <<redis, leading, todo, batch, claimed, trimId, app, tree, hist>>

-----------------------------------------------------------------------------
SessionStep(s) ==
  \/ \E n \in Note : \E m \in MarkOf : StartWrite(s, n, m)
  \/ \E n \in Note : StartPatch(s, n) \/ StartAppend(s, n) \/ StartRemove(s, n)
  \/ \E n, to \in Note : StartRename(s, n, to)
  \/ StartMkdir(s) \/ StartRemoveAll(s)
  \/ Publish(s) \/ Enqueue(s) \/ EnqueueFails(s)

\* What a healthy writer does by itself.
WriterStep(w) ==
  \/ Restart(w) \/ Campaign(w) \/ EndTerm(w)
  \/ (\E p \in Path : Hydrate(w, p)) \/ HydrateDone(w)
  \/ Reclaim(w) \/ Deliver(w) \/ Take(w) \/ BatchDone(w)
  \/ Apply(w) \/ Reflect(w) \/ Ack(w) \/ AckFails(w)
  \/ TrimRead(w) \/ TrimPending(w) \/ TrimCut(w)

WriterFault(w) == ApplyFails(w) \/ QueueFails(w) \/ TrimSkip(w) \/ Crash(w)

Next ==
  \/ \E s \in Session : SessionStep(s)
  \/ \E w \in Writer : WriterStep(w) \/ KeepCancels(w) \/ WriterFault(w)
  \/ Expire

Spec == Init /\ [][Next]_vars

\* The writer process keeps running, a dead one is restarted, its renew loop
\* ticks and a key nobody renews expires.
Fairness ==
  /\ \A w \in Writer : WF_vars(WriterStep(w)) /\ WF_vars(lock # w /\ KeepCancels(w))
  /\ WF_vars(lock # Free /\ ~live[lock] /\ Expire)

FairSpec == Spec /\ Fairness

-----------------------------------------------------------------------------
TypeOK ==
  /\ ws \in Tree /\ disk \in Tree /\ marked \subseteq Note
  /\ log \in Seq(Op) /\ present \subseteq Ids /\ cursor \in 0..Len(log) /\ pel \subseteq 1..cursor
  /\ lock \in Writer \cup {Free} /\ live \in [Writer -> BOOLEAN]
  /\ wpc \in [Writer -> {"down", "campaign", "hydrate", "claim", "read", "next",
                         "apply", "reflect", "ack", "trim", "trimPending", "trimCut"}]
  /\ todo \in [Writer -> SUBSET Path]
  /\ batch \in [Writer -> SUBSET (1..cursor)]
  /\ claimed \in [Writer -> BOOLEAN]
  /\ trimId \in [Writer -> Nat]
  /\ req \in [Session -> [pc : {"idle", "publish", "enqueue"}, asked : Ask, op : Op]]
  /\ requests \in 0..MaxRequests /\ faults \in 0..MaxFaults
  /\ hist \in Seq(Tree) /\ Len(hist) = Len(log) + 1
  /\ done \subseteq 1..cursor
\* An op in hand is in the batch: apply, reflect and ack always have one.
InHand == \A w \in Writer : wpc[w] \in {"apply", "reflect", "ack"} => batch[w] # {}

-----------------------------------------------------------------------------
(* Safety.                                                                 *)

Acked == (1..cursor) \ pel

\* Nothing is lost on the way: an entry that left the stream, or that the group
\* will never deliver again, has been applied to the tree.  This is what
\* trimApplied's order of reads protects, whatever writers crash, lose their
\* lock or keep running after losing it (durability.go, issue #147).
NothingDropped == \A i \in Ids : (i \notin present \/ i \in Acked) => i \in done

\* A pending entry can still be redelivered: it is never trimmed away.
PendingKept == pel \subseteq present

\* What the queue promises whoever was told that a write is accepted.
QueueKept == NothingDropped /\ PendingKept

Applied == Cardinality(done)

\* The faults under which the queue keeps its order: no op refused by the
\* tree, no ack lost, no lock lost by a writer that still runs.
Orderly == Fault \cap {"expire", "renew", "apply", "ack"} = {}

\* Ops reach the tree in the order they were accepted, and at any moment, also
\* in the middle of a redelivery, the tree holds exactly what the first few
\* accepted ops lead to.
PrefixApplied ==
  /\ done = 1..Applied
  /\ TextOf(disk) = hist[Applied + 1]

\* The same, as an implementation of the abstract log.
Log == INSTANCE DurableLog WITH
         Trees <- Tree, Initial <- EmptyTree,
         states <- hist, applied <- Applied, durable <- TextOf(disk)

ImplementsLog == Log!Spec

Quiet   == \A s \in Session : req[s].pc = "idle"
Drained == cursor = Len(log) /\ pel = {} /\ \A w \in Writer : wpc[w] \notin {"hydrate", "ack"}

\* An accepted op took the note away once.
Removed(p) == \E i \in Ids : log[i].kind \in {"remove", "removeAll", "rename"} /\ log[i].path \in {p, Root}

\* Once no request is in progress and the writer has caught up, what replicas
\* serve is what is on disk, markers included.  A note that was removed once is
\* excepted: when it is written twice before the writer has come to the removal,
\* CompareAndSet puts the first body where the removal left none, and refuses
\* the second.
DrainedAgree == Quiet /\ Drained => \A p \in Path \ Linked : Removed(p) \/ ws[p] = disk[p]

\* A request that extends a note extends its latest accepted body: its new
\* body is that text and one new piece, nothing missing and nothing from
\* elsewhere.  PATCH, chat posts and comments read the working set, so this is
\* about every writer step that touches the working set.  A note that was
\* removed once is excepted: CompareAndSet takes its missing key for
\* permission and puts the removed body back.
ExtendsLatest ==
  \A s \in Session :
    req[s].pc # "idle" /\ req[s].asked \in {"patch", "append"} /\ ~Removed(req[s].op.path) =>
      LET latest == Last(hist)[req[s].op.path]
          prior  == IF latest = None THEN {} ELSE latest.text
      IN  /\ prior \subseteq req[s].op.data.text
          /\ Cardinality(req[s].op.data.text \ prior) = 1

-----------------------------------------------------------------------------
(* Liveness.                                                               *)

\* Every accepted op reaches the tree.
EventuallyApplied == \A i \in 1..MaxRequests : (i \in Ids) ~> (i \in done)

\* Once the faults are over, some writer holds the lock, knows it, keeps it and
\* is at work in its term: a lost or failed term is always followed by another,
\* and no renew loop outlives its term (Writer.Run, Writer.lead, issue #147).
LeaderReturns ==
  <>[](\E w \in Writer : lock = w /\ live[w] /\ wpc[w] \notin {"campaign", "down"})
=============================================================================
