------------------------------- MODULE YjsRoom -------------------------------
(***************************************************************************)
(* One shared-editing room of the server (backend/collab/yjs.go): what     *)
(* each handler turns a room into, and what it says to the connections.    *)
(* The server never reads a Yjs update, so an update is an opaque set of   *)
(* items and applying it is set union.  Clocks are left out: where the     *)
(* code compares times, the operator takes the outcome as a parameter or   *)
(* offers every candidate the comparison could pick.                       *)
(***************************************************************************)
EXTENDS Integers, Sequences, FiniteSetsExt

CONSTANTS
  Conn,       \* websocket connections
  ReadOnly,   \* the connections of people who may only read
  None,       \* no connection; no room
  MaxConns,   \* YjsMaxRoomConns
  CompactMin, \* yjsCompactMin
  Growth      \* the 4 of r.bytes > 4*r.compacted

ASSUME RoomAssumption ==
  /\ None \notin Conn
  /\ ReadOnly \subseteq Conn
  /\ MaxConns \in Nat \ {0}
  /\ CompactMin \in Nat
  /\ Growth \in Nat

Writable == Conn \ ReadOnly

NewRoom ==
  [members |-> {}, own |-> [c \in Conn |-> 0], log |-> {}, bytes |-> 0,
   seq |-> 0, seeded |-> FALSE, seeder |-> None, saver |-> None,
   compacted |-> 0, snapSeq |-> 0, asked |-> FALSE, grace |-> FALSE,
   watch |-> FALSE, stuck |-> {}]

\* r.log as the set of its entries: e.seq orders them.
Bytes(entries) == MapThenSumSet(LAMBDA e : e.size, entries)
Items(entries) == UNION {e.body : e \in entries}
HasUnsaved(r)  == \E e \in r.log : ~e.saved

-----------------------------------------------------------------------------
(* What a handler sends: for every connection, the messages in order.      *)

Role(b) == [type |-> "role", saver |-> b]
Silence == [c \in Conn |-> <<>>]
To(c, msgs) == [x \in Conn |-> IF x = c THEN msgs ELSE <<>>]
Then(m1, m2) == [c \in Conn |-> m1[c] \o m2[c]]

-----------------------------------------------------------------------------
(* The saver.                                                              *)

\* Mutant: a reader may get the role.
CandidatesAnyone(r, skip) == {c \in r.members : c # skip /\ c \notin r.stuck}

\* latestWritableExcept: any writer who did not lose the role for not saving.
Candidates(r, skip) == {c \in r.members \cap Writable : c # skip /\ c \notin r.stuck}

WithSaver(r, c) == [r EXCEPT !.saver = c, !.asked = @ /\ c = r.saver]

RoleMail(r, c) ==
  IF c = r.saver THEN Silence
  ELSE [x \in Conn |-> IF x = r.saver /\ x \in r.members THEN <<Role(FALSE)>>
                       ELSE IF x = c THEN <<Role(TRUE)>> ELSE <<>>]

\* pickSaver: who saves after `typist` typed. quiet: the saver's last update is
\* older than yjsSaverIdle, which one that never sent any always is.
SaverAfter(r, typist, quiet) ==
  IF r.saver # None /\ r.saver \in r.members /\ r.own[r.saver] > 0 /\ ~quiet
  THEN r.saver ELSE typist

-----------------------------------------------------------------------------
(* yjs-hello                                                               *)

Full(r) == Cardinality(r.members) >= MaxConns

Joined(r, c) ==
  LET seed  == ~r.seeded /\ r.seeder = None /\ c \in Writable
      saver == r.saver = None /\ c \in Writable
  IN  [r EXCEPT !.members = @ \cup {c}, !.grace = FALSE,
                !.seeder = IF seed THEN c ELSE @,
                !.saver = IF saver THEN c ELSE @]

\* Mutant: sends a newcomer the updates since the last save only.
JoinMailUnsaved(r, c) ==
  To(c, <<[type |-> "joined", seq |-> r.seq, body |-> Items({e \in r.log : ~e.saved}),
           seed |-> ~r.seeded /\ r.seeder = None /\ c \in Writable,
           saver |-> r.saver = None /\ c \in Writable]>>)

\* The whole log, the seed request, the role and yjs-ready: sent in one go.
JoinMail(r, c) ==
  To(c, <<[type |-> "joined", seq |-> r.seq, body |-> Items(r.log),
           seed |-> ~r.seeded /\ r.seeder = None /\ c \in Writable,
           saver |-> r.saver = None /\ c \in Writable]>>)

-----------------------------------------------------------------------------
(* A frame: an update, or the saver's snapshot.                            *)

\* Mutant: the one asked to seed stays asked.
AppendedKeepsSeeder(r, c, uid, body, size) ==
  [r EXCEPT !.seq = @ + 1, !.own[c] = @ + 1, !.bytes = @ + size,
            !.log = @ \cup {[seq |-> r.seq + 1, size |-> size, from |-> c, uid |-> uid,
                             own |-> r.own[c] + 1, saved |-> FALSE, body |-> body]},
            !.seeded = TRUE, !.stuck = @ \ {c}, !.watch = TRUE]

Appended(r, c, uid, body, size) ==
  [r EXCEPT !.seq = @ + 1, !.own[c] = @ + 1, !.bytes = @ + size,
            !.log = @ \cup {[seq |-> r.seq + 1, size |-> size, from |-> c, uid |-> uid,
                             own |-> r.own[c] + 1, saved |-> FALSE, body |-> body]},
            !.seeded = TRUE, !.seeder = None, !.stuck = @ \ {c}, !.watch = TRUE]

AsksCompaction(r) ==
  ~r.asked /\ r.saver # None /\ r.bytes > CompactMin /\ r.bytes > Growth * r.compacted

AfterUpdate(r, c, uid, body, size, quiet) ==
  LET a == Appended(r, c, uid, body, size)
      p == WithSaver(a, SaverAfter(a, c, quiet))
  IN  [p EXCEPT !.asked = @ \/ AsksCompaction(p)]

UpdateMail(r, c, uid, body, size, quiet) ==
  LET a == Appended(r, c, uid, body, size)
      n == SaverAfter(a, c, quiet)
      p == WithSaver(a, n)
      relay == [x \in Conn |-> IF x \in r.members \ {c}
                               THEN <<[type |-> "update", seq |-> a.seq, body |-> body]>>
                               ELSE <<>>]
  IN  Then(Then(relay, RoleMail(a, n)),
           IF AsksCompaction(p) THEN To(n, <<[type |-> "compact"]>>) ELSE Silence)

Covered(r, ack) == {e \in r.log : e.seq <= ack}

AcceptsSnapshot(r, ack, size) == size <= r.bytes /\ ack <= r.seq /\ ack >= r.snapSeq

\* Mutant: the snapshot replaces the whole log, later updates too.
CompactedDropsTail(r, ack, body, size) ==
  LET snap == [seq |-> ack, size |-> size, from |-> None, uid |-> None, own |-> 0,
               saved |-> \A e \in Covered(r, ack) : e.saved, body |-> body]
  IN  [r EXCEPT !.log = {snap}, !.bytes = size, !.compacted = size,
                !.asked = FALSE, !.snapSeq = ack]

\* Mutant: it came from the saver, so it counts as saved.
CompactedSaved(r, ack, body, size) ==
  LET snap == [seq |-> ack, size |-> size, from |-> None, uid |-> None, own |-> 0,
               saved |-> TRUE, body |-> body]
      kept == {snap} \cup (r.log \ Covered(r, ack))
  IN  [r EXCEPT !.log = kept, !.bytes = Bytes(kept), !.compacted = size,
                !.asked = FALSE, !.snapSeq = ack]

\* uid None: roomUID, the budget bucket of a snapshot.
Compacted(r, ack, body, size) ==
  LET snap == [seq |-> ack, size |-> size, from |-> None, uid |-> None, own |-> 0,
               saved |-> \A e \in Covered(r, ack) : e.saved, body |-> body]
      kept == {snap} \cup (r.log \ Covered(r, ack))
  IN  [r EXCEPT !.log = kept, !.bytes = Bytes(kept), !.compacted = size,
                !.asked = FALSE, !.snapSeq = ack]

-----------------------------------------------------------------------------
(* yjs-saved, yjs-leave and the timers.                                    *)

Confirms(e, c, recv, own) == e.seq <= recv \/ (e.from = c /\ e.own <= own)

MarkedSaved(r, c, recv, own) ==
  [r EXCEPT !.stuck = @ \ {c},
            !.log = {[e EXCEPT !.saved = @ \/ Confirms(e, c, recv, own)] : e \in @}]

\* c out of the room, before any role is handed over.
Out(r, c) == [r EXCEPT !.members = @ \ {c}, !.own[c] = 0, !.stuck = @ \ {c},
                       !.seeder = IF @ = c THEN None ELSE @,
                       !.saver = IF @ = c THEN None ELSE @]

\* Who may get the roles c held: None when it held none or nobody can take them.
SeederHeirs(r, c) ==
  LET able == Out(r, c).members \cap Writable
  IN  IF r.seeder = c /\ ~r.seeded /\ able # {} THEN able ELSE {None}
SaverHeirs(r, c) ==
  LET able == Candidates(Out(r, c), None)
  IN  IF r.saver = c /\ able # {} THEN able ELSE {None}

\* Mutant: an empty room is kept only when its saver is the one who left.
AfterLeaveBySaver(r, c, seeder, saver) ==
  LET o == Out(r, c)
      s == [o EXCEPT !.seeder = IF seeder = None THEN @ ELSE seeder]
      w == IF r.saver = c THEN WithSaver(s, saver) ELSE s
  IN  [w EXCEPT !.grace = w.members = {} /\ HasUnsaved(w) /\ r.saver = c]

AfterLeave(r, c, seeder, saver) ==
  LET o == Out(r, c)
      s == [o EXCEPT !.seeder = IF seeder = None THEN @ ELSE seeder]
      w == IF r.saver = c THEN WithSaver(s, saver) ELSE s
  IN  [w EXCEPT !.grace = w.members = {} /\ HasUnsaved(w)]

LeaveMail(r, c, seeder, saver) ==
  Then(IF seeder = None THEN Silence ELSE To(seeder, <<[type |-> "seed"]>>),
       IF saver = None THEN Silence ELSE To(saver, <<Role(TRUE)>>))

\* Mutant: no check that there was a saver.
RelievedUnguarded(r, next) == WithSaver([r EXCEPT !.stuck = @ \cup {r.saver}], next)

\* saverCheck moved the role: the saver had an update unsaved for too long.
Relieved(r, next) ==
  WithSaver([r EXCEPT !.stuck = IF r.saver = None THEN @ ELSE @ \cup {r.saver}], next)

=============================================================================
