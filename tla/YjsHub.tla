-------------------------------- MODULE YjsHub --------------------------------
(***************************************************************************)
(* The shared-editing rooms of one server process (backend/collab/yjs.go,  *)
(* with the note deletion and the one-note-per-connection rule of its      *)
(* callers).  The clients are arbitrary, but for one thing: a browser's    *)
(* snapshot holds everything its ack covers (see Honest).                  *)
(* Frames the server drops without an effect are stutters.                 *)
(***************************************************************************)
EXTENDS YjsRoom

CONSTANTS
  Note,      \* notes of the server
  User,      \* accounts
  UserOf,    \* the account of each connection
  Item,      \* what updates hold: each update of a room one of its own
  Sizes,     \* sizes of a frame
  MaxLog,    \* YjsMaxLogBytes
  MaxTotal,  \* YjsMaxTotalBytes
  MaxUser,   \* YjsMaxUserBytes
  MaxSeq     \* per note: bound on the updates of a room

ASSUME HubAssumption ==
  /\ None \notin User /\ None \notin Note
  /\ UserOf \in [Conn -> User]
  /\ Sizes \subseteq Nat \ {0}
  /\ {MaxLog, MaxTotal, MaxUser} \subseteq Nat
  /\ MaxSeq \in [Note -> Nat] /\ \A n \in Note : 1..MaxSeq[n] \subseteq Item

VARIABLES
  rooms,    \* h.rooms: per note, its room, or NewRoom when it has none
  total,    \* h.yjsBytes
  held,     \* h.userBytes; None is roomUID
  fired,    \* per note: its grace timer's callback waits for ymu
  exists,   \* per note: there is a file
  accepted, \* history: per note, the items of every update its room accepted
  told      \* history: per note, whom yjs-compact was last sent to

budget == <<total, held>>
vars   == <<rooms, budget, fired, exists, accepted, told>>

Init ==
  /\ rooms = [n \in Note |-> NewRoom]
  /\ total = 0 /\ held = [u \in User \cup {None} |-> 0]
  /\ fired = [n \in Note |-> FALSE]
  /\ exists = [n \in Note |-> TRUE]
  /\ accepted = [n \in Note |-> {}]
  /\ told = [n \in Note |-> None]

Open(n)      == rooms[n] # NewRoom
InRoom(n, c) == c \in rooms[n].members
Charged(u, entries) == Bytes({e \in entries : e.uid = u})

Becomes(n, r) == rooms' = [rooms EXCEPT ![n] = r]

\* account, for the entries that leave and those that come.
Account(gone, come) ==
  /\ total' = total - Bytes(gone) + Bytes(come)
  /\ held' = [u \in DOMAIN held |-> held[u] - Charged(u, gone) + Charged(u, come)]

\* Mutant: the room's bytes stay charged.
DropKeepsBytes(n) ==
  /\ Becomes(n, NewRoom)
  /\ UNCHANGED budget
  /\ fired' = [fired EXCEPT ![n] = FALSE]
  /\ accepted' = [accepted EXCEPT ![n] = {}]
  /\ told' = [told EXCEPT ![n] = None]

\* dropRoomLocked.  A callback of the old room's timers finds another room.
Drop(n) ==
  /\ Becomes(n, NewRoom)
  /\ Account(rooms[n].log, {})
  /\ fired' = [fired EXCEPT ![n] = FALSE]
  /\ accepted' = [accepted EXCEPT ![n] = {}]
  /\ told' = [told EXCEPT ![n] = None]

\* yjs-hello, from a connection joined to n and so in no other note's room.
Hello(n, c) ==
  /\ \A m \in Note : ~InRoom(m, c)
  /\ Open(n) \/ exists[n]
  /\ ~Full(rooms[n])
  /\ Becomes(n, Joined(rooms[n], c))
  /\ UNCHANGED <<budget, fired, exists, accepted, told>>

Update(n, c, body, size, quiet) ==
  /\ InRoom(n, c) /\ c \in Writable
  /\ rooms[n].bytes + size <= MaxLog
  /\ total + size <= MaxTotal /\ held[UserOf[c]] + size <= MaxUser
  /\ rooms[n].seq < MaxSeq[n]
  /\ LET next == AfterUpdate(rooms[n], c, UserOf[c], body, size, quiet)
     IN  /\ Becomes(n, next)
         /\ Account(rooms[n].log, next.log)
         /\ told' = [told EXCEPT ![n] = IF next.asked /\ ~(rooms[n].asked /\ next.saver = rooms[n].saver)
                                        THEN next.saver ELSE @]
  /\ accepted' = [accepted EXCEPT ![n] = @ \cup body]
  /\ UNCHANGED <<fired, exists>>

\* Mutant: a snapshot replaces what was within the caps, so nobody checks it.
FitsUnchecked(r, next, ack, size) == TRUE

\* A snapshot is held to the room and server caps, like the updates it replaces.
Fits(r, next, ack, size) ==
  next.bytes <= MaxLog /\ total - Bytes(Covered(r, ack)) + size <= MaxTotal

Snapshot(n, c, ack, body, size) ==
  LET r == rooms[n]
      next == Compacted(r, ack, body, size)
      fits == Fits(r, next, ack, size)
  IN  /\ InRoom(n, c) /\ c \in Writable /\ c = r.saver /\ r.asked
      /\ IF size <= r.bytes
         THEN /\ AcceptsSnapshot(r, ack, size)
              /\ Becomes(n, IF fits THEN next ELSE [r EXCEPT !.asked = FALSE])
              /\ Account(IF fits THEN r.log ELSE {}, IF fits THEN next.log ELSE {})
         ELSE Becomes(n, [r EXCEPT !.asked = FALSE]) /\ UNCHANGED budget
      /\ UNCHANGED <<fired, exists, accepted, told>>

Saved(n, c, recv, own) ==
  /\ InRoom(n, c) /\ c \in Writable
  /\ Becomes(n, MarkedSaved(rooms[n], c, recv, own))
  /\ UNCHANGED <<budget, fired, exists, accepted, told>>

\* yjs-leave, leave-note, a join of another note, lost access, a closed socket.
Leave(n, c) ==
  /\ InRoom(n, c)
  /\ \E seeder \in SeederHeirs(rooms[n], c), saver \in SaverHeirs(rooms[n], c) :
       LET next == AfterLeave(rooms[n], c, seeder, saver)
       IN  IF next.members = {} /\ ~HasUnsaved(next)
           THEN Drop(n) /\ UNCHANGED exists
           ELSE Becomes(n, next) /\ UNCHANGED <<budget, fired, exists, accepted, told>>

\* saverCheck: everything is saved, or the saver has had its time and another
\* writer takes the role.  Otherwise the timer is set again.
WatchEnds(n) ==
  /\ rooms[n].watch /\ ~HasUnsaved(rooms[n])
  /\ Becomes(n, [rooms[n] EXCEPT !.watch = FALSE])
  /\ UNCHANGED <<budget, fired, exists, accepted, told>>

\* Mutant: the saver that does not save may get the role again.
SaverRelievedByAnyone(n) ==
  /\ rooms[n].watch /\ HasUnsaved(rooms[n])
  /\ \E c \in Candidates(rooms[n], None) : Becomes(n, Relieved(rooms[n], c))
  /\ UNCHANGED <<budget, fired, exists, accepted, told>>

SaverRelieved(n) ==
  /\ rooms[n].watch /\ HasUnsaved(rooms[n])
  /\ \E c \in Candidates(rooms[n], rooms[n].saver) : Becomes(n, Relieved(rooms[n], c))
  /\ UNCHANGED <<budget, fired, exists, accepted, told>>

\* The grace timer fires; its callback may wait for ymu while people come and go.
GraceFires(n) ==
  /\ rooms[n].grace /\ ~fired[n]
  /\ fired' = [fired EXCEPT ![n] = TRUE]
  /\ UNCHANGED <<rooms, budget, exists, accepted, told>>

GraceEnds(n) ==
  /\ fired[n]
  /\ IF rooms[n].members = {} THEN Drop(n)
     ELSE fired' = [fired EXCEPT ![n] = FALSE] /\ UNCHANGED <<rooms, budget, accepted, told>>
  /\ UNCHANGED exists

\* The note is moved, renamed or deleted; then CloseMissingRooms.
NoteGoes(n) ==
  /\ exists[n]
  /\ exists' = [exists EXCEPT ![n] = FALSE]
  /\ UNCHANGED <<rooms, budget, fired, accepted, told>>

CloseRoom(n) ==
  /\ Open(n) /\ ~exists[n]
  /\ Drop(n)
  /\ UNCHANGED exists

\* What a browser's snapshot holds: it encodes its whole document and acks the
\* last update it integrated (sharedDoc.js), so all that the ack covers, and
\* nothing the room did not accept.
Honest(n, ack) ==
  {body \in SUBSET accepted[n] : Items(Covered(rooms[n], ack)) \subseteq body}

Next ==
  \E n \in Note :
    \/ \E c \in Conn :
         \/ Hello(n, c)
         \/ Leave(n, c)
         \/ InRoom(n, c) /\
              \/ \E size \in Sizes, quiet \in BOOLEAN :
                  Update(n, c, {rooms[n].seq + 1}, size, quiet)
              \/ \E ack \in 0..rooms[n].seq, size \in Sizes :
                   \E body \in Honest(n, ack) : Snapshot(n, c, ack, body, size)
              \/ \E recv \in 0..rooms[n].seq, own \in 0..rooms[n].own[c] : Saved(n, c, recv, own)
    \/ WatchEnds(n) \/ SaverRelieved(n)
    \/ GraceFires(n) \/ GraceEnds(n)
    \/ NoteGoes(n) \/ CloseRoom(n)

Spec == Init /\ [][Next]_vars

\* The runtime fires the saver watch and the grace timer.
FairSpec == Spec /\ \A n \in Note : /\ WF_vars(SaverRelieved(n)) /\ WF_vars(WatchEnds(n))
                                    /\ WF_vars(GraceFires(n)) /\ WF_vars(GraceEnds(n))

-----------------------------------------------------------------------------
(* Properties                                                              *)

Entry == [seq : Nat, size : Nat, from : Conn \cup {None}, uid : User \cup {None},
          own : Nat, saved : BOOLEAN, body : SUBSET Item]
RoomOK(r) ==
  /\ DOMAIN r = DOMAIN NewRoom
  /\ r.members \in SUBSET Conn /\ r.stuck \in SUBSET Conn
  /\ r.own \in [Conn -> Nat] /\ r.log \in SUBSET Entry
  /\ r.seq \in Nat /\ r.snapSeq \in Nat /\ r.compacted \in Nat
  /\ r.saver \in Conn \cup {None} /\ r.seeder \in Conn \cup {None}
  /\ r.seeded \in BOOLEAN /\ r.asked \in BOOLEAN
  /\ r.grace \in BOOLEAN /\ r.watch \in BOOLEAN

\* Every variable keeps its type; BudgetMatches says what the numbers are.
TypeOK ==
  /\ DOMAIN rooms = Note /\ \A n \in Note : RoomOK(rooms[n])
  /\ DOMAIN held = User \cup {None}
  /\ fired \in [Note -> BOOLEAN] /\ exists \in [Note -> BOOLEAN]
  /\ accepted \in [Note -> SUBSET Item] /\ told \in [Note -> Conn \cup {None}]

Logs == UNION {{<<n, e>> : e \in rooms[n].log} : n \in Note}

\* What entries of any notes weigh together.
LogBytes(entries) == MapThenSumSet(LAMBDA x : x[2].size, entries)

\* The server-wide and per-account budgets (account, lines 704-730) are what
\* the logs of the open rooms hold, whatever was compacted, dropped or closed
\* in between: bytes that stay charged would refuse updates for good.
BudgetMatches ==
  /\ total = LogBytes(Logs)
  /\ \A u \in DOMAIN held : held[u] = LogBytes({x \in Logs : x[2].uid = u})
  /\ \A n \in Note : rooms[n].bytes = Bytes(rooms[n].log)

\* No order of updates and snapshots takes a room, the server or an account
\* over its cap (lines 52-65), a snapshot's own bytes included.
WithinCaps ==
  /\ total <= MaxTotal
  /\ \A u \in User : held[u] <= MaxUser
  /\ \A n \in Note : rooms[n].bytes <= MaxLog

\* The budgets are right and kept.
BudgetsRight == BudgetMatches /\ WithinCaps

\* Whoever joins gets the whole document (lines 222-239): through compactions
\* the log still holds every item of every update the room accepted.
RoomComplete == \A n \in Note : Items(rooms[n].log) = accepted[n]

\* The saver and the seeder are writers who are in the room: a room whose
\* saver left or may only read would never write its file (lines 506-518).
RolesHeldInside ==
  \A n \in Note :
    /\ rooms[n].saver \in (rooms[n].members \cap Writable) \cup {None}
    /\ rooms[n].seeder \in (rooms[n].members \cap Writable) \cup {None}

\* Someone is asked to seed only while the room is empty (line 204): two seeds
\* would put the note's text in the room twice.
SeedOnce == \A n \in Note : rooms[n].log # {} => rooms[n].seeder = None

\* An unsaved update always has someone on the watch: the saver timer runs, and
\* an empty room is open only for its grace period (lines 388-394, 519-536).
NeverForgotten ==
  \A n \in Note : Open(n) =>
    /\ HasUnsaved(rooms[n]) => rooms[n].watch
    /\ rooms[n].members = {} => HasUnsaved(rooms[n]) /\ rooms[n].grace

Unsaved(r) == Items({e \in r.log : ~e.saved})

\* A compaction never passes an update off as saved (lines 328-338): whatever
\* the log held unsaved before a snapshot it holds unsaved after it.
CompactionKeepsUnsaved ==
  [][\A n \in Note : Open(n) /\ Open(n)' /\ {e.seq : e \in rooms[n].log} # {e.seq : e \in rooms'[n].log}
       => Unsaved(rooms[n]) \subseteq Unsaved(rooms'[n])]_vars

\* Compaction is asked of the saver there is (yjs.go:57, "the saver is asked
\* to compact well before"): a pending request is never one to somebody else.
AskedOfSaver ==
  \A n \in Note : rooms[n].asked => rooms[n].saver \in {told[n], None}

\* A saver that does not save loses the role while somebody else could save
\* (lines 396-435): it does not keep the room's text from the file for good.
IdleSaverReplaced ==
  \A n \in Note, c \in Conn :
    (rooms[n].saver = c /\ HasUnsaved(rooms[n]) /\ Candidates(rooms[n], c) # {})
      ~> (rooms[n].saver # c \/ ~HasUnsaved(rooms[n]) \/ Candidates(rooms[n], c) = {})

=============================================================================
