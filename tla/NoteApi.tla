------------------------------- MODULE NoteApi --------------------------------
(***************************************************************************)
(* The requests that read and change one note of a server process without  *)
(* Redis (backend/handlers), on the storage below them: GET, PUT, PATCH and*)
(* chat posts, which take the note lock, and create, delete, move, tasks   *)
(* and the lazy note ID, which do not.                                     *)
(*                                                                         *)
(* Text is a set of pieces, one per request that adds text; an ETag is a   *)
(* hash of the text without its marker, so here it is the text.  A write   *)
(* truncates the file and then fills it: two steps.  Who may do what is    *)
(* left out; a refusal is a step any request may end with.                 *)
(***************************************************************************)
EXTENDS KeyedMutex

CONSTANTS
  Note,         \* paths of notes
  First,        \* the notes that exist at the start
  Kinds,        \* per note: the kinds of request it gets
  Git,          \* the storage is GitStorage, which looks after markers
  Piece,        \* pieces of text and markers, named by the request they come from
  MaxRequests   \* per note: it gets requests while fewer than these were made

\* Requests that hold the note lock from their read to their write: PUT with
\* and without If-Match, PATCH, a chat's post, a conversion to a chat.
Locked  == {"get", "save", "overwrite", "append", "post", "convert"}
\* Requests that do not.
Unlocked == {"create", "delete", "move", "ensure", "taskNew", "taskEdit", "taskRemove"}
Kind    == Locked \cup Unlocked

ASSUME ApiAssumption ==
  /\ Key = Note
  /\ First \subseteq Note
  /\ Kinds \in [Note -> SUBSET Kind]
  /\ Git \in BOOLEAN
  /\ MaxRequests \in [Note -> Nat]
  /\ 0 \in Piece /\ \A n \in Note : 0..MaxRequests[n] \subseteq Piece
  /\ None \notin Piece

Body  == [text : SUBSET Piece, id : Piece \cup {None}]

ASSUME NoneAssumption == None \notin Body /\ \A text \in SUBSET Piece : None # text

VARIABLES
  file,     \* per note: the body on disk
  fd,       \* per request: the path its open file has by now; None: unlinked
  carried,  \* per note: the markers git may remember of its path
  copy,     \* per client and note: the text it knows, its If-Match
  req,      \* per client: its request
  requests  \* requests so far

disk == <<file, fd, carried>>
vars == <<mutex, disk, copy, req, requests>>

Blank == [text |-> {}, id |-> None]

Idle == [at |-> "idle", kind |-> "get", note |-> None, to |-> None,
         body |-> {}, new |-> 0, read |-> None, data |-> None]

Init ==
  /\ MutexInit
  /\ file = [n \in Note |-> IF n \in First THEN [text |-> {0}, id |-> None] ELSE None]
  /\ fd = [p \in Proc |-> None]
  /\ carried = [n \in Note |-> {}]
  /\ copy = [p \in Proc |-> [n \in Note |-> None]]
  /\ req = [p \in Proc |-> Idle]
  /\ requests = 0

At(p, stage)  == req[p].at = stage
Goes(p, stage) ==
  req' = [req EXCEPT ![p] = IF stage = "idle" THEN Idle ELSE [@ EXCEPT !.at = stage]]

\* Nothing but what was written, if anything, matters from here on.
Leaves(p, stage, written) ==
  req' = [req EXCEPT ![p] =
            IF stage = "idle" THEN Idle
            ELSE [@ EXCEPT !.at = stage, !.body = {}, !.new = 0, !.read = None, !.data = written]]

\* Where a request goes on when it is done with the note.
After(p) == IF req[p].kind \in Locked THEN "unlock" ELSE "idle"

-----------------------------------------------------------------------------
(* A request comes in: its body has been read.                             *)

\* What a browser puts in place of the text it knows.
Edits(p, n, new) ==
  {{}} \cup {(copy[p][n] \ cut) \cup {new} : cut \in SUBSET copy[p][n]}

Bodies(p, kind, n, new) ==
  IF kind = "save"
  THEN IF copy[p][n] = None THEN {} ELSE Edits(p, n, new)
  ELSE {{new}}

FirstStage(kind) ==
  IF kind \in Locked THEN "acquire"
  ELSE IF kind \in {"create", "delete", "move"} THEN "stat" ELSE "read"

Begin(p, kind, n, to) ==
  /\ At(p, "idle") /\ requests < MaxRequests[n]
  /\ kind \in Kinds[n]
  /\ IF kind = "move" THEN to # n /\ kind \in Kinds[to] ELSE to = n
  /\ requests' = requests + 1
  /\ \E body \in Bodies(p, kind, n, requests + 1) :
       req' = [req EXCEPT ![p] = [Idle EXCEPT !.at = FirstStage(kind), !.kind = kind,
                 !.note = n, !.to = to, !.body = body, !.new = requests + 1]]
  /\ IF kind \in Locked THEN Look(p, n) ELSE UNCHANGED mutex
  /\ UNCHANGED <<disk, copy>>

\* Mutant: the lock is not waited for.
AcquiredUnlocked(p) ==
  /\ At(p, "acquire")
  /\ owner' = [owner EXCEPT ![handle[p]] = p]
  /\ phase' = [phase EXCEPT ![p] = "in"]
  /\ Goes(p, "read")
  /\ UNCHANGED <<locks, refs, handle, key, disk, copy, requests>>

Acquired(p) ==
  /\ At(p, "acquire") /\ Acquire(p)
  /\ Goes(p, "read")
  /\ UNCHANGED <<disk, copy, requests>>

-----------------------------------------------------------------------------
(* The read, and what the request wants to write instead.                  *)

With(cur, piece) == IF cur = None THEN [text |-> {piece}, id |-> None]
                    ELSE [cur EXCEPT !.text = @ \cup {piece}]

\* Mutant: If-Match is not looked at.
MatchesAny(r, cur, known) == TRUE

\* A PUT's If-Match, when it sends one, is the ETag of the text that is there.
Matches(r, cur, known) == r.kind = "save" => known = cur.text

\* The bodies request r may write over the body cur; none is a refusal.  known
\* is the text of the client's If-Match.  A body sent by a client loses the
\* markers in it; PUT keeps the file's marker or makes one.  A new task ignores
\* the error of its read, so a read that fails is a note without text.
Wanted(r, cur, known) ==
  IF cur = None
  THEN IF r.kind \in {"append", "convert", "taskNew"} THEN {With(None, r.new)} ELSE {}
  ELSE CASE r.kind \in {"append", "post", "convert"} -> {With(cur, r.new)}
         [] r.kind = "taskNew" -> {With(cur, r.new), With(None, r.new)}
         [] r.kind \in {"save", "overwrite"} ->
              IF Matches(r, cur, known)
              THEN {[text |-> r.body, id |-> IF cur.id = None THEN r.new ELSE cur.id]} ELSE {}
         [] r.kind = "ensure" -> IF cur.id = None THEN {[cur EXCEPT !.id = r.new]} ELSE {}
         [] r.kind = "taskEdit" ->
              {[cur EXCEPT !.text = (@ \ {x}) \cup {r.new}] : x \in cur.text}
         [] r.kind = "taskRemove" -> {[cur EXCEPT !.text = @ \ {x}] : x \in cur.text}

\* GET: 200 with the text and its ETag, 304, or 404.
ReadGet(p) ==
  /\ At(p, "read") /\ req[p].kind = "get"
  /\ copy' = IF file[req[p].note] = None THEN copy
             ELSE [copy EXCEPT ![p][req[p].note] = file[req[p].note].text]
  /\ Leaves(p, "unlock", None)
  /\ UNCHANGED <<mutex, disk, requests>>

ReadToWrite(p) ==
  LET n == req[p].note
  IN  /\ At(p, "read") /\ req[p].kind # "get"
      /\ \E data \in Wanted(req[p], file[n], copy[p][n]) :
           req' = [req EXCEPT ![p].at = "reconcile", ![p].read = file[n], ![p].data = data]
      /\ UNCHANGED <<mutex, disk, copy, requests>>

\* Mutant: an early return without the unlock.
RefusedLocked(p) ==
  /\ At(p, "read") /\ req[p].kind # "get"
  /\ Goes(p, "idle")
  /\ UNCHANGED <<mutex, disk, copy, requests>>

\* 404, 409, a chat somebody else owns, an empty body for a note with text, a
\* stale task line, a marker that is there already, or the read fails.
Refused(p) ==
  /\ At(p, "read") /\ req[p].kind # "get"
  /\ Leaves(p, After(p), None)
  /\ UNCHANGED <<mutex, disk, copy, requests>>

-----------------------------------------------------------------------------
(* The write: GitStorage looks at markers, then the file is truncated and  *)
(* filled.                                                                 *)

\* reconcileNoteMarker: the marker on disk wins, else the last one git has.
MarkersFor(data, n) ==
  IF ~Git THEN {data.id}
  ELSE IF file[n] # None /\ file[n].id # None THEN {file[n].id}
  ELSE {data.id} \cup carried[n]

Reconcile(p) ==
  /\ At(p, "reconcile")
  /\ \E id \in MarkersFor(req[p].data, req[p].note) :
       req' = [req EXCEPT ![p].at = "open", ![p].data.id = id]
  /\ UNCHANGED <<mutex, disk, copy, requests>>

\* os.WriteFile: open with O_TRUNC...
Open(p) ==
  /\ At(p, "open")
  /\ file' = [file EXCEPT ![req[p].note] = Blank]
  /\ fd' = [fd EXCEPT ![p] = req[p].note]
  /\ Goes(p, "fill")
  /\ UNCHANGED <<mutex, carried, copy, requests>>

OpenFails(p) ==
  /\ At(p, "open")
  /\ Leaves(p, After(p), None)
  /\ UNCHANGED <<mutex, disk, copy, requests>>

\* Writing data at offset 0 of a file that holds old: some of old may be left
\* behind it, its marker included; readers take the first marker.
Over(old, data) ==
  {[text |-> data.text \cup tail, id |-> IF data.id = None THEN id ELSE data.id] :
     tail \in SUBSET old.text, id \in {None, old.id}}

\* PUT and PATCH tell the others before they unlock, a post after.
AfterFill(kind) ==
  IF kind \in {"save", "overwrite", "append"} THEN "tell"
  ELSE IF kind \in Locked THEN "unlock" ELSE "idle"

\* ...and write.  A file that was moved or removed meanwhile is written where
\* it went.
Fill(p) ==
  LET n == req[p].note
  IN  /\ At(p, "fill")
      /\ IF fd[p] = None THEN UNCHANGED <<file, carried>>
         ELSE /\ \E b \in Over(file[fd[p]], req[p].data) :
                   file' = [file EXCEPT ![fd[p]] = b]
              /\ carried' = [carried EXCEPT ![fd[p]] = @ \cup ({req[p].data.id} \ {None})]
      /\ fd' = [fd EXCEPT ![p] = None]
      /\ copy' = IF req[p].kind \in {"save", "overwrite"}
                 THEN [copy EXCEPT ![p][n] = req[p].body] ELSE copy
      /\ Leaves(p, AfterFill(req[p].kind), req[p].data)
      /\ UNCHANGED <<mutex, requests>>

\* BroadcastFileChanged: the ETag of what this request wrote.
Tell(p) ==
  /\ At(p, "tell")
  /\ Goes(p, IF phase[p] = "in" THEN "unlock" ELSE "idle")
  /\ UNCHANGED <<mutex, disk, copy, requests>>

Unlock(p) ==
  /\ At(p, "unlock") /\ Release(p)
  /\ Goes(p, "forget")
  /\ UNCHANGED <<disk, copy, requests>>

\* Mutant: the others are told when the lock is gone, as a post does.
FinishTells(p) ==
  /\ At(p, "forget") /\ Forget(p)
  /\ Goes(p, IF req[p].data # None THEN "tell" ELSE "idle")
  /\ UNCHANGED <<disk, copy, requests>>

Finish(p) ==
  /\ At(p, "forget") /\ Forget(p)
  /\ Goes(p, IF req[p].kind = "post" /\ req[p].data # None THEN "tell" ELSE "idle")
  /\ UNCHANGED <<disk, copy, requests>>

-----------------------------------------------------------------------------
(* Create, delete and move look first and act later.                       *)

StatCreate(p) ==
  /\ At(p, "stat") /\ req[p].kind = "create"
  /\ IF file[req[p].note] = None
     THEN req' = [req EXCEPT ![p].at = "reconcile",
                             ![p].data = [text |-> req[p].body, id |-> None]]
     ELSE Goes(p, "idle")
  /\ UNCHANGED <<mutex, disk, copy, requests>>

StatSource(p) ==
  /\ At(p, "stat") /\ req[p].kind \in {"delete", "move"}
  /\ Goes(p, IF file[req[p].note] = None THEN "idle"
             ELSE IF req[p].kind = "delete" THEN "act" ELSE "statTo")
  /\ UNCHANGED <<mutex, disk, copy, requests>>

StatTo(p) ==
  /\ At(p, "statTo")
  /\ Goes(p, IF file[req[p].to] = None THEN "act" ELSE "idle")
  /\ UNCHANGED <<mutex, disk, copy, requests>>

Remove(p) ==
  LET n == req[p].note
  IN  /\ At(p, "act") /\ req[p].kind = "delete"
      /\ file' = [file EXCEPT ![n] = None]
      /\ fd' = [q \in Proc |-> IF fd[q] = n THEN None ELSE fd[q]]
      /\ Goes(p, "idle")
      /\ UNCHANGED <<mutex, carried, copy, requests>>

\* os.Rename replaces what is at the destination by now.
Rename(p) ==
  LET n == req[p].note  to == req[p].to
  IN  /\ At(p, "act") /\ req[p].kind = "move"
      /\ IF file[n] = None THEN UNCHANGED disk
         ELSE /\ file' = [file EXCEPT ![to] = file[n], ![n] = None]
              /\ fd' = [q \in Proc |-> IF fd[q] = n THEN to
                                       ELSE IF fd[q] = to THEN None ELSE fd[q]]
              /\ carried' = [carried EXCEPT ![to] = @ \cup ({file[n].id} \ {None})]
      /\ Goes(p, "idle")
      /\ UNCHANGED <<mutex, copy, requests>>

-----------------------------------------------------------------------------
\* A request in progress takes its next step.
Step(p) ==
  \/ Acquired(p)
  \/ ReadGet(p) \/ ReadToWrite(p) \/ Refused(p)
  \/ Reconcile(p) \/ Open(p) \/ OpenFails(p) \/ Fill(p)
  \/ Tell(p) \/ Unlock(p) \/ Finish(p)
  \/ StatCreate(p) \/ StatSource(p) \/ StatTo(p) \/ Remove(p) \/ Rename(p)

Next ==
  \E p \in Proc :
    \/ \E kind \in Kind, n, to \in Note : Begin(p, kind, n, to)
    \/ Step(p)

Spec == Init /\ [][Next]_vars

\* The runtime runs every goroutine, and its mutex hands over to a waiter.
FairSpec == Spec /\ \A p \in Proc : WF_vars(Step(p)) /\ SF_vars(Acquired(p))

-----------------------------------------------------------------------------
(* Properties                                                              *)

Stage == {"idle", "acquire", "stat", "statTo", "act", "read", "reconcile", "open",
          "fill", "tell", "unlock", "forget"}

Request == [at : Stage, kind : Kind, note : Note \cup {None}, to : Note \cup {None},
            body : SUBSET Piece, new : Piece, read : Body \cup {None},
            data : Body \cup {None}]

\* Every variable keeps its type, and a request that is over holds no lock.
TypeOK ==
  /\ MutexTypeOK
  /\ file \in [Note -> Body \cup {None}]
  /\ fd \in [Proc -> Note \cup {None}]
  /\ carried \in [Note -> SUBSET Piece]
  /\ copy \in [Proc -> [Note -> (SUBSET Piece) \cup {None}]]
  /\ req \in [Proc -> Request]
  /\ requests \in Nat
  /\ \A p \in Proc : At(p, "idle") => phase[p] = "out"

\* Notes whose every request holds the lock, and whose every PUT has If-Match.
Guarded == {n \in Note : Kinds[n] \subseteq Locked \ {"overwrite"}}

\* A request is between the two halves of its write; the file is as good as
\* what it read.
Filling(n)  == {p \in Proc : At(p, "fill") /\ req[p].note = n}
Settled(n)  == IF Filling(n) = {} THEN file[n]
               ELSE req[CHOOSE p \in Filling(n) : TRUE].read
TextAt(n)   == IF Settled(n) = None THEN None ELSE Settled(n).text
IdAt(n)     == IF Settled(n) = None THEN None ELSE Settled(n).id

\* On guarded notes the API is a versioned register (notes.go:154-158, 214-217):
\* a reader never sees a half-written file, no append or post is lost however
\* requests interleave, and a save replaces exactly the text its If-Match names.
Versions == INSTANCE VersionedNotes WITH
              Note <- Guarded, Client <- Proc, Text <- SUBSET Piece,
              text <- [n \in Guarded |-> TextAt(n)],
              id <- [n \in Guarded |-> IdAt(n)],
              copy <- [p \in Proc |-> [n \in Guarded |-> copy[p][n]]]

ImplementsVersions == Versions!Spec

\* What PUT and PATCH broadcast is the text the file has (notes.go:516-517), so
\* the last broadcast of a note is never an older version.
ToldInOrder ==
  \A p \in Proc :
    At(p, "tell") /\ req[p].kind \in {"save", "append"} /\ req[p].note \in Guarded
      => file[req[p].note].text = req[p].data.text

\* A handler that reads a note and writes it back takes nothing away from what is
\* there: an ID is "injected if missing, written back atomically" (noteid.go:83-84)
\* and a task changes its own line or is refused as stale (tasks.go:638-640).
Replaces(kind) == IF kind \in {"taskEdit", "taskRemove"} THEN 1 ELSE 0

RewriteKeepsText ==
  [][\A p \in Proc :
       At(p, "open") /\ req'[p].at = "fill" /\ file[req[p].note] # None
         /\ req[p].kind \in {"ensure", "taskNew", "taskEdit", "taskRemove"}
       => Cardinality(file[req[p].note].text \ req[p].data.text) <= Replaces(req[p].kind)]_vars

\* Every request is answered: no early return keeps a lock that others wait for.
RequestsEnd == \A p \in Proc : ~At(p, "idle") ~> At(p, "idle")
=============================================================================
