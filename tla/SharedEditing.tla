----------------------------- MODULE SharedEditing -----------------------------
(***************************************************************************)
(* One note edited by several tabs: the room on the server (YjsRoom), the  *)
(* shared editing session of each tab (frontend/src/sharedDoc.js), the     *)
(* normal autosave a tab falls back to (App.jsx) and the note's file.      *)
(*                                                                         *)
(* A file's etag is its text.  A request or a frame of a tab is handled    *)
(* when it is sent; its answer, and what the room sends, come later and in *)
(* between anything may happen.  A socket that is cut loses its queue and  *)
(* everything sent on it; the tab and the server each notice later.        *)
(***************************************************************************)
EXTENDS YjsRoom

INSTANCE SharedText WITH Unset <- None

CONSTANTS
  Tab,       \* browser tabs
  First,     \* the text of the file at the start
  Plans,     \* what may happen to them, one plan per behaviour: a record of the
             \* tabs in use, those that leave the note again, the pieces people type (typed) and other programs
             \* write (outside), and how many sockets are cut and how often a
             \* saver is found too slow (quiet)
  Stale,     \* a save of the room may land while a look at the file is answered
  Torn       \* a tab may leave or lose its socket between the text and the
             \* meta of a seed

ASSUME EditingAssumption ==
  /\ Conn \subseteq Nat
  /\ First # {}
  /\ Stale \in BOOLEAN /\ Torn \in BOOLEAN
  /\ \A p \in Plans : p.tabs \subseteq Tab /\ {p.cuts, p.quiet} \subseteq Nat

VARIABLES
  net,    \* room: the note's room; used, up: the sockets opened, and those that
          \* work; down: what each is sent
  file,   \* the text on disk
  tab,    \* per tab: its editor, its session and its saves in flight
  left    \* what is left of the plan

vars == <<net, file, tab, left>>

Idle == [open |-> FALSE, leaving |-> "no", sock |-> None,
         editor |-> {}, base |-> {}, etag |-> None, start |-> {}, app |-> None,
         doc |-> {}, lastSeq |-> 0, ownSent |-> 0,
         ready |-> FALSE, seed |-> FALSE, saver |-> FALSE, bound |-> FALSE,
         due |-> FALSE, job |-> None, check |-> None, join |-> None]

Init ==
  /\ net = [room |-> None, used |-> {}, up |-> {}, down |-> [c \in Conn |-> <<>>]]
  /\ file = First
  /\ tab = [t \in Tab |-> Idle]
  /\ left \in Plans

-----------------------------------------------------------------------------
(* The wire.                                                               *)

Mailed(n, room, mail) ==
  [n EXCEPT !.room = room,
            !.down = [c \in Conn |-> IF c \in n.up THEN @[c] \o mail[c] ELSE @[c]]]

\* The room handles one frame from c; one it does not know is dropped.
Handled(n, c, f, quiet) ==
  LET r == n.room
  IN  IF c \notin n.up \/ r = None \/ c \notin r.members THEN n
      ELSE CASE f.type = "update" ->
                  Mailed(n, AfterUpdate(r, c, c, f.body, 1, quiet),
                            UpdateMail(r, c, c, f.body, 1, quiet))
             [] f.type = "saved" -> Mailed(n, MarkedSaved(r, c, f.recv, f.own), Silence)
             [] f.type = "snapshot" ->
                  IF c # r.saver \/ ~r.asked \/ ~AcceptsSnapshot(r, f.ack, 1) THEN n
                  ELSE Mailed(n, Compacted(r, f.ack, f.body, 1), Silence)

\* And those of a step, in order.
AllHandled(n, c, out, quiet) ==
  LET after[k \in 0..Len(out)] ==
        IF k = 0 THEN n ELSE Handled(after[k - 1], c, out[k], quiet)
  IN  after[Len(out)]

\* A step of tab t leaves it as s.tab, having sent the frames s.out while
\* `plan` was left.  quiet: the room finds its saver quiet when they arrive.
Steps(t, s, now, plan) ==
  /\ tab' = [tab EXCEPT ![t] = s.tab]
  /\ \E quiet \in {FALSE, s.out # <<>> /\ plan.quiet > 0} :
       /\ net' = AllHandled(now, tab[t].sock, s.out, quiet)
       /\ left' = [plan EXCEPT !.quiet = @ - IF quiet THEN 1 ELSE 0]

Does(t, s, now) == Steps(t, s, now, left)

\* YjsLeave of a member: roles pass on, an empty room with all saved is dropped.
LeavesRoom(n, c) ==
  \E seeder \in SeederHeirs(n.room, c), saver \in SaverHeirs(n.room, c) :
    LET next == AfterLeave(n.room, c, seeder, saver)
    IN  net' = Mailed(n, IF next.members = {} /\ ~HasUnsaved(next) THEN None ELSE next,
                      LeaveMail(n.room, c, seeder, saver))

-----------------------------------------------------------------------------
(* What a session does to its document and its role.                       *)

Same(t)   == [tab |-> tab[t], out |-> <<>>]
Send(s, f) == [s EXCEPT !.out = Append(@, f)]

\* Items the bound editor or the session puts in the document.
Edit(s, items) ==
  IF items = {} THEN s
  ELSE [s EXCEPT !.tab.doc = @ \cup items, !.tab.ownSent = @ + 1,
                 !.out = Append(@, [type |-> "update", body |-> items])]

NextId(s) == <<s.tab.sock, s.tab.ownSent + 1>>
Write(s, text) == Edit(s, Rewrite(s.tab.doc, text, NextId(s)))
SetAgreed(s, base, md, dirty) == Edit(s, Agree(s.tab.doc, s.tab.sock, base, md, dirty))

Confirm(s, recv, own) == Send(s, [type |-> "saved", recv |-> recv, own |-> own])
ConfirmAll(s) == Confirm(s, s.tab.lastSeq, s.tab.ownSent)

\* _scheduleSave: only a saver has one coming.
Due(s) == [s EXCEPT !.tab.due = @ \/ s.tab.saver]

\* Mutant: a tab that becomes the saver looks at the file and does not save.
LookOnly(s, became) ==
  [s EXCEPT !.tab.check = IF @ = None THEN [text |-> file, save |-> FALSE] ELSE @]

\* Ask for the file; a tab that just became the saver saves after that.
Look(s, became) ==
  [s EXCEPT !.tab.check = IF @ = None THEN [text |-> file, save |-> became]
                          ELSE [@ EXCEPT !.save = @ \/ became]]

Clean(b) == b.editor = b.base
Seeding(b) == b.seed /\ Text(b.doc) = {}
Waits(b) == ~b.bound /\ b.open /\ b.ready
\* _maybeBind: seed the room, join it with nothing of its own, or join it once
\* it holds the same text.
CanBind(b) ==
  /\ Waits(b)
  /\ \/ Seeding(b)
     \/ /\ Text(b.doc) # {}
        /\ \/ Clean(b) /\ b.base = b.start
           \/ ~b.saver /\ Text(b.doc) = b.editor

\* Mutant: binding leaves on screen what the editor had.
BoundAsShown(s) ==
  LET b == [s EXCEPT !.tab.bound = TRUE, !.tab.seed = FALSE]
  IN  IF b.tab.saver THEN Look(b, TRUE) ELSE b

Bound(s) ==
  LET b == [s EXCEPT !.tab.bound = TRUE, !.tab.seed = FALSE, !.tab.editor = Text(s.tab.doc)]
  IN  IF b.tab.saver THEN Look(b, TRUE) ELSE b

Seeded(s) ==
  LET e == Write(s, s.tab.editor)
      clean == Clean(s.tab)
      a == SetAgreed(e, s.tab.base, s.tab.base, ~clean)
  IN  Bound(IF clean THEN ConfirmAll(a) ELSE Due(a))

MaybeBind(s) ==
  IF ~CanBind(s.tab) THEN s ELSE IF Seeding(s.tab) THEN Seeded(s) ELSE Bound(s)

-----------------------------------------------------------------------------
(* Opening a note and joining its room.                                    *)

\* The note is loaded, and the tab's socket joins it and says yjs-hello.
Joins(c) ==
  LET r == IF net.room = None THEN NewRoom ELSE net.room
  IN  /\ c \notin net.used /\ ~Full(r)
      /\ net' = Mailed([net EXCEPT !.used = @ \cup {c}, !.up = @ \cup {c}],
                       Joined(r, c), JoinMail(r, c))

Open(t, c) ==
  /\ t \in left.tabs /\ ~tab[t].open /\ tab[t].leaving = "no"
  /\ Joins(c)
  /\ tab' = [tab EXCEPT ![t].open = TRUE, ![t].editor = file, ![t].base = file,
                        ![t].etag = file, ![t].start = file, ![t].sock = c]
  /\ UNCHANGED <<file, left>>

\* A new socket, after one that went.
Reconnect(t, c) ==
  /\ tab[t].open /\ tab[t].leaving = "no" /\ tab[t].sock = None
  /\ Joins(c)
  /\ tab' = [tab EXCEPT ![t].sock = c]
  /\ UNCHANGED <<file, left>>

\* The next message of the tab's socket.
Receive(t) ==
  LET c == tab[t].sock
      m == Head(net.down[c])
      taken == [net EXCEPT !.down[c] = Tail(@)]
      s == Same(t)
      heard ==
        CASE m.type = "joined" ->
               MaybeBind([s EXCEPT !.tab.doc = @ \cup m.body, !.tab.lastSeq = m.seq,
                                   !.tab.seed = m.seed, !.tab.saver = m.saver, !.tab.ready = TRUE])
          [] m.type = "update" ->
               LET d == tab[t].doc \cup m.body
                   u == [s EXCEPT !.tab.doc = d, !.tab.lastSeq = m.seq,
                                  !.tab.editor = IF tab[t].bound THEN Text(d) ELSE @]
               IN  MaybeBind(Due(u))
          [] m.type = "seed" -> MaybeBind([s EXCEPT !.tab.seed = TRUE])
          [] m.type = "role" ->
               LET r == [s EXCEPT !.tab.saver = m.saver, !.tab.due = @ /\ m.saver]
               IN  IF m.saver /\ ~tab[t].saver /\ tab[t].bound THEN Look(r, TRUE) ELSE r
          [] m.type = "compact" ->
               IF tab[t].saver
               THEN Send(s, [type |-> "snapshot", ack |-> tab[t].lastSeq, body |-> tab[t].doc])
               ELSE s
  IN  /\ c # None  /\ net.down[c] # <<>>
      /\ Does(t, heard, taken)
      /\ UNCHANGED file

\* The wait timer: what the room holds has come to what is on screen.
Rejoin(t) ==
  /\ CanBind(tab[t])
  /\ Does(t, MaybeBind(Same(t)), net)
  /\ UNCHANGED file

\* _saverJoin: a saver with saved text of its own reads the file, puts it and
\* the room's text together in the room, and binds.
MustMerge(b) ==
  /\ Waits(b) /\ b.saver /\ Text(b.doc) # {} /\ ~Seeding(b)
  /\ Clean(b) /\ b.base # b.start

JoinReads(t) ==
  /\ MustMerge(tab[t]) /\ tab[t].join = None
  /\ tab' = [tab EXCEPT ![t].join = [text |-> file, editor |-> tab[t].editor, sock |-> tab[t].sock]]
  /\ UNCHANGED <<net, file, left>>

JoinMerges(t) ==
  LET b == tab[t]
      j == b.join
      s == [Same(t) EXCEPT !.tab.join = None]
      agreed == IF Agreed(b.doc) THEN Base(b.doc) ELSE j.text
      merged == Merge(agreed, Text(b.doc), j.text)
      w == Write(s, merged)
      a == SetAgreed(w, j.text, j.text, merged # j.text)
  IN  /\ j # None
      /\ IF MustMerge(b) /\ j.sock = b.sock /\ b.editor = j.editor
         THEN Does(t, Bound(IF merged # j.text THEN Due(a) ELSE ConfirmAll(a)), net)
         ELSE Does(t, s, net)
      /\ UNCHANGED file

-----------------------------------------------------------------------------
(* Typing, and the normal autosave of a tab that is not bound.             *)

Type(t, p) ==
  LET s == [Same(t) EXCEPT !.tab.editor = @ \cup {p}]
  IN  /\ tab[t].open /\ tab[t].leaving = "no" /\ p \in left.typed
      /\ Steps(t, IF tab[t].bound THEN Due(Write(s, s.tab.editor)) ELSE s, net,
               [left EXCEPT !.typed = @ \ {p}])
      /\ UNCHANGED file

\* PUT with If-Match: refused when the file is not the text the etag names.
Lands(etag) == etag \in {file, None}
Answer(etag) == IF Lands(etag) THEN "ok" ELSE "conflict"

AppPut(t, text, etag, base, ours) ==
  /\ file' = IF Lands(etag) THEN text ELSE file
  /\ tab' = [tab EXCEPT ![t].app = [answer |-> Answer(etag), text |-> text, base |-> base, ours |-> ours]]
  /\ UNCHANGED <<net, left>>

\* doSave: PUT what is on screen, made on the text last saved or loaded.
AppSave(t) ==
  LET b == tab[t]
  IN  /\ b.open /\ ~b.bound /\ b.app = None /\ ~Clean(b)
      /\ AppPut(t, b.editor, b.etag, b.base, b.editor)

AppSaved(t) ==
  LET a == tab[t].app
  IN  /\ a # None /\ a.answer = "ok"
      /\ tab' = [tab EXCEPT ![t].app = None, ![t].base = a.text, ![t].etag = a.text,
                            ![t].editor = IF tab[t].bound THEN @ ELSE Merge(a.ours, @, a.text)]
      /\ UNCHANGED <<net, file, left>>

\* 409: read the file; it has this text already, it is what the edit was made
\* on, the room writes the note now, or both are merged and saved.
AppRefused(t) ==
  LET a == tab[t].app
  IN  /\ a # None /\ a.answer = "conflict"
      /\ IF file = a.text
         THEN /\ tab' = [tab EXCEPT ![t].app.answer = "ok"]
              /\ UNCHANGED <<net, file, left>>
         ELSE IF file = a.base THEN AppPut(t, a.text, file, a.base, a.ours)
         ELSE IF tab[t].bound
         THEN /\ tab' = [tab EXCEPT ![t].app = None]
              /\ UNCHANGED <<net, file, left>>
         ELSE AppPut(t, Merge(a.base, a.ours, file), file, a.base, a.ours)

\* file-changed or the poll, in a tab with no edits of its own.
AppLoad(t) ==
  /\ tab[t].open /\ ~tab[t].bound /\ tab[t].app = None /\ Clean(tab[t]) /\ tab[t].base # file
  /\ tab' = [tab EXCEPT ![t].editor = file, ![t].base = file, ![t].etag = file]
  /\ UNCHANGED <<net, file, left>>

-----------------------------------------------------------------------------
(* The saver's saves and its looks at the file.                            *)

\* _save, of the saver or of a tab that leaves the note: PUT the room's text
\* unless it is what room and file agreed on.
Saves(s) ==
  LET b == s.tab
  IN  IF b.job # None \/ ~b.bound \/ ~Agreed(b.doc) THEN s
      ELSE IF Unchanged(b.doc, b.editor) THEN ConfirmAll(s)
      ELSE [s EXCEPT !.tab.job = [answer |-> Answer(Base(b.doc)), text |-> b.editor,
                                  recv |-> b.lastSeq, own |-> b.ownSent, sock |-> b.sock]]

\* The file after s, which may have sent a save.
Written(t, s) ==
  IF tab[t].job = None /\ s.tab.job # None /\ s.tab.job.answer = "ok" THEN s.tab.job.text ELSE file

\* A seed is two updates, the text and the meta.
Whole(t) == Torn \/ (tab[t].bound => Agreed(tab[t].doc))

MaySave == Stale \/ \A t \in Tab : tab[t].check = None

SaveDue(t) ==
  /\ tab[t].due /\ tab[t].job = None /\ MaySave
  /\ LET s == [Same(t) EXCEPT !.tab.due = FALSE]
         w == IF tab[t].saver THEN Saves(s) ELSE s
     IN  Does(t, w, net) /\ file' = Written(t, w)

\* The answer, if the session is still in the room it saved for.
SaveAnswered(t) ==
  LET b == tab[t]
      j == b.job
      s == [Same(t) EXCEPT !.tab.job = None]
      a == SetAgreed(s, j.text, j.text, FALSE)
  IN  /\ j # None
      /\ Does(t, IF j.sock # b.sock THEN s
                 ELSE IF j.answer = "ok"
                 THEN Confirm(a, j.recv, IF b.ownSent = j.own THEN a.tab.ownSent ELSE j.own)
                 ELSE IF b.saver THEN Look(s, TRUE) ELSE s, net)
      /\ UNCHANGED file

\* The saver's timer, or a file-changed it did not cause.
Poll(t) ==
  /\ tab[t].saver /\ tab[t].bound /\ Agreed(tab[t].doc) /\ tab[t].check = None
  /\ Stale \/ file # Base(tab[t].doc)
  /\ Does(t, Look(Same(t), FALSE), net)
  /\ UNCHANGED file

\* Mutant: a merge with text of our own counts as agreed.
CheckedClean(s, text) ==
  LET b == s.tab
      clean == Unchanged(b.doc, b.editor)
      merged == IF clean THEN text ELSE Merge(Base(b.doc), b.editor, text)
      w == [Write(s, merged) EXCEPT !.tab.editor = merged]
      a == SetAgreed(w, text, merged, FALSE)
  IN  IF ~b.bound \/ ~Agreed(b.doc) \/ text = Base(b.doc) THEN s
      ELSE IF clean THEN a ELSE Due(a)

\* What _checkOutside does with the answer, whenever it comes.
Checked(s, text) ==
  LET b == s.tab
      clean == Unchanged(b.doc, b.editor)
      merged == IF clean THEN text ELSE Merge(Base(b.doc), b.editor, text)
      w == [Write(s, merged) EXCEPT !.tab.editor = merged]
      a == SetAgreed(w, text, merged, ~clean)
  IN  IF ~b.bound \/ ~Agreed(b.doc) \/ text = Base(b.doc) THEN s
      ELSE IF clean THEN a ELSE Due(a)

CheckAnswered(t) ==
  LET k == tab[t].check
      s == Checked([Same(t) EXCEPT !.tab.check = None], k.text)
  IN  /\ k # None
      /\ Does(t, IF k.save THEN Due(s) ELSE s, net)
      /\ UNCHANGED file

-----------------------------------------------------------------------------
(* Leaving the note: flush, leave the room, flush what is left, go.        *)

Leave(t) ==
  /\ t \in left.leave /\ tab[t].open /\ tab[t].leaving = "no"
  /\ tab[t].app = None /\ (tab[t].bound \/ Clean(tab[t]))
  /\ tab[t].job = None /\ MaySave /\ Whole(t)
  /\ LET s == [Same(t) EXCEPT !.tab.leaving = "flush", !.tab.due = FALSE]
         w == IF Unchanged(tab[t].doc, tab[t].editor) THEN s ELSE Saves(s)
     IN  Does(t, w, net) /\ file' = Written(t, w)

\* yjs-leave, with a last yjs-saved when the room matches the file; the second
\* flush saves what is not saved yet, and nobody waits for its answer.
Depart(t) ==
  LET b == tab[t]
      s == Same(t)
      same == Unchanged(b.doc, b.editor)
      heard == IF b.bound /\ b.saver /\ same
               THEN AllHandled(net, b.sock, ConfirmAll(s).out, TRUE)
               ELSE net
  IN  /\ b.leaving = "flush" /\ b.job = None /\ b.check = None /\ ~b.due /\ MaySave
      /\ file' = IF same THEN file ELSE Written(t, Saves(s))
      /\ tab' = [tab EXCEPT ![t] = [Idle EXCEPT !.leaving = "left"]]
      /\ LET gone == [heard EXCEPT !.up = @ \ {b.sock},
                                   !.down = [c \in Conn |-> IF c = b.sock THEN <<>> ELSE @[c]]]
         IN  IF b.sock \in net.up /\ heard.room # None /\ b.sock \in heard.room.members
             THEN LeavesRoom(gone, b.sock) ELSE net' = gone
      /\ UNCHANGED <<left>>

-----------------------------------------------------------------------------
(* Sockets that fail, the room's timers and writers outside the room.      *)

Cut(t) ==
  /\ tab[t].sock \in net.up /\ left.cuts > 0
  /\ Whole(t)
  /\ left' = [left EXCEPT !.cuts = @ - 1]
  /\ net' = [net EXCEPT !.up = @ \ {tab[t].sock}, !.down[tab[t].sock] = <<>>]
  /\ UNCHANGED <<file, tab>>

\* _socketGone: the editor goes back to the normal way of saving, from what
\* the room last saved, and the room's document is dropped.
SocketGone(t) ==
  LET b == tab[t]
      base == IF Agreed(b.doc) THEN Base(b.doc) ELSE b.editor
      apart == [b EXCEPT !.sock = None, !.doc = {}, !.lastSeq = 0, !.ownSent = 0,
                         !.ready = FALSE, !.seed = FALSE, !.saver = FALSE, !.bound = FALSE,
                         !.due = FALSE, !.check = None, !.join = None]
      over == [apart EXCEPT !.base = base, !.start = base,
                            !.etag = IF Agreed(b.doc) THEN base ELSE None,
                            !.editor = IF Unchanged(b.doc, @) THEN base ELSE @]
  IN  /\ b.sock # None /\ b.sock \notin net.up
      /\ tab' = [tab EXCEPT ![t] = IF b.bound THEN over ELSE apart]
      /\ UNCHANGED <<net, file, left>>

\* The server notices that a socket is gone.
ServerDrops(c) ==
  /\ c \notin net.up /\ net.room # None /\ c \in net.room.members
  /\ LeavesRoom(net, c)
  /\ UNCHANGED <<file, tab, left>>

\* saverCheck: unsaved text and no saver, or one that is too slow.
SaverCheck ==
  LET r == net.room
      slow == IF r.saver = None THEN 0 ELSE 1
  IN  /\ r # None /\ r.watch /\ HasUnsaved(r) /\ slow <= left.quiet
      /\ \E c \in Candidates(r, r.saver) : net' = Mailed(net, Relieved(r, c), RoleMail(r, c))
      /\ left' = [left EXCEPT !.quiet = @ - slow]
      /\ UNCHANGED <<file, tab>>

GraceEnds ==
  /\ net.room # None /\ net.room.grace
  /\ net' = [net EXCEPT !.room = None]
  /\ UNCHANGED <<file, tab, left>>

OutsideWrites(o) ==
  /\ o \in left.outside
  /\ left' = [left EXCEPT !.outside = @ \ {o}]
  /\ file' = file \cup {o}
  /\ UNCHANGED <<net, tab>>

Session(t) ==
  \/ Receive(t) \/ Rejoin(t) \/ JoinReads(t) \/ JoinMerges(t)
  \/ AppSave(t) \/ AppSaved(t) \/ AppRefused(t) \/ AppLoad(t)
  \/ SaveDue(t) \/ SaveAnswered(t) \/ CheckAnswered(t)
  \/ Depart(t) \/ SocketGone(t)

Next ==
  \/ \E t \in Tab :
       \/ Session(t) \/ Poll(t) \/ Leave(t) \/ Cut(t)
       \/ \E c \in Conn : Open(t, c) \/ Reconnect(t, c)
       \/ \E p \in left.typed : Type(t, p)
  \/ \E c \in Conn : ServerDrops(c)
  \/ SaverCheck \/ GraceEnds
  \/ \E o \in left.outside : OutsideWrites(o)

Spec == Init /\ [][Next]_vars

\* What Session(t) is enabled by.
Busy(t) ==
  LET b == tab[t]
  IN  \/ b.sock # None /\ (b.sock \notin net.up \/ net.down[b.sock] # <<>>)
      \/ CanBind(b) \/ MustMerge(b) \/ b.join # None
      \/ b.job # None \/ b.check # None \/ b.app # None
      \/ b.open /\ ~b.bound /\ ~Clean(b)
      \/ MaySave /\ (b.due \/ b.leaving = "flush")

\* Timers fire, requests are answered, messages arrive, failures are noticed:
\* weak fairness of every tab, with ENABLED Session(t) spelled out.  Nobody has
\* to type, open, leave or reconnect.
FairSpec ==
  /\ Spec
  /\ \A t \in Tab : []<>~Busy(t) \/ []<><<Session(t)>>_vars
  /\ \A c \in Conn : WF_vars(ServerDrops(c))
  /\ WF_vars(net.room # None /\ net.room.saver = None /\ SaverCheck)

-----------------------------------------------------------------------------
(* Properties                                                              *)

InRoom(c) == net.room # None /\ c \in net.room.members

\* A bound tab with nothing waiting in its queue has the document a newcomer
\* would get: no update is lost or kept back between sharedDoc.js and yjs.go,
\* through joins, compactions and sockets that are replaced.
Converged ==
  \A t \in Tab :
    LET c == tab[t].sock
    IN  (tab[t].bound /\ c \in net.up /\ InRoom(c) /\ net.down[c] = <<>>)
          => tab[t].doc = Items(net.room.log)

\* A tab bound to the room shows its document's text: neither binding, nor the
\* merge of an outside change, nor an answer of the normal autosave that comes
\* late puts anything else on screen.
ShowsRoom == \A t \in Tab : tab[t].bound => tab[t].editor = Text(tab[t].doc)

\* Text of the room that is not in the file is in an update that counts as
\* unsaved: what a yjs-saved confirmed is in the file (yjs.go:96), so a room
\* the server drops as saved takes nothing with it.
SavedInFile == net.room # None =>
  \A i \in Shown(Items(net.room.log)) :
    i.put \in file \/ \E e \in net.room.log : ~e.saved /\ i \in e.body

\* The file never loses text: nobody removes any here, so no save of a session,
\* of the normal autosave or of a tab that leaves may (sharedText.js:20 promises
\* that a merge drops nobody's words).
FileKeepsText == [][file \subseteq file']_vars

\* What is on screen in some tab comes into the file, whoever saves, whether
\* the tab stays, leaves or loses its socket.
TypedSaved ==
  \A t \in Tab, q \in UNION {p.typed : p \in Plans} : q \in tab[t].editor ~> q \in file
=============================================================================
