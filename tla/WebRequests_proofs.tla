------------------------- MODULE WebRequests_proofs -------------------------
(***************************************************************************)
(* Proofs about what the web app asks of the server and what comes of it:  *)
(* the git backups of a workspace, the notes and folders that are moved,   *)
(* copied, renamed and deleted.  For any rows, places and people; a step   *)
(* of another part leaves a part alone (GitSteps, PlaceSteps).             *)
(***************************************************************************)
EXTENDS WebApp, FiniteSetTheorems, SequenceTheorems, TLAPS

LEMMA GitSteps == ASSUME [Next]_vars PROVE GitNext \/ UNCHANGED gitVars
  BY DEF Next, PageNext, ToolNext, RestNext, vars, restVars

-----------------------------------------------------------------------------
(* The rows, and what became of the notes.                                 *)

GitActor == PageId \cup {"server"}

IsBackup(r) ==
  r = [id |-> r.id, place |-> r.place, via |-> r.via, repo |-> r.repo, token |-> r.token, on |-> r.on, sync |-> r.sync]
IsConn(c) == c = [id |-> c.id, repo |-> c.repo, token |-> c.token]

HasCopy(q) == notes[q].copies # {}
NotesKept(q) == notes[q].there \/ HasCopy(q)

\* A row's notes are kept; its last push left a copy; a token of its own was asked for.
RowRight(r) ==
  /\ IsBackup(r) /\ r.place \in Place /\ r.on \in BOOLEAN /\ r.id \in Nat /\ r.id <= gitMade
  /\ NotesKept(r.place) /\ (r.sync = "ok" => HasCopy(r.place))
  /\ r.via = None => (r.token # None => <<r.repo, r.token>> \in picked) /\ (r.on => r.token # None)

ErasedRight(e) ==
  e.place \in Place /\ NotesKept(e.place) /\ e.was = e.shown /\ (e.said => HasCopy(e.place))

NotesRight ==
  /\ DOMAIN notes = Place /\ notes[Mine].there
  /\ \A q \in Place : notes[q] = [there |-> notes[q].there, copies |-> notes[q].copies] /\ notes[q].there \in BOOLEAN

\* A place has one row, and an id one place.
RowsApart == \A r, s \in rows : (r.id = s.id => r.place = s.place) /\ (r.place = s.place => r = s)

RowsRight ==
  /\ gitMade \in Nat /\ gitEdits \in [GitActor -> Nat] /\ NotesRight
  /\ \A r \in rows : RowRight(r)
  /\ RowsApart
  /\ \A c \in conns : IsConn(c) /\ c.id # None
  /\ \A e \in erased : ErasedRight(e)

-----------------------------------------------------------------------------
(* What the pages know.                                                    *)

ReadAt(at) == at \in [GitActor -> Nat] /\ \A o \in GitActor : at[o] <= gitEdits[o]
OthersStill(w, at) == \A o \in GitActor \ {w} : gitEdits[o] = at[o]

\* A row as it was read: it is in one place, and its notes went where it says.
SeenRight(s) ==
  /\ s.place \in Place /\ s.id \in Nat /\ s.id <= gitMade /\ (s.sync = "ok" => HasCopy(s.place))
  /\ \A r \in rows : r.id = s.id => r.place = s.place

SeenList(p, shows) ==
  /\ \A s \in shows.rows : SeenRight(s) /\ (p = Mine => s.place = Mine)
  /\ p = Mine => shows.conns = {}

\* One's own namespace has the row that its page shows, or none.
MineKnown(p, shows) == p = Mine => \A r \in rows : r.place = Mine => \A s \in shows.rows : s.id = r.id

RowsTold(p, shows, at) == (OthersStill(p, at) => shows = GitRead(p).shows) /\ MineKnown(p, shows)

\* A page reads again, or is about to.
GitDue(p) == \E c \in gitCalls : c.by = p /\ (c.kind = "read" \/ c.ok)

GitPageRight(p) ==
  LET g == gitPages[p]
  IN  /\ g = [shows |-> g.shows, at |-> g.at, form |-> g.form]
      /\ g.form # None => g.form.place \in Place /\ (g.form.place = Mine <=> p = Mine)
      /\ g.shows # None => SeenList(p, g.shows) /\ ReadAt(g.at) /\ (GitDue(p) \/ RowsTold(p, g.shows, g.at))

GitCallRight(c) ==
  /\ c.by \in PageId
  /\ c.kind = "read" => SeenList(c.by, c.shows) /\ ReadAt(c.at) /\ RowsTold(c.by, c.shows, c.at)

PagesRight ==
  /\ DOMAIN gitPages = PageId /\ \A p \in PageId : GitPageRight(p)
  /\ \A c \in gitCalls : GitCallRight(c)
  /\ \A c, d \in gitCalls : c.by = d.by => c = d

BackupsInv == RowsRight /\ PagesRight

-----------------------------------------------------------------------------
(* What a step of somebody leaves to everybody else.                       *)

\* A row is new, or what became of one in its place; a copy stays one.
RowsGrow ==
  /\ gitMade' \in Nat /\ gitMade <= gitMade'
  /\ \A r \in rows' : r.id <= gitMade => \E s \in rows : s.id = r.id /\ s.place = r.place
  /\ \A q \in Place : HasCopy(q) => HasCopy(q)'

MineStays == \A r \in rows' : r.place = Mine => \E s \in rows : s.id = r.id /\ s.place = Mine

GitMoved(w) == gitEdits' = [gitEdits EXCEPT ![w] = @ + 1] /\ RowsGrow /\ (w # Mine => MineStays)

GitStill == UNCHANGED <<rows, conns, gitMade, notes, gitEdits>>

GitAlone(w) ==
  /\ GitMoved(w) \/ GitStill
  /\ \A u \in PageId : u # w => gitPages'[u] = gitPages[u]
  /\ \A c : c.by # w => (c \in gitCalls' <=> c \in gitCalls)

GitOwn(w) ==
  /\ RowsRight' /\ DOMAIN gitPages' = PageId
  /\ w \in PageId => GitPageRight(w)'
  /\ \A c \in gitCalls' : c.by = w => GitCallRight(c)'
  /\ \A c, d \in gitCalls' : c.by = w /\ d.by = w => c = d

\* A change leaves what was read by somebody else older, and out of date.
LEMMA ReadBefore ==
  ASSUME RowsRight, NEW w \in GitActor, NEW at, ReadAt(at), gitEdits' = [gitEdits EXCEPT ![w] = @ + 1]
  PROVE  ReadAt(at)' /\ \A u \in PageId : u # w => ~OthersStill(u, at)'
  <1>1. gitEdits \in [GitActor -> Nat] /\ at \in [GitActor -> Nat]
    BY DEF RowsRight, ReadAt
  <1>2. \A o \in GitActor : gitEdits'[o] = IF o = w THEN gitEdits[o] + 1 ELSE gitEdits[o]
    BY <1>1
  <1>3. \A o \in GitActor : gitEdits[o] \in Nat /\ at[o] \in Nat /\ at[o] <= gitEdits[o]
    BY <1>1 DEF ReadAt
  <1>4. \A o \in GitActor : at[o] <= gitEdits'[o]
    BY <1>2, <1>3
  <1>5. gitEdits'[w] # at[w]
    BY <1>2, <1>3
  <1> QED BY <1>1, <1>4, <1>5 DEF ReadAt, OthersStill

LEMMA SeenStays ==
  ASSUME NEW p, NEW shows, SeenList(p, shows), RowsRight, RowsGrow \/ GitStill
  PROVE  SeenList(p, shows)'
  <1>1. CASE GitStill
    BY <1>1 DEF GitStill, SeenList, SeenRight, HasCopy
  <1>2. CASE RowsGrow
    <2> SUFFICES ASSUME NEW s \in shows.rows PROVE SeenRight(s)'
      BY DEF SeenList
    <2>1. SeenRight(s)
      BY DEF SeenList
    <2>2. s.id <= gitMade' /\ (s.sync = "ok" => HasCopy(s.place)')
      BY <1>2, <2>1 DEF SeenRight, RowsGrow, RowsRight
    <2>3. ASSUME NEW r \in rows', r.id = s.id PROVE r.place = s.place
      BY <1>2, <2>1, <2>3 DEF SeenRight, RowsGrow
    <2> QED BY <2>1, <2>2, <2>3 DEF SeenRight
  <1> QED BY <1>1, <1>2

LEMMA FitsStays ==
  ASSUME RowsRight, NEW w \in GitActor, NEW u \in PageId, u # w, NEW shows, NEW at, ReadAt(at),
         GitMoved(w) \/ GitStill, RowsTold(u, shows, at)
  PROVE  ReadAt(at)' /\ RowsTold(u, shows, at)'
  <1>1. CASE GitMoved(w)
    <2>1. ReadAt(at)' /\ ~OthersStill(u, at)'
      BY <1>1, ReadBefore DEF GitMoved
    <2>2. MineKnown(u, shows)'
      BY <1>1 DEF GitMoved, MineStays, RowsTold, MineKnown
    <2> QED BY <2>1, <2>2 DEF RowsTold
  <1>2. CASE GitStill
    BY <1>2 DEF GitStill, ReadAt, RowsTold, OthersStill, MineKnown, GitRead
  <1> QED BY <1>1, <1>2

LEMMA GitRest ==
  ASSUME BackupsInv, NEW w \in GitActor, GitAlone(w), GitOwn(w)
  PROVE  BackupsInv'
  <1>1. RowsGrow \/ GitStill
    BY DEF GitAlone, GitMoved
  <1>2. ASSUME NEW u \in PageId, u # w PROVE GitPageRight(u)'
    <2>1. gitPages'[u] = gitPages[u] /\ GitPageRight(u)
      BY <1>2 DEF GitAlone, BackupsInv, PagesRight
    <2>2. GitDue(u) => GitDue(u)'
      BY <1>2 DEF GitDue, GitAlone
    <2>3. ASSUME gitPages[u].shows # None
          PROVE  /\ SeenList(u, gitPages[u].shows)' /\ ReadAt(gitPages[u].at)'
                 /\ GitDue(u)' \/ RowsTold(u, gitPages[u].shows, gitPages[u].at)'
      <3>1. PICK shows, at : shows = gitPages[u].shows /\ at = gitPages[u].at
        OBVIOUS
      <3>2. SeenList(u, shows) /\ ReadAt(at) /\ (GitDue(u) \/ RowsTold(u, shows, at))
        BY <2>1, <2>3, <3>1 DEF GitPageRight
      <3>3. SeenList(u, shows)'
        BY <3>2, <1>1, SeenStays DEF BackupsInv
      <3>4. ReadAt(at)'
        <4>1. CASE GitMoved(w)
          BY <4>1, <3>2, ReadBefore DEF GitMoved, BackupsInv
        <4>2. CASE GitStill
          BY <4>2, <3>2 DEF GitStill, ReadAt
        <4> QED BY <4>1, <4>2 DEF GitAlone
      <3>5. RowsTold(u, shows, at) => RowsTold(u, shows, at)'
        BY <3>2, <1>2, FitsStays DEF GitAlone, BackupsInv
      <3> QED BY <2>1, <2>2, <3>1, <3>2, <3>3, <3>4, <3>5
    <2> QED BY <2>1, <2>3 DEF GitPageRight
  <1>3. ASSUME NEW c \in gitCalls', c.by # w PROVE GitCallRight(c)'
    <2>1. c \in gitCalls /\ GitCallRight(c) /\ c.by \in PageId
      BY <1>3 DEF GitAlone, BackupsInv, PagesRight, GitCallRight
    <2>2. ASSUME c.kind = "read" PROVE SeenList(c.by, c.shows)' /\ ReadAt(c.at)' /\ RowsTold(c.by, c.shows, c.at)'
      <3>1. SeenList(c.by, c.shows) /\ ReadAt(c.at) /\ RowsTold(c.by, c.shows, c.at)
        BY <2>1, <2>2 DEF GitCallRight
      <3> QED BY <3>1, <1>1, <1>3, <2>1, SeenStays, FitsStays DEF GitAlone, BackupsInv
    <2> QED BY <2>1, <2>2 DEF GitCallRight
  <1>4. \A p \in PageId : GitPageRight(p)'
    BY <1>2 DEF GitOwn
  <1>5. \A c \in gitCalls' : GitCallRight(c)'
    BY <1>3 DEF GitOwn
  <1>6. \A c, d \in gitCalls' : c.by = d.by => c = d
    BY DEF GitOwn, GitAlone, BackupsInv, PagesRight
  <1> QED BY <1>4, <1>5, <1>6 DEF BackupsInv, PagesRight, GitOwn

-----------------------------------------------------------------------------
(* What a page asks for.                                                   *)

\* It says what was shown, or what somebody picked.
OpRight(p, op) ==
  /\ op.do \in {"own", "grouped"} => op.place \in Place \ {Mine}
  /\ op.do = "own" => op.picks /\ op.on
  /\ op.do \in {"edit", "mine"} => op.on \in BOOLEAN
  /\ op.do = "mine" => op.place = Mine
  /\ op.do \in {"mine", "off"} => p = Mine
  /\ op.do \in {"edit", "mine"} /\ ~op.picks =>
       op.token = None /\ \E s \in gitPages[p].shows.rows : s.id = op.id /\ s.repo = op.repo
  /\ op.said => op.do = "remove" /\ \E s \in gitPages[p].shows.rows : s.id = op.id /\ s.sync = "ok"

\* A form filled in differs from it in a repository and a token.
FormLike(base, op) ==
  /\ op.do = base.do /\ op.place = base.place /\ op.id = base.id /\ op.picks = TRUE
  /\ op.on = base.on /\ op.said = base.said /\ DOMAIN op = DOMAIN base

LEMMA FilledIs ==
  ASSUME NEW base, NEW op \in Filled(base), DOMAIN base = DOMAIN Blank
  PROVE  FormLike(base, op)
  <1>1. PICK r \in Repo : op \in {[base EXCEPT !.repo = r, !.token = t, !.picks = TRUE] : t \in {None, r}}
    BY DEF Filled
  <1>2. PICK t : op = [base EXCEPT !.repo = r, !.token = t, !.picks = TRUE]
    BY <1>1
  <1> QED BY <1>2 DEF Blank, FormLike

LEMMA ConnOpsSay ==
  ASSUME NEW p, NEW op \in ConnOps(p)
  PROVE  op.do \in {"conn", "unconn"} /\ op.said = FALSE
  <1>0. ASSUME NEW do, NEW id
        PROVE  OnConn(do, id).do = do /\ OnConn(do, id).said = FALSE /\ DOMAIN OnConn(do, id) = DOMAIN Blank
    BY DEF OnConn, Blank
  <1>1. ASSUME NEW id, op \in Filled(OnConn("conn", id)) PROVE op.do = "conn" /\ op.said = FALSE
    <2>1. PICK base : base = OnConn("conn", id)
      OBVIOUS
    <2>2. base.do = "conn" /\ base.said = FALSE /\ DOMAIN base = DOMAIN Blank
      BY <1>0, <2>1
    <2>3. FormLike(base, op)
      BY <1>1, <2>1, <2>2, FilledIs
    <2> QED BY <2>2, <2>3 DEF FormLike
  <1>2. ASSUME NEW id, op = OnConn("unconn", id) PROVE op.do = "unconn" /\ op.said = FALSE
    BY <1>0, <1>2
  <1>4. (\E id : op \in Filled(OnConn("conn", id))) \/ \E id : op = OnConn("unconn", id)
    BY DEF ConnOps
  <1> QED BY <1>1, <1>2, <1>4

LEMMA OpsRight ==
  ASSUME BackupsInv, NEW p \in PageId, gitPages[p].shows # None, NEW op \in FormOps(p) \cup ClickOps(p),
         NEW asks, asks = IF p = Mine /\ op.do = "own" THEN [op EXCEPT !.do = "mine"] ELSE op
  PROVE  OpRight(p, asks) /\ asks.picks = op.picks /\ (op.picks \/ asks = op)
  <1>1. PICK shown, cs, f : shown = gitPages[p].shows.rows /\ cs = gitPages[p].shows.conns /\ f = gitPages[p].form
    OBVIOUS
  <1>2. /\ \A s \in shown : SeenRight(s) /\ (p = Mine => s.place = Mine)
        /\ p = Mine => cs = {}
        /\ f # None => f.place \in Place /\ (f.place = Mine <=> p = Mine)
    BY <1>1 DEF BackupsInv, PagesRight, GitPageRight, SeenList
  <1>3. CASE \E place \in Place : (place = Mine <=> p = Mine) /\ op \in SetUps(p, place)
    <2>1. PICK place \in Place : (place = Mine <=> p = Mine) /\ op \in SetUps(p, place)
      BY <1>3
    <2>2. CASE op \in Filled([Blank EXCEPT !.place = place])
      <3>0. PICK base : base = [Blank EXCEPT !.place = place]
        OBVIOUS
      <3>2. DOMAIN base = DOMAIN Blank /\ base.do = "own" /\ base.place = place /\ base.on = TRUE /\ base.said = FALSE
        BY <3>0 DEF Blank
      <3>1. op.do = "own" /\ op.place = place /\ op.picks = TRUE /\ op.on = TRUE /\ op.said = FALSE /\ DOMAIN op = DOMAIN Blank
        BY <2>2, <3>0, <3>2, FilledIs DEF FormLike
      <3>3. CASE p = Mine
        <4>1. asks.do = "mine" /\ asks.place = place /\ asks.picks = TRUE /\ asks.on = TRUE /\ asks.said = FALSE
          BY <3>1, <3>3 DEF Blank
        <4> QED BY <2>1, <3>1, <3>3, <4>1 DEF OpRight
      <3>4. CASE p # Mine
        BY <2>1, <3>1, <3>4 DEF OpRight
      <3> QED BY <3>3, <3>4
    <2>3. CASE \E c \in cs : op = [Blank EXCEPT !.do = "grouped", !.place = place, !.via = c.id]
      <3>1. op.do = "grouped" /\ op.place = place /\ op.said = FALSE /\ p # Mine
        BY <1>2, <2>3 DEF Blank
      <3> QED BY <2>1, <3>1 DEF OpRight
    <2> QED BY <1>1, <2>1, <2>2, <2>3 DEF SetUps
  <1>4. CASE \E r \in shown, place \in Place : /\ place = Mine <=> p = Mine
                                               /\ op \in Filled([Blank EXCEPT !.do = IF p = Mine THEN "mine" ELSE "edit",
                                                                              !.place = place, !.id = r.id])
    <2>1. PICK place \in Place : /\ place = Mine <=> p = Mine
                                 /\ op.do = (IF p = Mine THEN "mine" ELSE "edit") /\ op.place = place
                                 /\ op.picks = TRUE /\ op.on = TRUE /\ op.said = FALSE
      <3>1. PICK r \in shown, place \in Place :
              /\ place = Mine <=> p = Mine
              /\ op \in Filled([Blank EXCEPT !.do = IF p = Mine THEN "mine" ELSE "edit", !.place = place, !.id = r.id])
        BY <1>4
      <3>2. PICK base : base = [Blank EXCEPT !.do = IF p = Mine THEN "mine" ELSE "edit", !.place = place, !.id = r.id]
        OBVIOUS
      <3>3. DOMAIN base = DOMAIN Blank /\ base.do = (IF p = Mine THEN "mine" ELSE "edit") /\ base.place = place
              /\ base.on = TRUE /\ base.said = FALSE
        BY <3>2 DEF Blank
      <3>4. op \in Filled(base)
        BY <3>1, <3>2, Zenon
      <3> QED BY <3>1, <3>3, <3>4, FilledIs DEF FormLike
    <2> QED BY <2>1 DEF OpRight
  <1>5. CASE \E r \in shown : op = TurnedOver(r, IF p = Mine THEN "mine" ELSE "edit")
    <2>1. PICK r \in shown : op = TurnedOver(r, IF p = Mine THEN "mine" ELSE "edit")
      BY <1>5
    <2>2. /\ op.do = (IF p = Mine THEN "mine" ELSE "edit") /\ op.place = r.place /\ op.id = r.id /\ op.repo = r.repo
          /\ op.token = None /\ op.picks = FALSE /\ op.said = FALSE /\ op.on = ~r.on
      BY <2>1 DEF TurnedOver, ToggleFields, Blank
    <2> QED BY <1>1, <1>2, <2>2 DEF OpRight
  <1>6. CASE p = Mine /\ op = [Blank EXCEPT !.do = "off", !.place = Mine]
    <2>1. op.do = "off" /\ op.said = FALSE
      BY <1>6 DEF Blank
    <2> QED BY <1>6, <2>1 DEF OpRight
  <1>7. CASE \E r \in shown : op = [Blank EXCEPT !.do = "remove", !.place = r.place, !.id = r.id, !.said = SaysSynced(r)]
    <2>1. PICK r \in shown : op = [Blank EXCEPT !.do = "remove", !.place = r.place, !.id = r.id, !.said = SaysSynced(r)]
      BY <1>7
    <2>2. op.do = "remove" /\ op.id = r.id /\ (op.said => r.sync = "ok")
      BY <2>1 DEF Blank, SaysSynced
    <2> QED BY <1>1, <2>2 DEF OpRight
  <1>8. CASE p # Mine /\ op \in ConnOps(p)
    <2>1. op.do \in {"conn", "unconn"} /\ op.said = FALSE
      BY <1>8, ConnOpsSay
    <2> QED BY <1>8, <2>1 DEF OpRight
  <1>9. op \in FormOps(p) => <1>3!1 \/ <1>4!1
    <2> SUFFICES ASSUME op \in FormOps(p) PROVE <1>3!1 \/ <1>4!1
      OBVIOUS
    <2>1. f # None /\ (IF f.mode = "setup" THEN op \in SetUps(p, f.place)
                      ELSE \E r \in BackupOf(p, f.place) :
                        op \in Filled([Blank EXCEPT !.do = IF p = Mine THEN "mine" ELSE "edit", !.place = f.place, !.id = r.id]))
      BY <1>1 DEF FormOps
    <2>2. BackupOf(p, f.place) \subseteq shown
      BY <1>1 DEF BackupOf
    <2> QED BY <1>2, <2>1, <2>2
  <1>10. op \in ClickOps(p) => <1>5!1 \/ <1>6!1 \/ <1>7!1 \/ <1>8!1
    BY <1>1 DEF ClickOps
  <1> QED BY <1>3, <1>4, <1>5, <1>6, <1>7, <1>8, <1>9, <1>10

-----------------------------------------------------------------------------
(* What the server does.                                                   *)

\* What is kept stays kept, and what was asked for was asked for.
Keeping ==
  /\ gitMade' \in Nat /\ gitMade <= gitMade' /\ picked \subseteq picked' /\ NotesRight'
  /\ \A q \in Place : (NotesKept(q) => NotesKept(q)') /\ (HasCopy(q) => HasCopy(q)')

LEMMA RowStays ==
  ASSUME RowsRight, Keeping, NEW r, RowRight(r)
  PROVE  RowRight(r)'
  <1>1. r.id <= gitMade'
    BY DEF RowsRight, RowRight, Keeping
  <1>2. NotesKept(r.place)' /\ (r.sync = "ok" => HasCopy(r.place)')
    BY DEF RowRight, Keeping
  <1> QED BY <1>1, <1>2 DEF RowRight, Keeping

LEMMA ErasedStays ==
  ASSUME RowsRight, Keeping, NEW e \in erased
  PROVE  ErasedRight(e)'
  BY DEF RowsRight, ErasedRight, Keeping

\* The notes of the rows that go are deleted when their last push left a copy.
LEMMA NotesWithoutKeeps ==
  ASSUME RowsRight, NEW gone \in SUBSET rows, notes' = NotesWithout(gone)
  PROVE  /\ NotesRight'
         /\ \A q \in Place : (NotesKept(q) => NotesKept(q)') /\ (HasCopy(q)' <=> HasCopy(q))
  <1>0. DOMAIN notes' = Place /\ Mine \in Place
    BY DEF NotesWithout, Place
  <1>1. ASSUME NEW q \in Place
        PROVE  /\ notes'[q] = [there |-> notes'[q].there, copies |-> notes'[q].copies] /\ notes'[q].there \in BOOLEAN
               /\ notes'[q].copies = notes[q].copies
               /\ notes[q].there => notes'[q].there \/ \E r \in gone : r.place = q /\ q # Mine /\ Durable(r)
    <2>1. PICK b : b = (notes[q].there /\ ~\E r \in gone : r.place = q /\ q # Mine /\ Durable(r))
      OBVIOUS
    <2>2. notes'[q] = [notes[q] EXCEPT !.there = b]
      BY <2>1 DEF NotesWithout
    <2>3. notes[q] = [there |-> notes[q].there, copies |-> notes[q].copies]
      BY DEF RowsRight, NotesRight
    <2>4. notes'[q] = [there |-> b, copies |-> notes[q].copies]
      BY <2>2, <2>3
    <2>5. b \in BOOLEAN
      BY <2>1
    <2>6. notes'[q].there = b /\ notes'[q].copies = notes[q].copies
      BY <2>4
    <2>7. notes[q].there => b \/ \E r \in gone : r.place = q /\ q # Mine /\ Durable(r)
      BY <2>1
    <2> QED BY <2>4, <2>5, <2>6, <2>7
  <1>2. \A r \in gone : Durable(r) => HasCopy(r.place)
    BY DEF RowsRight, RowRight, Durable
  <1>3. notes'[Mine].there
    BY <1>0, <1>1 DEF RowsRight, NotesRight
  <1>4. ASSUME NEW q \in Place PROVE (NotesKept(q) => NotesKept(q)') /\ (HasCopy(q)' <=> HasCopy(q))
    <2>1. notes'[q].copies = notes[q].copies
      BY <1>1
    <2>2. notes[q].there => notes'[q].there \/ \E r \in gone : r.place = q /\ Durable(r)
      BY <1>1
    <2>3. (\E r \in gone : r.place = q /\ Durable(r)) => HasCopy(q)
      BY <1>2
    <2>4. HasCopy(q)' <=> HasCopy(q)
      BY <2>1 DEF HasCopy
    <2> QED BY <2>2, <2>3, <2>4 DEF NotesKept
  <1> QED BY <1>0, <1>1, <1>3, <1>4 DEF NotesRight

LEMMA NotesThere ==
  ASSUME RowsRight, NEW q \in Place, notes' = [notes EXCEPT ![q].there = TRUE]
  PROVE  /\ NotesRight' /\ NotesKept(q)'
         /\ \A o \in Place : (NotesKept(o) => NotesKept(o)') /\ (HasCopy(o)' <=> HasCopy(o))
  <1>1. PICK x : x = [notes[q] EXCEPT !.there = TRUE]
    OBVIOUS
  <1>2. notes' = [notes EXCEPT ![q] = x]
    BY <1>1
  <1>3. notes[q] = [there |-> notes[q].there, copies |-> notes[q].copies] /\ DOMAIN notes = Place
    BY DEF RowsRight, NotesRight
  <1>4. x = [there |-> TRUE, copies |-> notes[q].copies]
    BY <1>1, <1>3
  <1>5. DOMAIN notes' = Place /\ \A o \in Place : notes'[o] = IF o = q THEN x ELSE notes[o]
    BY <1>2, <1>3
  <1>6. x.there = TRUE /\ x.copies = notes[q].copies /\ x = [there |-> x.there, copies |-> x.copies]
    BY <1>4
  <1>7. NotesRight'
    BY <1>5, <1>6 DEF RowsRight, NotesRight, Place
  <1>8. \A o \in Place : (NotesKept(o) => NotesKept(o)') /\ (HasCopy(o)' <=> HasCopy(o))
    BY <1>5, <1>6 DEF NotesKept, HasCopy
  <1>9. NotesKept(q)'
    BY <1>5, <1>6 DEF NotesKept
  <1> QED BY <1>7, <1>8, <1>9

\* An edit leaves a row its id, its place and what was pushed.
LEMMA EditedIs ==
  ASSUME NEW r, IsBackup(r), NEW op, NEW e, e = RowEdited(r, op)
  PROVE  /\ IsBackup(e) /\ e.id = r.id /\ e.place = r.place /\ e.sync = r.sync /\ e.via = r.via /\ e.on = op.on
         /\ r.via = None => e.repo = op.repo /\ e.token = IF op.token = None THEN r.token ELSE op.token
  <1>1. CASE r.via # None
    <2>1. e = [r EXCEPT !.on = op.on]
      BY <1>1 DEF RowEdited
    <2> QED BY <1>1, <2>1 DEF IsBackup
  <1>2. CASE r.via = None
    <2>1. PICK t : t = IF op.token = None THEN r.token ELSE op.token
      OBVIOUS
    <2>2. e = [r EXCEPT !.on = op.on, !.repo = op.repo, !.token = t]
      BY <1>2, <2>1 DEF RowEdited
    <2> QED BY <1>2, <2>1, <2>2 DEF IsBackup
  <1> QED BY <1>1, <1>2

\* Each row is right, has a place of its own, and is new or has the place it had.
RowsDone == (\A r \in rows' : RowRight(r)') /\ RowsApart'

RowsTraced == \A r \in rows' : r.id <= gitMade => \E s \in rows : s.id = r.id /\ s.place = r.place

LEMMA FewerRows ==
  ASSUME RowsRight, Keeping, rows' \subseteq rows
  PROVE  RowsDone /\ RowsTraced /\ MineStays
  BY RowStays DEF RowsRight, RowsApart, RowsDone, RowsTraced, MineStays

\* A row with a token of its own that it may have.
TokenRight(n) == n.via = None => (n.token # None => <<n.repo, n.token>> \in picked) /\ (n.on => n.token # None)

LEMMA NewRow ==
  ASSUME RowsRight, Keeping, gitMade' = gitMade + 1, NEW n, IsBackup(n), n.id = gitMade + 1, n.place \in Place,
         n.on \in BOOLEAN, n.sync = "never", NotesKept(n.place)', TokenRight(n)',
         \A r \in rows : r.place # n.place, rows' = rows \cup {n}
  PROVE  RowsDone /\ RowsTraced /\ (n.place # Mine => MineStays)
  <1>0. gitMade \in Nat /\ \A r \in rows : RowRight(r) /\ r.id \in Nat /\ r.id <= gitMade
    BY DEF RowsRight, RowRight
  <1>1. RowRight(n)'
    BY <1>0 DEF RowRight, TokenRight
  <1>2. \A r \in rows : RowRight(r)' /\ r.id # n.id
    BY <1>0, RowStays
  <1>3. RowsApart'
    BY <1>2 DEF RowsRight, RowsApart
  <1>4. RowsTraced /\ (n.place # Mine => MineStays)
    BY <1>0 DEF RowsTraced, MineStays
  <1> QED BY <1>1, <1>2, <1>3, <1>4 DEF RowsDone

LEMMA EditedRows ==
  ASSUME RowsRight, Keeping, NEW op, op.on \in BOOLEAN, NEW hit \in SUBSET rows,
         \A r \in rows' : \E s \in rows : r = IF s \in hit THEN RowEdited(s, op) ELSE s,
         \A r \in hit : r.via = None /\ op.on => op.token # None \/ r.token # None,
         \A r \in hit : r.via = None => op.picks \/ (op.token = None /\ op.repo = r.repo),
         op.picks => \A r \in rows' \ rows : <<r.repo, r.token>> \in picked'
  PROVE  RowsDone /\ RowsTraced /\ MineStays
  <1>1. ASSUME NEW s \in hit PROVE RowEdited(s, op).id = s.id /\ RowEdited(s, op).place = s.place
    <2>1. IsBackup(s)
      BY DEF RowsRight, RowRight
    <2>2. PICK e : e = RowEdited(s, op)
      OBVIOUS
    <2>3. e.id = s.id /\ e.place = s.place
      BY <2>1, <2>2, EditedIs
    <2> QED BY <2>2, <2>3
  <1>2. ASSUME NEW s \in hit, NEW e, e = RowEdited(s, op), e \in rows' PROVE RowRight(e)'
    <2>1. RowRight(s) /\ RowRight(s)' /\ s \in rows
      BY RowStays DEF RowsRight
    <2>2. CASE e \in rows
      BY <2>2, RowStays DEF RowsRight
    <2>3. CASE e \notin rows
      <3>1. /\ IsBackup(e) /\ e.id = s.id /\ e.place = s.place /\ e.sync = s.sync /\ e.via = s.via /\ e.on = op.on
            /\ s.via = None => e.repo = op.repo /\ e.token = IF op.token = None THEN s.token ELSE op.token
        BY <1>2, <2>1, EditedIs DEF RowRight
      <3>2. e.via = None => (e.token # None => <<e.repo, e.token>> \in picked') /\ (e.on => e.token # None)
        <4> SUFFICES ASSUME e.via = None PROVE (e.token # None => <<e.repo, e.token>> \in picked') /\ (e.on => e.token # None)
          OBVIOUS
        <4>1. e.on => e.token # None
          BY <3>1
        <4>2. CASE op.picks
          BY <1>2, <2>3, <4>1, <4>2
        <4>3. CASE ~op.picks
          <5>1. e.repo = s.repo /\ e.token = s.token
            BY <3>1, <4>3
          <5> QED BY <2>1, <3>1, <4>1, <5>1 DEF RowRight
        <4> QED BY <4>2, <4>3
      <3> QED BY <2>1, <3>1, <3>2 DEF RowRight
    <2> QED BY <2>2, <2>3
  <1>3. \A r \in rows' : RowRight(r)'
    BY <1>2, RowStays DEF RowsRight
  <1>4. \A r \in rows' : \E s \in rows : s.id = r.id /\ s.place = r.place /\ r = IF s \in hit THEN RowEdited(s, op) ELSE s
    BY <1>1
  <1>5. RowsApart'
    BY <1>4 DEF RowsRight, RowsApart
  <1>6. RowsTraced /\ MineStays
    BY <1>4 DEF RowsTraced, MineStays
  <1> QED BY <1>3, <1>5, <1>6 DEF RowsDone

ConnsRight == \A c \in conns : IsConn(c) /\ c.id # None

LEMMA ConnsServed ==
  ASSUME RowsRight, NEW op, conns' = ConnsAfter(op)
  PROVE  ConnsRight'
  <1>1. gitMade + 1 # None /\ ConnsRight
    BY BossAssumption DEF RowsRight, ConnsRight
  <1>2. CASE op.do = "conn" /\ op.id = 0
    BY <1>1, <1>2 DEF ConnsAfter, ConnsRight, IsConn
  <1>3. CASE op.do = "conn" /\ op.id # 0
    <2> SUFFICES ASSUME NEW d \in conns' PROVE IsConn(d) /\ d.id # None
      BY DEF ConnsRight
    <2>1. PICK c \in conns : d = IF c.id # op.id THEN c
                               ELSE [c EXCEPT !.repo = op.repo, !.token = IF op.token = None THEN @ ELSE op.token]
      BY <1>3 DEF ConnsAfter
    <2>2. IsConn(c) /\ c.id # None
      BY <1>1 DEF ConnsRight
    <2>3. CASE c.id # op.id
      BY <2>1, <2>2, <2>3
    <2>4. CASE c.id = op.id
      <3>1. PICK tk : tk = IF op.token = None THEN c.token ELSE op.token
        OBVIOUS
      <3>2. d = [c EXCEPT !.repo = op.repo, !.token = tk]
        BY <2>1, <2>4, <3>1
      <3> QED BY <2>2, <3>2 DEF IsConn
    <2> QED BY <2>3, <2>4
  <1>4. CASE op.do = "unconn"
    BY <1>1, <1>4 DEF ConnsAfter, ConnsRight
  <1>5. CASE op.do \notin {"conn", "unconn"}
    BY <1>1, <1>5 DEF ConnsAfter, ConnsRight
  <1> QED BY <1>2, <1>3, <1>4, <1>5

\* What the page that asks knows of it.
AskedRight(p, op) ==
  /\ OpRight(p, op) /\ MineKnown(p, gitPages[p].shows) /\ SeenList(p, gitPages[p].shows)
  /\ op.picks \/ op.do \notin {"edit", "mine"} \/ AsShown(p, op)

\* The rows after what is asked for, of each kind.
LEMMA RowsServed ==
  ASSUME RowsRight, Keeping, NEW p \in PageId, NEW op, AskedRight(p, op), ~GitRefused(op), rows' = RowsAfter(op),
         op.do \in {"own", "grouped", "mine"} => gitMade' = gitMade + 1,
         op.do \in {"own", "grouped"} => NotesKept(op.place)',
         op.picks => \A r \in RowsAfter(op) \ rows : <<r.repo, r.token>> \in picked'
  PROVE  RowsDone /\ RowsTraced /\ (p # Mine => MineStays)
  <1>1. CASE op.do = "own"
    <2>1. PICK n : n = GitRow(gitMade + 1, op.place, None, op.repo, op.token)
      OBVIOUS
    <2>2. rows' = rows \cup {n}
      BY <1>1, <2>1 DEF RowsAfter
    <2>3. op.place \in Place \ {Mine} /\ op.picks /\ op.on
      BY <1>1 DEF AskedRight, OpRight
    <2>4. /\ IsBackup(n) /\ n.id = gitMade + 1 /\ n.place = op.place /\ n.via = None /\ n.repo = op.repo
          /\ n.token = op.token /\ n.on = TRUE /\ n.sync = "never"
      BY <2>1 DEF GitRow, IsBackup
    <2>5. (\A r \in rows : r.place # op.place) /\ op.token # None
      BY <1>1, <2>3 DEF GitRefused, MayPush
    <2>6. <<n.repo, n.token>> \in picked'
      BY <2>2, <2>3, <2>4, <2>5
    <2>7. TokenRight(n)'
      BY <2>4, <2>5, <2>6 DEF TokenRight
    <2> QED BY <1>1, <2>2, <2>3, <2>4, <2>5, <2>7, NewRow DEF RowsDone, RowsTraced
  <1>2. CASE op.do = "grouped"
    <2>1. PICK n : n = GitRow(gitMade + 1, op.place, op.via, None, None)
      OBVIOUS
    <2>2. rows' = rows \cup {n}
      BY <1>2, <2>1 DEF RowsAfter
    <2>3. op.place \in Place \ {Mine}
      BY <1>2 DEF AskedRight, OpRight
    <2>4. /\ IsBackup(n) /\ n.id = gitMade + 1 /\ n.place = op.place /\ n.via = op.via /\ n.on = TRUE /\ n.sync = "never"
      BY <2>1 DEF GitRow, IsBackup
    <2>5. (\A r \in rows : r.place # op.place) /\ op.via # None
      BY <1>2 DEF GitRefused, RowsRight
    <2>6. TokenRight(n)'
      BY <2>4, <2>5 DEF TokenRight
    <2> QED BY <1>2, <2>2, <2>3, <2>4, <2>5, <2>6, NewRow
  <1>3. CASE op.do = "edit"
    <2>1. PICK hit : hit = {r \in rows : r.id = op.id}
      OBVIOUS
    <2>2. rows' = {IF r.id = op.id THEN RowEdited(r, op) ELSE r : r \in rows}
      BY <1>3 DEF RowsAfter
    <2>3. \A r \in rows' : \E s \in rows : r = IF s \in hit THEN RowEdited(s, op) ELSE s
      BY <2>1, <2>2
    <2>4. \A r \in hit : r.via = None => MayPush(op.on, op.token, r.token)
      BY <1>3, <2>1 DEF GitRefused, RowOf
    <2>5. \A r \in hit : op.picks \/ (op.token = None /\ op.repo = r.repo)
      BY <1>3, <2>1 DEF AskedRight, OpRight, AsShown, RowOf
    <2>6. op.on \in BOOLEAN /\ hit \in SUBSET rows
      BY <1>3, <2>1 DEF AskedRight, OpRight
    <2> QED BY <2>3, <2>4, <2>5, <2>6, EditedRows DEF MayPush
  <1>4. CASE op.do = "mine" /\ \E r \in rows : r.place = Mine
    <2>1. PICK hit : hit = {r \in rows : r.place = Mine}
      OBVIOUS
    <2>2. rows' = {IF r.place = Mine THEN RowEdited(r, op) ELSE r : r \in rows}
      BY <1>4 DEF RowsAfter
    <2>3. \A r \in rows' : \E s \in rows : r = IF s \in hit THEN RowEdited(s, op) ELSE s
      BY <2>1, <2>2
    <2>4. op.place = Mine /\ p = Mine /\ op.on \in BOOLEAN /\ hit \in SUBSET rows
      BY <1>4, <2>1 DEF AskedRight, OpRight
    <2>5. \A r, s \in hit : r = s
      BY <2>1 DEF RowsRight, RowsApart
    <2>6. MayPush(op.on, op.token, TokenKept(hit))
      BY <1>4, <2>1, <2>4 DEF GitRefused
    <2>7. TokenKept(hit) # None => \A r \in hit : r.token # None
      BY <2>5 DEF TokenKept
    <2>8. \A r \in hit : op.picks \/ (op.token = None /\ op.repo = r.repo)
      BY <1>4, <2>1, <2>4 DEF AskedRight, OpRight, AsShown, RowOf, MineKnown
    <2> QED BY <2>3, <2>4, <2>6, <2>7, <2>8, EditedRows DEF MayPush
  <1>5. CASE op.do = "mine" /\ ~\E r \in rows : r.place = Mine
    <2>1. PICK n : n = [GitRow(gitMade + 1, Mine, None, op.repo, op.token) EXCEPT !.on = op.on]
      OBVIOUS
    <2>2. rows' = rows \cup {n}
      BY <1>5, <2>1 DEF RowsAfter
    <2>3. op.place = Mine /\ p = Mine /\ op.on \in BOOLEAN /\ (~op.picks => op.token = None) /\ Mine \in Place
      BY <1>5 DEF AskedRight, OpRight, Place
    <2>4. /\ IsBackup(n) /\ n.id = gitMade + 1 /\ n.place = Mine /\ n.via = None /\ n.repo = op.repo
          /\ n.token = op.token /\ n.on = op.on /\ n.sync = "never"
      BY <2>1 DEF GitRow, IsBackup
    <2>5. PICK there : there = {r \in rows : r.place = op.place}
      OBVIOUS
    <2>6. there = {} /\ TokenKept(there) = None
      BY <1>5, <2>3, <2>5 DEF TokenKept
    <2>7. MayPush(op.on, op.token, TokenKept(there))
      BY <1>5, <2>5 DEF GitRefused
    <2>8. op.on => op.token # None
      BY <2>6, <2>7 DEF MayPush
    <2>9. op.token # None => <<n.repo, n.token>> \in picked'
      BY <1>5, <2>2, <2>3, <2>4
    <2>10. TokenRight(n)'
      BY <2>4, <2>8, <2>9 DEF TokenRight
    <2>11. NotesKept(Mine)'
      BY DEF Keeping, NotesRight, NotesKept
    <2> QED BY <1>5, <2>2, <2>3, <2>4, <2>10, <2>11, NewRow
  <1>6. CASE op.do \notin {"own", "grouped", "edit", "mine"}
    <2>1. rows' \subseteq rows
      BY <1>6 DEF RowsAfter, Decommissioned, RowOf
    <2> QED BY <2>1, FewerRows
  <1> QED BY <1>1, <1>2, <1>3, <1>4, <1>5, <1>6

LEMMA OneMoreEdit ==
  ASSUME NEW w \in GitActor, gitEdits \in [GitActor -> Nat], gitEdits' = [gitEdits EXCEPT ![w] = @ + 1]
  PROVE  gitEdits' \in [GitActor -> Nat]
  OBVIOUS

LEMMA LeavingIs ==
  ASSUME NEW op
  PROVE  /\ Leaving(op) \in SUBSET rows
         /\ op.do \notin {"remove", "unconn"} => Leaving(op) = {}
         /\ op.do = "remove" => \A r \in Leaving(op) : r.id = op.id
  <1>1. CASE op.do = "remove"
    BY <1>1 DEF Leaving, RowsAfter, Decommissioned, RowOf
  <1>2. CASE op.do # "remove"
    BY <1>2 DEF Leaving
  <1> QED BY <1>1, <1>2

LEMMA GitServed ==
  ASSUME RowsRight, NEW p \in PageId, NEW op, AskedRight(p, op), ~GitRefused(op), GitServe(p, op)
  PROVE  RowsRight' /\ GitMoved(p)
  <1>1. /\ rows' = RowsAfter(op) /\ conns' = ConnsAfter(op)
        /\ gitMade' = IF op.do \in {"own", "grouped", "mine", "conn"} THEN gitMade + 1 ELSE gitMade
        /\ notes' = IF op.do \in {"own", "grouped"} THEN [notes EXCEPT ![op.place].there = TRUE]
                    ELSE NotesWithout(Leaving(op))
        /\ gitEdits' = [gitEdits EXCEPT ![p] = @ + 1]
        /\ picked' = IF ~op.picks THEN picked
                     ELSE picked \cup {<<r.repo, r.token>> : r \in RowsAfter(op) \ rows}
        /\ erased' = erased \cup
                       {[was |-> r.id, shown |-> IF op.do = "remove" THEN op.id ELSE r.id,
                         said |-> op.said, place |-> r.place] : r \in {x \in Leaving(op) : x.place # Mine}}
    BY DEF GitServe
  <1>2. gitMade \in Nat /\ gitMade' \in Nat /\ gitMade <= gitMade'
    BY <1>1 DEF RowsRight
  <1>3. /\ NotesRight' /\ \A q \in Place : (NotesKept(q) => NotesKept(q)') /\ (HasCopy(q) => HasCopy(q)')
        /\ op.do \in {"own", "grouped"} => NotesKept(op.place)'
    <2>1. CASE op.do \in {"own", "grouped"}
      <3>1. op.place \in Place
        BY <2>1 DEF AskedRight, OpRight
      <3> QED BY <1>1, <2>1, <3>1, NotesThere
    <2>2. CASE op.do \notin {"own", "grouped"}
      BY <1>1, <2>2, LeavingIs, NotesWithoutKeeps
    <2> QED BY <2>1, <2>2
  <1>4. picked \subseteq picked' /\ (op.picks => \A r \in RowsAfter(op) \ rows : <<r.repo, r.token>> \in picked')
    BY <1>1
  <1>5. Keeping
    BY <1>2, <1>3, <1>4 DEF Keeping
  <1>6. RowsDone /\ RowsTraced /\ (p # Mine => MineStays)
    BY <1>1, <1>3, <1>4, <1>5, RowsServed
  <1>7. ConnsRight'
    BY <1>1, ConnsServed
  <1>8. \A e \in erased' : ErasedRight(e)'
    <2> SUFFICES ASSUME NEW e \in erased' PROVE ErasedRight(e)'
      OBVIOUS
    <2>1. CASE e \in erased
      BY <2>1, <1>5, ErasedStays
    <2>2. CASE e \notin erased
      <3>1. PICK r \in Leaving(op) : e = [was |-> r.id, shown |-> IF op.do = "remove" THEN op.id ELSE r.id,
                                          said |-> op.said, place |-> r.place]
        BY <1>1, <2>2
      <3>2. r \in rows /\ RowRight(r)
        BY <3>1, LeavingIs DEF RowsRight
      <3>3. e.place = r.place /\ e.was = r.id /\ e.shown = (IF op.do = "remove" THEN op.id ELSE r.id) /\ e.said = op.said
        BY <3>1
      <3>4. e.was = e.shown
        BY <3>1, <3>3, LeavingIs
      <3>5. r.place \in Place /\ NotesKept(r.place)'
        BY <3>2, <1>3 DEF RowRight
      <3>6. ASSUME op.said PROVE HasCopy(r.place)'
        <4>1. PICK s \in gitPages[p].shows.rows : s.id = op.id /\ s.sync = "ok" /\ op.do = "remove"
          BY <3>6 DEF AskedRight, OpRight
        <4>2. SeenRight(s) /\ r.id = s.id
          BY <3>1, <4>1, LeavingIs DEF AskedRight, SeenList
        <4>3. HasCopy(s.place) /\ r.place = s.place
          BY <3>2, <4>1, <4>2 DEF SeenRight
        <4> QED BY <1>3, <3>5, <4>3
      <3> QED BY <3>3, <3>4, <3>5, <3>6 DEF ErasedRight
    <2> QED BY <2>1, <2>2
  <1>9. gitEdits' \in [GitActor -> Nat]
    BY <1>1, OneMoreEdit DEF RowsRight, GitActor
  <1>10. RowsRight'
    BY <1>2, <1>3, <1>6, <1>7, <1>8, <1>9 DEF RowsRight, RowsDone, ConnsRight
  <1>11. GitMoved(p)
    BY <1>1, <1>2, <1>3, <1>6 DEF GitMoved, RowsGrow, RowsTraced
  <1> QED BY <1>10, <1>11

-----------------------------------------------------------------------------
(* The steps.                                                              *)

\* A page that waits for nothing is not about to read again.
LEMMA WaitsForNothing == ASSUME NEW p, NoCalls(p) PROVE ~GitDue(p) /\ \A c \in gitCalls : c.by # p
  BY Zenon DEF NoCalls, GitDue

\* What is read is what there is.
LEMMA ReadRight ==
  ASSUME RowsRight, NEW p \in PageId, NEW c, c = GitRead(p)
  PROVE  /\ c.by = p /\ c.kind = "read" /\ c.at = gitEdits /\ c.shows = GitRead(p).shows
         /\ SeenList(p, c.shows) /\ ReadAt(c.at) /\ RowsTold(p, c.shows, c.at)
  <1>1. PICK shows : shows = [rows |-> IF p = Mine THEN {r \in rows : r.place = Mine} ELSE rows,
                              conns |-> IF p = Mine THEN {} ELSE conns]
    OBVIOUS
  <1>2. c.by = p /\ c.kind = "read" /\ c.at = gitEdits /\ c.shows = shows
    BY <1>1 DEF GitRead
  <1>3. \A r \in shows.rows : r \in rows /\ (p = Mine => r.place = Mine)
    BY <1>1
  <1>4. SeenList(p, shows)
    BY <1>1, <1>3 DEF SeenList, SeenRight, RowsRight, RowRight, RowsApart
  <1>5. MineKnown(p, shows)
    <2> SUFFICES ASSUME p = Mine, NEW r \in rows, r.place = Mine, NEW s \in shows.rows PROVE s.id = r.id
      BY DEF MineKnown
    <2>1. s \in rows /\ s.place = Mine
      BY <1>3
    <2> QED BY <2>1 DEF RowsRight, RowsApart
  <1>6. ReadAt(gitEdits)
    BY DEF RowsRight, ReadAt
  <1> QED BY <1>2, <1>4, <1>5, <1>6 DEF RowsTold

\* A page asks, or is answered: nothing moves.
GitTurn(p, x, gone, more) ==
  /\ GitStill /\ picked' = picked /\ erased' = erased
  /\ gitPages' = [gitPages EXCEPT ![p] = x] \/ (gitPages' = gitPages /\ x = gitPages[p])
  /\ gitCalls' = (gitCalls \ gone) \cup more
  /\ x = [shows |-> x.shows, at |-> x.at, form |-> x.form]
  /\ x.form # None => x.form.place \in Place /\ (x.form.place = Mine <=> p = Mine)
  /\ \A c \in gitCalls : c.by = p <=> c \in gone
  /\ \A c \in more : c = GitRead(p) \/ (c.by = p /\ c.kind = "do")
  /\ \A c, d \in more : c = d
  /\ x.shows # None => SeenList(p, x.shows) /\ ReadAt(x.at) /\ (GitRead(p) \in more \/ RowsTold(p, x.shows, x.at))

LEMMA GitTurns ==
  ASSUME BackupsInv, NEW p \in PageId, NEW x, NEW gone, NEW more, GitTurn(p, x, gone, more)
  PROVE  BackupsInv'
  <1>1. RowsRight'
    BY DEF GitTurn, GitStill, BackupsInv, RowsRight, NotesRight, RowRight, RowsApart, ErasedRight, NotesKept, HasCopy
  <1>2. DOMAIN gitPages' = PageId /\ gitPages'[p] = x /\ \A u \in PageId : u # p => gitPages'[u] = gitPages[u]
    BY DEF GitTurn, BackupsInv, PagesRight
  <1>3. \A u, shows, at : /\ (SeenList(u, shows) <=> SeenList(u, shows)') /\ (ReadAt(at) <=> ReadAt(at)')
                         /\ (RowsTold(u, shows, at) <=> RowsTold(u, shows, at)')
    BY DEF GitTurn, GitStill, SeenList, SeenRight, HasCopy, ReadAt, RowsTold, OthersStill, MineKnown, GitRead
  <1>4. PICK r : r = GitRead(p)
    OBVIOUS
  <1>5. /\ r.by = p /\ r.kind = "read" /\ SeenList(p, r.shows) /\ ReadAt(r.at) /\ RowsTold(p, r.shows, r.at)
    BY <1>4, ReadRight DEF BackupsInv
  <1>6. \A c \in gitCalls' : (c.by = p <=> c \in more) /\ (c \notin more => c \in gitCalls)
    BY <1>4, <1>5 DEF GitTurn
  <1>7. \A c \in more : GitCallRight(c)'
    <2>1. GitCallRight(r)'
      BY <1>3, <1>5 DEF GitCallRight
    <2>2. ASSUME NEW c, c.by = p, c.kind = "do" PROVE GitCallRight(c)'
      BY <2>2 DEF GitCallRight
    <2> QED BY <1>4, <2>1, <2>2 DEF GitTurn
  <1>8. r \in more => GitDue(p)'
    BY <1>5 DEF GitDue, GitTurn
  <1>9. GitPageRight(p)'
    BY <1>2, <1>3, <1>4, <1>8 DEF GitPageRight, GitTurn
  <1>10. GitAlone(p)
    BY <1>2, <1>4, <1>5 DEF GitAlone, GitTurn
  <1>11. GitOwn(p)
    BY <1>1, <1>2, <1>6, <1>7, <1>9 DEF GitOwn, GitTurn
  <1> QED BY <1>10, <1>11, GitRest DEF GitActor

LEMMA GitTurnSteps ==
  ASSUME BackupsInv,
         \/ \E p \in PageId : OpensGit(p) \/ \E place \in Place : OpensForm(p, place)
         \/ \E c \in gitCalls : GitShown(c) \/ GitDone(c)
  PROVE  BackupsInv'
  <1>0. /\ DOMAIN gitPages = PageId /\ \A p \in PageId : GitPageRight(p)
        /\ \A c \in gitCalls : GitCallRight(c) /\ c.by \in PageId
        /\ \A c, d \in gitCalls : c.by = d.by => c = d
    BY DEF BackupsInv, PagesRight, GitCallRight
  <1>1. ASSUME NEW p \in PageId, OpensGit(p) PROVE BackupsInv'
    <2>1. /\ GitStill /\ picked' = picked /\ erased' = erased
          /\ gitPages' = [gitPages EXCEPT ![p] = Empty] /\ gitCalls' = (gitCalls \ {}) \cup {GitRead(p)}
      BY <1>1 DEF OpensGit, GitStill
    <2>2. \A c \in gitCalls : c.by # p
      BY <1>1, WaitsForNothing DEF OpensGit
    <2>3. Empty = [shows |-> Empty.shows, at |-> Empty.at, form |-> Empty.form] /\ Empty.shows = None /\ Empty.form = None
      BY DEF Empty
    <2>4. GitTurn(p, Empty, {}, {GitRead(p)})
      BY <2>1, <2>2, <2>3 DEF GitTurn
    <2> QED BY <2>4, GitTurns
  <1>2. ASSUME NEW p \in PageId, NEW place \in Place, OpensForm(p, place) PROVE BackupsInv'
    <2>1. PICK f : f = [mode |-> IF BackupOf(p, place) = {} THEN "setup" ELSE "edit", place |-> place]
      OBVIOUS
    <2>2. PICK x : x = [gitPages[p] EXCEPT !.form = f]
      OBVIOUS
    <2>3. /\ GitStill /\ picked' = picked /\ erased' = erased
          /\ gitPages' = [gitPages EXCEPT ![p] = x] /\ gitCalls' = (gitCalls \ {}) \cup {}
      BY <1>2, <2>1, <2>2 DEF OpensForm, GitStill
    <2>4. GitPageRight(p) /\ ~GitDue(p) /\ \A c \in gitCalls : c.by # p
      BY <1>0, <1>2, WaitsForNothing DEF OpensForm
    <2>5. /\ x = [shows |-> x.shows, at |-> x.at, form |-> x.form]
          /\ x.shows = gitPages[p].shows /\ x.at = gitPages[p].at /\ x.form = f
      BY <2>2, <2>4 DEF GitPageRight
    <2>6. f.place \in Place /\ (f.place = Mine <=> p = Mine)
      BY <1>2, <2>1 DEF OpensForm
    <2>7. GitTurn(p, x, {}, {})
      BY <2>3, <2>4, <2>5, <2>6 DEF GitTurn, GitPageRight
    <2> QED BY <2>7, GitTurns
  <1>3. ASSUME NEW c \in gitCalls, GitShown(c) PROVE BackupsInv'
    <2>1. PICK p \in PageId : p = c.by
      BY <1>0
    <2>2. PICK x : x = [gitPages[p] EXCEPT !.shows = c.shows, !.at = c.at]
      OBVIOUS
    <2>3. /\ GitStill /\ picked' = picked /\ erased' = erased
          /\ gitPages' = [gitPages EXCEPT ![p] = x] /\ gitCalls' = (gitCalls \ {c}) \cup {}
      BY <1>0, <1>3, <2>1, <2>2 DEF GitShown, GitStill
    <2>4. GitPageRight(p) /\ SeenList(p, c.shows) /\ ReadAt(c.at) /\ RowsTold(p, c.shows, c.at)
      BY <1>0, <1>3, <2>1 DEF GitShown, GitCallRight
    <2>5. /\ x = [shows |-> x.shows, at |-> x.at, form |-> x.form]
          /\ x.shows = c.shows /\ x.at = c.at /\ x.form = gitPages[p].form
      BY <2>2, <2>4 DEF GitPageRight
    <2>6. GitTurn(p, x, {c}, {})
      BY <1>0, <2>1, <2>3, <2>4, <2>5 DEF GitTurn, GitPageRight
    <2> QED BY <2>6, GitTurns
  <1>4. ASSUME NEW c \in gitCalls, GitDone(c) PROVE BackupsInv'
    <2>1. PICK p \in PageId : p = c.by
      BY <1>0
    <2>2. PICK x : x = IF c.ok /\ c.form THEN [gitPages[p] EXCEPT !.form = None] ELSE gitPages[p]
      OBVIOUS
    <2>3. PICK more : more = IF p = Mine /\ ~c.ok THEN {} ELSE {GitRead(p)}
      OBVIOUS
    <2>4. /\ GitStill /\ picked' = picked /\ erased' = erased
          /\ gitPages' = [gitPages EXCEPT ![p] = x] \/ (gitPages' = gitPages /\ x = gitPages[p])
          /\ gitCalls' = (gitCalls \ {c}) \cup more
      BY <1>4, <2>1, <2>2, <2>3 DEF GitDone, GitStill
    <2>5. GitPageRight(p)
      BY <1>0
    <2>6. /\ x = [shows |-> x.shows, at |-> x.at, form |-> x.form]
          /\ x.shows = gitPages[p].shows /\ x.at = gitPages[p].at /\ (x.form = None \/ x.form = gitPages[p].form)
      BY <2>2, <2>5 DEF GitPageRight
    <2>7. GitRead(p) \notin more => ~GitDue(p)
      BY <1>0, <1>4, <2>1, <2>3 DEF GitDue, GitDone
    <2>8. GitTurn(p, x, {c}, more)
      BY <1>0, <2>1, <2>3, <2>4, <2>5, <2>6, <2>7 DEF GitTurn, GitPageRight
    <2> QED BY <2>8, GitTurns
  <1> QED BY <1>1, <1>2, <1>3, <1>4

LEMMA GitClicks == ASSUME ~Hurried, BackupsInv, NEW p \in PageId, GitClick(p) PROVE BackupsInv'
  <1>1. /\ GitPageRight(p) /\ ~GitDue(p) /\ (\A c \in gitCalls : c.by # p)
        /\ gitPages[p].shows # None /\ gitPages' = gitPages
    BY WaitsForNothing DEF BackupsInv, PagesRight, GitClick
  <1>2. SeenList(p, gitPages[p].shows) /\ ReadAt(gitPages[p].at) /\ RowsTold(p, gitPages[p].shows, gitPages[p].at)
    BY <1>1 DEF GitPageRight
  <1>3. PICK op, asks :
          /\ op \in FormOps(p) \cup ClickOps(p)
          /\ asks = IF p = Mine /\ op.do = "own" THEN [op EXCEPT !.do = "mine"] ELSE op
          /\ op.picks \/ op.do \notin {"edit", "mine"} \/ AsShown(p, op)
          /\ GitServe(p, asks)
          /\ gitCalls' = gitCalls \cup
               {[by |-> p, kind |-> "do", ok |-> ~GitRefused(asks), form |-> op \in FormOps(p)]}
    BY DEF GitClick
  <1>4. OpRight(p, asks) /\ asks.picks = op.picks /\ (op.picks \/ asks = op)
    BY <1>1, <1>3, OpsRight
  <1>5. PICK c : c = [by |-> p, kind |-> "do", ok |-> ~GitRefused(asks), form |-> op \in FormOps(p)]
    OBVIOUS
  <1>6. c.by = p /\ c.kind = "do" /\ (c.ok <=> ~GitRefused(asks)) /\ gitCalls' = gitCalls \cup {c}
    BY <1>3, <1>5
  <1>7. CASE GitRefused(asks)
    <2>1. GitStill /\ picked' = picked /\ erased' = erased
      BY <1>3, <1>7 DEF GitServe, GitStill
    <2>2. gitCalls' = (gitCalls \ {}) \cup {c}
      BY <1>6
    <2>3. GitTurn(p, gitPages[p], {}, {c})
      BY <1>1, <1>2, <1>6, <2>1, <2>2 DEF GitTurn, GitPageRight
    <2> QED BY <2>3, GitTurns
  <1>8. CASE ~GitRefused(asks)
    <2>1. AskedRight(p, asks)
      BY <1>2, <1>3, <1>4 DEF AskedRight, RowsTold
    <2>2. RowsRight' /\ GitMoved(p)
      BY <1>3, <1>8, <2>1, GitServed DEF BackupsInv
    <2>3. SeenList(p, gitPages[p].shows)'
      <3>1. PICK shows : shows = gitPages[p].shows
        OBVIOUS
      <3>2. SeenList(p, shows)'
        BY <1>2, <2>2, <3>1, SeenStays DEF BackupsInv, GitMoved
      <3> QED BY <1>1, <3>1, <3>2
    <2>4. ReadAt(gitPages[p].at)'
      <3>1. PICK at : at = gitPages[p].at
        OBVIOUS
      <3>2. ReadAt(at)'
        BY <1>2, <2>2, <3>1, ReadBefore DEF BackupsInv, GitMoved, GitActor
      <3> QED BY <1>1, <3>1, <3>2
    <2>5. GitDue(p)'
      BY <1>6, <1>8 DEF GitDue
    <2>6. GitPageRight(p)'
      BY <1>1, <2>3, <2>4, <2>5 DEF GitPageRight
    <2>7. GitCallRight(c)'
      BY <1>6 DEF GitCallRight
    <2>8. GitAlone(p)
      BY <1>1, <1>6, <2>2 DEF GitAlone
    <2>9. GitOwn(p)
      BY <1>1, <1>6, <2>2, <2>6, <2>7 DEF GitOwn, BackupsInv, PagesRight
    <2> QED BY <2>8, <2>9, GitRest DEF GitActor
  <1> QED BY <1>7, <1>8

\* A push leaves a copy, or says that it did not.
LEMMA GitPushes == ASSUME BackupsInv, NEW r \in rows, Pushes(r) PROVE BackupsInv'
  <1>0. RowRight(r) /\ RowsRight
    BY DEF BackupsInv, RowsRight
  <1>1. PICK ok \in BOOLEAN :
          /\ rows' = (rows \ {r}) \cup {[r EXCEPT !.sync = IF ok THEN "ok" ELSE "bad"]}
          /\ notes' = IF ok THEN [notes EXCEPT ![r.place].copies = @ \cup {Remote(r)}] ELSE notes
    BY DEF Pushes
  <1>2. /\ gitEdits' = [gitEdits EXCEPT !["server"] = @ + 1]
        /\ UNCHANGED <<conns, gitMade, gitPages, gitCalls, picked, erased>>
    BY DEF Pushes
  <1>3. PICK s : s = IF ok THEN "ok" ELSE "bad"
    OBVIOUS
  <1>4. PICK n : n = [r EXCEPT !.sync = s]
    OBVIOUS
  <1>5. rows' = (rows \ {r}) \cup {n}
    BY <1>1, <1>3, <1>4
  <1>6. /\ IsBackup(n) /\ n.id = r.id /\ n.place = r.place /\ n.via = r.via /\ n.repo = r.repo /\ n.token = r.token
        /\ n.on = r.on /\ n.sync = s
    BY <1>0, <1>4 DEF RowRight, IsBackup
  <1>7. /\ NotesRight' /\ (ok => HasCopy(r.place)')
        /\ \A q \in Place : (NotesKept(q) => NotesKept(q)') /\ (HasCopy(q) => HasCopy(q)')
    <2>1. CASE ~ok
      BY <1>0, <1>1, <2>1 DEF RowsRight, NotesRight, NotesKept, HasCopy
    <2>2. CASE ok
      <3>1. PICK cs : cs = notes[r.place].copies \cup {Remote(r)}
        OBVIOUS
      <3>2. PICK x : x = [notes[r.place] EXCEPT !.copies = cs]
        OBVIOUS
      <3>3. notes' = [notes EXCEPT ![r.place] = x]
        BY <1>1, <2>2, <3>1, <3>2
      <3>4. r.place \in Place /\ DOMAIN notes = Place /\ Mine \in Place
        BY <1>0 DEF RowRight, RowsRight, NotesRight, Place
      <3>5. notes[r.place] = [there |-> notes[r.place].there, copies |-> notes[r.place].copies] /\ notes[r.place].there \in BOOLEAN
        BY <1>0, <3>4 DEF RowsRight, NotesRight
      <3>6. x = [there |-> notes[r.place].there, copies |-> cs]
        BY <3>2, <3>5
      <3>7. x.there = notes[r.place].there /\ x.copies = cs /\ cs # {} /\ x = [there |-> x.there, copies |-> x.copies]
        BY <3>1, <3>6
      <3>8. DOMAIN notes' = Place /\ \A q \in Place : notes'[q] = IF q = r.place THEN x ELSE notes[q]
        BY <3>3, <3>4
      <3>9. NotesRight'
        BY <1>0, <3>4, <3>5, <3>7, <3>8 DEF RowsRight, NotesRight
      <3>10. HasCopy(r.place)' /\ \A q \in Place : (NotesKept(q) => NotesKept(q)') /\ (HasCopy(q) => HasCopy(q)')
        BY <3>4, <3>7, <3>8 DEF NotesKept, HasCopy
      <3> QED BY <3>9, <3>10
    <2> QED BY <2>1, <2>2
  <1>8. Keeping
    BY <1>0, <1>2, <1>7 DEF Keeping, RowsRight
  <1>9. RowRight(n)'
    BY <1>0, <1>2, <1>3, <1>6, <1>7 DEF RowRight
  <1>10. \A q \in rows' : RowRight(q)' /\ (\E o \in rows : o.id = q.id /\ o.place = q.place /\ q = IF o = r THEN n ELSE o)
    BY <1>0, <1>5, <1>6, <1>8, <1>9, RowStays DEF RowsRight
  <1>11. RowsApart'
    BY <1>0, <1>10 DEF RowsRight, RowsApart
  <1>12. \A e \in erased' : ErasedRight(e)'
    BY <1>0, <1>2, <1>8, ErasedStays
  <1>13. "server" \in GitActor /\ "server" \notin PageId
    BY BossAssumption DEF GitActor, PageId, Mine
  <1>14. gitEdits' \in [GitActor -> Nat]
    BY <1>0, <1>2, <1>13, OneMoreEdit DEF RowsRight
  <1>15. RowsRight'
    BY <1>0, <1>2, <1>7, <1>10, <1>11, <1>12, <1>14 DEF RowsRight
  <1>16. GitMoved("server")
    BY <1>0, <1>2, <1>7, <1>8, <1>10 DEF GitMoved, RowsGrow, MineStays, Keeping
  <1>17. \A c \in gitCalls : c.by # "server"
    BY <1>13 DEF BackupsInv, PagesRight, GitCallRight
  <1>18. GitAlone("server") /\ GitOwn("server")
    BY <1>2, <1>13, <1>15, <1>16, <1>17 DEF GitAlone, GitOwn, BackupsInv, PagesRight
  <1> QED BY <1>13, <1>18, GitRest

LEMMA BackupsStart == ASSUME Init PROVE BackupsInv
  <1> SUFFICES ASSUME GitInit PROVE BackupsInv
    BY DEF Init
  <1>1. PICK n : n = GitRow(1, "t", None, "r", "r")
    OBVIOUS
  <1>2. /\ IsBackup(n) /\ n.id = 1 /\ n.place = "t" /\ n.via = None /\ n.repo = "r" /\ n.token = "r" /\ n.on = TRUE
        /\ n.sync = "never"
    BY <1>1 DEF GitRow, IsBackup
  <1>3. /\ rows = {n} /\ picked = {<<"r", "r">>} /\ conns = {} /\ gitMade = 1 /\ erased = {} /\ gitCalls = {}
        /\ notes = [q \in Place |-> [there |-> q # "v", copies |-> {}]]
        /\ gitPages = [p \in PageId |-> Empty] /\ gitEdits = [p \in GitActor |-> 0]
    BY <1>1 DEF GitInit, GitActor
  <1>4. NotesRight /\ NotesKept("t") /\ "t" \in Place
    BY <1>3 DEF NotesRight, NotesKept, Place, Mine
  <1>5. RowRight(n)
    <2>1. <<n.repo, n.token>> \in picked /\ n.token # None
      BY <1>2, <1>3, BossAssumption
    <2>2. NotesKept(n.place) /\ n.place \in Place /\ n.sync # "ok"
      BY <1>2, <1>4
    <2>3. IsBackup(n) /\ n.on \in BOOLEAN /\ n.id \in Nat /\ n.id <= gitMade
      <3>1. gitMade = 1
        BY <1>3
      <3>2. n.on \in BOOLEAN
        BY <1>1 DEF GitRow
      <3>3. IsBackup(n) /\ n.id = 1
        BY <1>2
      <3> QED BY <3>1, <3>2, <3>3
    <2> QED BY <2>1, <2>2, <2>3, Zenon DEF RowRight
  <1>6. PagesRight
    BY <1>3 DEF PagesRight, GitPageRight, Empty
  <1> QED BY <1>2, <1>3, <1>4, <1>5, <1>6 DEF BackupsInv, RowsRight, RowsApart

LEMMA BackupsStep == ASSUME ~Hurried, BackupsInv, [Next]_vars PROVE BackupsInv'
  <1>1. CASE UNCHANGED gitVars
    BY <1>1 DEF gitVars, BackupsInv, RowsRight, NotesRight, RowRight, RowsApart, ErasedRight, NotesKept, HasCopy,
                PagesRight, GitPageRight, GitCallRight, GitDue, SeenList, SeenRight, ReadAt, RowsTold, OthersStill,
                MineKnown, GitRead
  <1>2. CASE GitNext
    BY <1>2, GitTurnSteps, GitClicks, GitPushes DEF GitNext
  <1> QED BY <1>1, <1>2, GitSteps

LEMMA BackupsMean == ASSUME BackupsInv PROVE BackupsRight
  <1>1. CopyKept /\ RemovedAsSaid
    BY DEF BackupsInv, RowsRight, ErasedRight, NotesKept, HasCopy, CopyKept, RemovedAsSaid
  <1>2. TokensWherePicked
    BY DEF BackupsInv, RowsRight, RowRight, TokensWherePicked
  <1>3. GitListsTrue
    <2> SUFFICES ASSUME NEW p \in PageId, gitPages[p].shows # None, NoCalls(p),
                        \A w \in DOMAIN gitEdits \ {p} : gitEdits[w] = gitPages[p].at[w]
                 PROVE  gitPages[p].shows = GitRead(p).shows
      BY DEF GitListsTrue
    <2>1. RowsTold(p, gitPages[p].shows, gitPages[p].at)
      BY WaitsForNothing DEF BackupsInv, PagesRight, GitPageRight
    <2>2. OthersStill(p, gitPages[p].at)
      BY DEF OthersStill, BackupsInv, RowsRight
    <2> QED BY <2>1, <2>2 DEF RowsTold
  <1> QED BY <1>1, <1>2, <1>3 DEF BackupsRight

\* BackupsRight for any namespaces, pages, repositories and tokens (workspaces.go,
\* AdminGit.jsx, Settings.jsx), as long as nobody saves a row that somebody else has changed
\* since it was read: no notes go without a copy, no token goes where nobody sent it, a
\* removal takes what was shown, and a page that waits for nothing shows what there is.
THEOREM BackupsHold == ASSUME ~Hurried PROVE Spec => []BackupsRight
  <1>1. Init => BackupsInv
    BY BackupsStart
  <1>2. BackupsInv /\ [Next]_vars => BackupsInv'
    BY BackupsStep
  <1>3. BackupsInv => BackupsRight
    BY BackupsMean
  <1> QED BY <1>1, <1>2, <1>3, PTL DEF Spec

-----------------------------------------------------------------------------
LEMMA PlaceSteps == ASSUME [Next]_vars PROVE PlacesNext \/ UNCHANGED placeVars
  BY DEF Next, PageNext, ToolNext, RestNext, vars, restVars

-----------------------------------------------------------------------------
(* Places.                                                                 *)

\* A place, and a path in a workspace, is a sequence of names.
PathName == Root \cup Named
SomePath == Seq(PathName)

LEMMA UnderAt ==
  ASSUME NEW p \in SomePath, NEW d \in SomePath
  PROVE  Under(p, d) <=> Len(p) >= Len(d) /\ \A i \in 1 .. Len(d) : p[i] = d[i]
  <1>1. CASE Len(p) >= Len(d)
    <2>1. PICK s : s = SubSeq(p, 1, Len(d))
      OBVIOUS
    <2>2. s \in SomePath /\ Len(s) = Len(d) /\ \A i \in 1 .. Len(d) : s[i] = p[i]
      BY <1>1, <2>1, SubSeqProperties, LenProperties, ElementOfSeq DEF SomePath
    <2>3. s = d <=> \A i \in 1 .. Len(d) : p[i] = d[i]
      BY <2>2, SeqEqual DEF SomePath
    <2> QED BY <1>1, <2>1, <2>3 DEF Under
  <1>2. CASE ~(Len(p) >= Len(d))
    BY <1>2 DEF Under
  <1> QED BY <1>1, <1>2

\* What Rebase makes, name by name.
IsRebase(r, p, from, to) ==
  /\ r \in SomePath /\ Len(r) = Len(to) + Len(p) - Len(from)
  /\ \A i \in 1 .. Len(to) : r[i] = to[i]
  /\ \A i \in 1 .. Len(p) - Len(from) : r[Len(to) + i] = p[Len(from) + i]

LEMMA RebaseAt ==
  ASSUME NEW p \in SomePath, NEW from \in SomePath, NEW to \in SomePath, Under(p, from)
  PROVE  IsRebase(Rebase(p, from, to), p, from, to)
  <1>1. PICK s : s = SubSeq(p, Len(from) + 1, Len(p))
    OBVIOUS
  <1>2. Len(p) \in Nat /\ Len(from) \in Nat /\ Len(to) \in Nat /\ Len(p) >= Len(from)
    BY LenProperties DEF SomePath, Under
  <1>3. /\ s \in SomePath /\ Len(s) = Len(p) - Len(from)
        /\ \A i \in 1 .. Len(p) - Len(from) : s[i] = p[Len(from) + i]
    <2>1. \A i \in Len(from) + 1 .. Len(p) : p[i] \in PathName
      BY <1>2, ElementOfSeq DEF SomePath
    <2>2. /\ s \in Seq(PathName)
          /\ Len(s) = IF Len(from) + 1 <= Len(p) THEN Len(p) - (Len(from) + 1) + 1 ELSE 0
          /\ \A i \in 1 .. Len(p) - (Len(from) + 1) + 1 : s[i] = p[Len(from) + 1 + i - 1]
      BY <1>1, <1>2, <2>1, SubSeqProperties
    <2>3. \A i \in 1 .. Len(p) - Len(from) : i \in 1 .. Len(p) - (Len(from) + 1) + 1 /\ Len(from) + 1 + i - 1 = Len(from) + i
      BY <1>2
    <2> QED BY <1>2, <2>2, <2>3 DEF SomePath
  <1>4. PICK r : r = to \o s
    OBVIOUS
  <1>5. /\ r \in SomePath /\ Len(r) = Len(to) + Len(s)
        /\ \A i \in 1 .. Len(to) + Len(s) : r[i] = IF i <= Len(to) THEN to[i] ELSE s[i - Len(to)]
    BY <1>3, <1>4, ConcatProperties DEF SomePath
  <1>6. \A i \in 1 .. Len(p) - Len(from) : /\ Len(to) + i \in 1 .. Len(to) + Len(s) /\ ~(Len(to) + i <= Len(to))
                                           /\ Len(to) + i - Len(to) = i
    BY <1>2, <1>3
  <1>7. \A i \in 1 .. Len(p) - Len(from) : r[Len(to) + i] = p[Len(from) + i]
    BY <1>3, <1>5, <1>6
  <1>8. \A i \in 1 .. Len(to) : i \in 1 .. Len(to) + Len(s) /\ i <= Len(to)
    BY <1>2, <1>3
  <1>9. IsRebase(r, p, from, to)
    BY <1>2, <1>3, <1>5, <1>7, <1>8 DEF IsRebase
  <1> QED BY <1>1, <1>4, <1>9 DEF Rebase

LEMMA RebaseUnder ==
  ASSUME NEW p \in SomePath, NEW from \in SomePath, NEW to \in SomePath, Under(p, from)
  PROVE  Rebase(p, from, to) \in SomePath /\ Under(Rebase(p, from, to), to)
  <1>1. Len(p) \in Nat /\ Len(from) \in Nat /\ Len(to) \in Nat /\ Len(p) >= Len(from)
    BY LenProperties DEF SomePath, Under
  <1>2. PICK r : r = Rebase(p, from, to)
    OBVIOUS
  <1>3. IsRebase(r, p, from, to)
    BY <1>2, RebaseAt
  <1>4. r \in SomePath /\ Len(r) >= Len(to) /\ \A i \in 1 .. Len(to) : r[i] = to[i]
    BY <1>1, <1>3 DEF IsRebase
  <1> QED BY <1>2, <1>4, UnderAt

\* What is there and back is where it was.
LEMMA RebaseBack ==
  ASSUME NEW p \in SomePath, NEW from \in SomePath, NEW to \in SomePath, Under(p, from)
  PROVE  Rebase(Rebase(p, from, to), to, from) = p
  <1>1. Len(p) \in Nat /\ Len(from) \in Nat /\ Len(to) \in Nat /\ Len(p) >= Len(from)
    BY LenProperties DEF SomePath, Under
  <1>2. PICK r : r = Rebase(p, from, to)
    OBVIOUS
  <1>3. IsRebase(r, p, from, to) /\ r \in SomePath /\ Under(r, to)
    BY <1>2, RebaseAt, RebaseUnder
  <1>4. PICK t : t = Rebase(r, to, from)
    OBVIOUS
  <1>5. IsRebase(t, r, to, from)
    BY <1>3, <1>4, RebaseAt
  <1>6. /\ t \in SomePath /\ Len(t) = Len(from) + Len(r) - Len(to)
        /\ \A i \in 1 .. Len(from) : t[i] = from[i]
        /\ \A i \in 1 .. Len(r) - Len(to) : t[Len(from) + i] = r[Len(to) + i]
    BY <1>5 DEF IsRebase
  <1>7. Len(t) = Len(p) /\ Len(r) - Len(to) = Len(p) - Len(from)
    BY <1>1, <1>3, <1>6 DEF IsRebase
  <1>8. \A i \in 1 .. Len(from) : t[i] = p[i]
    BY <1>6, UnderAt
  <1>9. \A i \in 1 .. Len(p) - Len(from) : t[Len(from) + i] = p[Len(from) + i]
    BY <1>3, <1>6, <1>7 DEF IsRebase
  <1>10. ASSUME NEW i \in 1 .. Len(p) PROVE t[i] = p[i]
    <2>1. CASE i <= Len(from)
      BY <2>1, <1>1, <1>8
    <2>2. CASE i > Len(from)
      <3>1. PICK j : j = i - Len(from)
        OBVIOUS
      <3>2. j \in 1 .. Len(p) - Len(from) /\ Len(from) + j = i
        BY <3>1, <2>2, <1>1
      <3> QED BY <3>2, <1>9
    <2> QED BY <2>1, <2>2, <1>1
  <1> QED BY <1>2, <1>4, <1>6, <1>7, <1>10, SeqEqual DEF SomePath

LEMMA UnderItself == ASSUME NEW p \in SomePath PROVE Under(p, p) /\ \A to \in SomePath : Rebase(p, p, to) = to
  <1>1. Len(p) \in Nat /\ Under(p, p)
    BY UnderAt, LenProperties DEF SomePath
  <1>2. ASSUME NEW to \in SomePath PROVE Rebase(p, p, to) = to
    <2>1. PICK r : r = Rebase(p, p, to)
      OBVIOUS
    <2>2. IsRebase(r, p, p, to) /\ Len(to) \in Nat
      BY <1>1, <2>1, RebaseAt, LenProperties DEF SomePath
    <2>3. r \in SomePath /\ Len(r) = Len(to) /\ \A i \in 1 .. Len(r) : r[i] = to[i]
      BY <1>1, <2>2 DEF IsRebase
    <2> QED BY <2>1, <2>3, SeqEqual DEF SomePath
  <1> QED BY <1>1, <1>2

LEMMA UnderTrans ==
  ASSUME NEW p \in SomePath, NEW d \in SomePath, NEW e \in SomePath, Under(p, d), Under(d, e)
  PROVE  Under(p, e)
  <1>1. Len(p) \in Nat /\ Len(d) \in Nat /\ Len(e) \in Nat
    BY LenProperties DEF SomePath
  <1>2. Len(p) >= Len(d) /\ Len(d) >= Len(e) /\ (\A i \in 1 .. Len(d) : p[i] = d[i]) /\ (\A i \in 1 .. Len(e) : d[i] = e[i])
    BY UnderAt
  <1>3. Len(p) >= Len(e) /\ \A i \in 1 .. Len(e) : p[i] = e[i]
    BY <1>1, <1>2
  <1> QED BY <1>3, UnderAt

\* Of two places that something is under, one is under the other.
LEMMA UnderBoth ==
  ASSUME NEW p \in SomePath, NEW d \in SomePath, NEW e \in SomePath, Under(p, d), Under(p, e), Len(d) >= Len(e)
  PROVE  Under(d, e)
  <1>1. Len(p) \in Nat /\ Len(d) \in Nat /\ Len(e) \in Nat
    BY LenProperties DEF SomePath
  <1>2. (\A i \in 1 .. Len(d) : p[i] = d[i]) /\ (\A i \in 1 .. Len(e) : p[i] = e[i])
    BY UnderAt
  <1>3. \A i \in 1 .. Len(e) : d[i] = e[i]
    BY <1>1, <1>2
  <1> QED BY <1>3, UnderAt

LEMMA UnderSame ==
  ASSUME NEW p \in SomePath, NEW d \in SomePath, Under(p, d), Len(p) = Len(d)
  PROVE  p = d
  BY UnderAt, SeqEqual DEF SomePath

LEMMA ParentsAre ==
  ASSUME NEW q \in SomePath
  PROVE  \A d : d \in Parents(q) <=> d \in SomePath /\ Under(q, d) /\ 2 <= Len(d) /\ Len(d) < Len(q)
  <1>1. Len(q) \in Nat
    BY LenProperties DEF SomePath
  <1>2. ASSUME NEW n \in 0 .. Len(q)
        PROVE  /\ SubSeq(q, 1, n) \in SomePath /\ Len(SubSeq(q, 1, n)) = n
               /\ \A i \in 1 .. n : SubSeq(q, 1, n)[i] = q[i]
    <2>1. \A i \in 1 .. n : q[i] \in PathName
      BY <1>1, ElementOfSeq DEF SomePath
    <2>2. n \in Int /\ 1 \in Int
      BY <1>1
    <2>3. /\ SubSeq(q, 1, n) \in Seq(PathName) /\ Len(SubSeq(q, 1, n)) = IF 1 <= n THEN n - 1 + 1 ELSE 0
          /\ \A i \in 1 .. n - 1 + 1 : SubSeq(q, 1, n)[i] = q[1 + i - 1]
      BY <2>1, <2>2, SubSeqProperties
    <2> QED BY <1>1, <2>3 DEF SomePath
  <1>3. ASSUME NEW d \in Parents(q) PROVE d \in SomePath /\ Under(q, d) /\ 2 <= Len(d) /\ Len(d) < Len(q)
    <2>1. PICK n \in 2 .. Len(q) - 1 : d = SubSeq(q, 1, n)
      BY DEF Parents
    <2>2. n \in 0 .. Len(q)
      BY <1>1
    <2>3. d \in SomePath /\ Len(d) = n /\ \A i \in 1 .. n : d[i] = q[i]
      BY <2>1, <2>2, <1>2
    <2>4. d \in SomePath /\ Len(q) >= Len(d) /\ 2 <= Len(d) /\ Len(d) < Len(q) /\ \A i \in 1 .. Len(d) : q[i] = d[i]
      BY <1>1, <2>1, <2>3
    <2> QED BY <2>4, UnderAt
  <1>4. ASSUME NEW d \in SomePath, Under(q, d), 2 <= Len(d), Len(d) < Len(q) PROVE d \in Parents(q)
    <2>1. Len(d) \in 2 .. Len(q) - 1
      BY <1>1, <1>4, LenProperties DEF SomePath
    <2>2. SubSeq(q, 1, Len(d)) = d
      BY <1>4 DEF Under
    <2> QED BY <2>1, <2>2 DEF Parents
  <1> QED BY <1>3, <1>4

\* What a place's workspace is, and its path there.
LEMMA PlacePath ==
  ASSUME NEW n \in Root, NEW p \in SomePath
  PROVE  <<n>> \o p \in SomePath /\ Len(<<n>> \o p) = Len(p) + 1 /\ (<<n>> \o p)[1] = n /\ Tail(<<n>> \o p) = p
  <1>1. n \in PathName /\ <<n>> \in Seq(PathName) /\ Len(<<n>>) = 1 /\ <<n>>[1] = n /\ Len(p) \in Nat
    BY LenProperties DEF PathName, SomePath
  <1>2. PICK q : q = <<n>> \o p
    OBVIOUS
  <1>3. /\ q \in Seq(PathName) /\ Len(q) = 1 + Len(p)
        /\ \A i \in 1 .. 1 + Len(p) : q[i] = IF i <= 1 THEN <<n>>[i] ELSE p[i - 1]
    BY <1>1, <1>2, ConcatProperties DEF SomePath
  <1>4. q[1] = n /\ \A i \in 1 .. Len(p) : q[i + 1] = p[i]
    BY <1>1, <1>3
  <1>5. q # <<>>
    BY <1>1, <1>3
  <1>6. /\ Tail(q) \in Seq(PathName) /\ Len(Tail(q)) = Len(p) /\ \A i \in 1 .. Len(p) : Tail(q)[i] = p[i]
    BY <1>1, <1>3, <1>4, <1>5, HeadTailProperties
  <1>7. Tail(q) = p
    BY <1>6, SeqEqual DEF SomePath
  <1> QED BY <1>1, <1>2, <1>3, <1>4, <1>7 DEF SomePath

\* And the other way round.
LEMMA PathPlace ==
  ASSUME NEW q \in SomePath, Len(q) >= 1
  PROVE  Tail(q) \in SomePath /\ Len(Tail(q)) = Len(q) - 1 /\ <<q[1]>> \o Tail(q) = q
  <1>1. Len(q) \in Nat /\ q # <<>> /\ q[1] \in PathName
    BY LenProperties, ElementOfSeq DEF SomePath
  <1>2. Tail(q) \in Seq(PathName) /\ Len(Tail(q)) = Len(q) - 1 /\ \A i \in 1 .. Len(Tail(q)) : Tail(q)[i] = q[i + 1]
    BY <1>1, HeadTailProperties DEF SomePath
  <1>3. PICK r : r = <<q[1]>> \o Tail(q)
    OBVIOUS
  <1>4. <<q[1]>> \in Seq(PathName) /\ Len(<<q[1]>>) = 1 /\ <<q[1]>>[1] = q[1]
    BY <1>1
  <1>5. /\ r \in Seq(PathName) /\ Len(r) = Len(q)
        /\ \A i \in 1 .. Len(q) : r[i] = IF i <= 1 THEN <<q[1]>>[i] ELSE Tail(q)[i - 1]
    <2>1. /\ r \in Seq(PathName) /\ Len(r) = 1 + Len(Tail(q))
          /\ \A i \in 1 .. 1 + Len(Tail(q)) : r[i] = IF i <= 1 THEN <<q[1]>>[i] ELSE Tail(q)[i - 1]
      BY <1>2, <1>3, <1>4, ConcatProperties
    <2>2. 1 + Len(Tail(q)) = Len(q)
      BY <1>1, <1>2
    <2> QED BY <2>1, <2>2
  <1>6. ASSUME NEW i \in 1 .. Len(q) PROVE r[i] = q[i]
    <2>1. CASE i = 1
      BY <2>1, <1>1, <1>4, <1>5
    <2>2. CASE i > 1
      BY <2>2, <1>1, <1>2, <1>5
    <2> QED BY <2>1, <2>2, <1>1
  <1> QED BY <1>2, <1>3, <1>5, <1>6, SeqEqual DEF SomePath

\* In one workspace it is all one whether places or paths are compared and moved.
Along(n, m, p, d, to) == Rebase(<<n>> \o p, <<n>> \o d, <<m>> \o to) = <<m>> \o Rebase(p, d, to)

LEMMA PlaceUnder ==
  ASSUME NEW n \in Root, NEW p \in SomePath, NEW d \in SomePath, NEW to \in SomePath
  PROVE  /\ Under(<<n>> \o p, <<n>> \o d) <=> Under(p, d)
         /\ \A m \in Root : Under(p, d) => Along(n, m, p, d, to)
  <1>1. /\ Len(p) \in Nat /\ Len(d) \in Nat /\ Len(to) \in Nat
        /\ \A m \in Root : m \in PathName /\ <<m>> \in Seq(PathName) /\ Len(<<m>>) = 1 /\ <<m>>[1] = m
    BY LenProperties DEF PathName, SomePath
  <1>2. ASSUME NEW m \in Root, NEW r \in SomePath
        PROVE  /\ <<m>> \o r \in SomePath /\ Len(<<m>> \o r) = 1 + Len(r) /\ (<<m>> \o r)[1] = m
               /\ \A i \in 1 .. Len(r) : (<<m>> \o r)[i + 1] = r[i]
    <2>0. Len(r) \in Nat
      BY LenProperties DEF SomePath
    <2>1. /\ <<m>> \o r \in Seq(PathName) /\ Len(<<m>> \o r) = 1 + Len(r)
          /\ \A i \in 1 .. 1 + Len(r) : (<<m>> \o r)[i] = IF i <= 1 THEN <<m>>[i] ELSE r[i - 1]
      BY <1>1, ConcatProperties DEF SomePath
    <2> QED BY <1>1, <2>0, <2>1 DEF SomePath
  <1>3. PICK q, e : q = <<n>> \o p /\ e = <<n>> \o d
    OBVIOUS
  <1>4. /\ q \in SomePath /\ e \in SomePath /\ Len(q) = 1 + Len(p) /\ Len(e) = 1 + Len(d) /\ q[1] = n /\ e[1] = n
        /\ (\A i \in 1 .. Len(p) : q[i + 1] = p[i]) /\ (\A i \in 1 .. Len(d) : e[i + 1] = d[i])
    BY <1>2, <1>3
  <1>5. Under(q, e) <=> Under(p, d)
    <2>1. Under(p, d) <=> Len(p) >= Len(d) /\ \A i \in 1 .. Len(d) : p[i] = d[i]
      BY UnderAt
    <2>2. Under(q, e) <=> Len(q) >= Len(e) /\ \A i \in 1 .. Len(e) : q[i] = e[i]
      BY <1>4, UnderAt
    <2>3. ASSUME Under(p, d) PROVE Under(q, e)
      <3>1. Len(q) >= Len(e)
        BY <1>1, <1>4, <2>1, <2>3
      <3>2. ASSUME NEW i \in 1 .. Len(e) PROVE q[i] = e[i]
        <4>1. CASE i = 1
          BY <4>1, <1>4
        <4>2. CASE i > 1
          <5>1. i - 1 \in 1 .. Len(d) /\ i - 1 \in 1 .. Len(p) /\ (i - 1) + 1 = i
            BY <4>2, <1>1, <1>4, <2>1, <2>3
          <5>2. q[(i - 1) + 1] = p[i - 1] /\ e[(i - 1) + 1] = d[i - 1]
            BY <5>1, <1>4
          <5> QED BY <5>1, <5>2, <2>1, <2>3
        <4> QED BY <4>1, <4>2, <1>1, <1>4
      <3> QED BY <3>1, <3>2, <2>2
    <2>4. ASSUME Under(q, e) PROVE Under(p, d)
      <3>1. Len(p) >= Len(d)
        BY <1>1, <1>4, <2>2, <2>4
      <3>2. ASSUME NEW i \in 1 .. Len(d) PROVE p[i] = d[i]
        <4>1. i + 1 \in 1 .. Len(e) /\ i \in 1 .. Len(p)
          BY <1>1, <1>4, <3>1
        <4> QED BY <4>1, <1>4, <2>2, <2>4
      <3> QED BY <3>1, <3>2, <2>1
    <2> QED BY <2>3, <2>4
  <1>6. ASSUME NEW m \in Root, Under(p, d) PROVE Rebase(q, e, <<m>> \o to) = <<m>> \o Rebase(p, d, to)
    <2>1. PICK r : r = Rebase(p, d, to)
      OBVIOUS
    <2>2. Len(p) >= Len(d) /\ Len(q) >= Len(e)
      BY <1>1, <1>4, <1>6 DEF Under
    <2>0. IsRebase(r, p, d, to)
      BY <1>6, <2>1, RebaseAt
    <2>3. /\ r \in SomePath /\ Len(r) = Len(to) + Len(p) - Len(d)
          /\ \A i \in 1 .. Len(to) : r[i] = to[i]
          /\ \A i \in 1 .. Len(p) - Len(d) : r[Len(to) + i] = p[Len(d) + i]
      BY <2>0 DEF IsRebase
    <2>4. PICK t, u, s : t = <<m>> \o to /\ u = Rebase(q, e, t) /\ s = <<m>> \o r
      OBVIOUS
    <2>5. /\ t \in SomePath /\ Len(t) = 1 + Len(to) /\ t[1] = m /\ \A i \in 1 .. Len(to) : t[i + 1] = to[i]
      BY <1>2, <2>4
    <2>6. /\ s \in SomePath /\ Len(s) = 1 + Len(r) /\ s[1] = m /\ \A i \in 1 .. Len(r) : s[i + 1] = r[i]
      BY <1>2, <2>3, <2>4
    <2>10. IsRebase(u, q, e, t)
      BY <1>4, <1>5, <1>6, <2>4, <2>5, RebaseAt
    <2>7. /\ u \in SomePath /\ Len(u) = Len(t) + Len(q) - Len(e)
          /\ \A i \in 1 .. Len(t) : u[i] = t[i]
          /\ \A i \in 1 .. Len(q) - Len(e) : u[Len(t) + i] = q[Len(e) + i]
      BY <2>10 DEF IsRebase
    <2>8. Len(u) = Len(s)
      BY <1>1, <1>4, <2>3, <2>5, <2>6, <2>7
    <2>9. ASSUME NEW i \in 1 .. Len(u) PROVE u[i] = s[i]
      <3>1. CASE i = 1
        BY <3>1, <1>1, <2>5, <2>6, <2>7
      <3>2. CASE i > 1 /\ i <= Len(t)
        <4>1. i - 1 \in 1 .. Len(to) /\ i - 1 \in 1 .. Len(r) /\ (i - 1) + 1 = i
          BY <3>2, <1>1, <2>2, <2>3, <2>5
        <4>2. t[(i - 1) + 1] = to[i - 1] /\ s[(i - 1) + 1] = r[i - 1] /\ r[i - 1] = to[i - 1]
          BY <4>1, <2>3, <2>5, <2>6
        <4>3. u[i] = t[i]
          BY <3>2, <1>1, <2>5, <2>7
        <4> QED BY <4>1, <4>2, <4>3
      <3>3. CASE i > Len(t)
        <4>1. PICK j : j = i - Len(t)
          OBVIOUS
        <4>2. /\ j \in 1 .. Len(q) - Len(e) /\ j \in 1 .. Len(p) - Len(d) /\ Len(t) + j = i
              /\ Len(d) + j \in 1 .. Len(p) /\ Len(e) + j = (Len(d) + j) + 1
              /\ Len(to) + j \in 1 .. Len(r) /\ (Len(to) + j) + 1 = i
          BY <3>3, <4>1, <1>1, <1>4, <2>2, <2>3, <2>5, <2>7
        <4>3. u[Len(t) + j] = q[Len(e) + j] /\ q[(Len(d) + j) + 1] = p[Len(d) + j]
          BY <4>2, <1>4, <2>7
        <4>4. s[(Len(to) + j) + 1] = r[Len(to) + j] /\ r[Len(to) + j] = p[Len(d) + j]
          BY <4>2, <2>3, <2>6
        <4> QED BY <4>2, <4>3, <4>4
      <3> QED BY <3>1, <3>2, <3>3, <1>1, <2>5, <2>7
    <2> QED BY <2>1, <2>4, <2>6, <2>7, <2>8, <2>9, SeqEqual DEF SomePath
  <1> QED BY <1>3, <1>5, <1>6 DEF Along

\* A folder on the way to where something goes is where a folder on the way to it goes.
LEMMA RebasePrefix ==
  ASSUME NEW p \in SomePath, NEW from \in SomePath, NEW to \in SomePath, Under(p, from),
         NEW r, r = Rebase(p, from, to), NEW d \in SomePath, Under(r, d), Under(d, to), Len(d) < Len(r),
         NEW e, e = Rebase(d, to, from)
  PROVE  Under(p, e) /\ Len(e) \in Nat /\ Len(e) >= Len(from) /\ Len(e) < Len(p) /\ e \in SomePath
  <1>1. /\ Len(p) \in Nat /\ Len(from) \in Nat /\ Len(to) \in Nat /\ Len(d) \in Nat
        /\ Len(p) >= Len(from) /\ Len(d) >= Len(to)
    BY LenProperties DEF SomePath, Under
  <1>2. IsRebase(r, p, from, to) /\ IsRebase(e, d, to, from)
    BY RebaseAt
  <1>3. /\ r \in SomePath /\ Len(r) = Len(to) + Len(p) - Len(from)
        /\ \A i \in 1 .. Len(p) - Len(from) : r[Len(to) + i] = p[Len(from) + i]
    BY <1>2 DEF IsRebase
  <1>4. /\ e \in SomePath /\ Len(e) = Len(from) + Len(d) - Len(to)
        /\ \A i \in 1 .. Len(from) : e[i] = from[i]
        /\ \A i \in 1 .. Len(d) - Len(to) : e[Len(from) + i] = d[Len(to) + i]
    BY <1>2 DEF IsRebase
  <1>5. Len(e) \in Nat /\ Len(e) >= Len(from) /\ Len(e) < Len(p)
    BY <1>1, <1>3, <1>4
  <1>6. ASSUME NEW i \in 1 .. Len(e) PROVE p[i] = e[i]
    <2>1. CASE i <= Len(from)
      <3>1. i \in 1 .. Len(from)
        BY <2>1, <1>1, <1>5
      <3> QED BY <3>1, <1>4, UnderAt
    <2>2. CASE i > Len(from)
      <3>1. PICK j : j = i - Len(from)
        OBVIOUS
      <3>2. /\ j \in 1 .. Len(d) - Len(to) /\ j \in 1 .. Len(p) - Len(from) /\ Len(from) + j = i
            /\ Len(to) + j \in 1 .. Len(d)
        BY <3>1, <2>2, <1>1, <1>3, <1>4, <1>5
      <3>3. r[Len(to) + j] = d[Len(to) + j]
        BY <3>2, <1>3, UnderAt
      <3> QED BY <3>2, <3>3, <1>3, <1>4
    <2> QED BY <2>1, <2>2, <1>1, <1>5
  <1>7. Under(p, e)
    <2>1. e \in SomePath /\ Len(p) >= Len(e)
      BY <1>1, <1>4, <1>5
    <2>2. Under(p, e) <=> Len(p) >= Len(e) /\ \A i \in 1 .. Len(e) : p[i] = e[i]
      BY <2>1, UnderAt
    <2> QED BY <2>1, <2>2, <1>6
  <1> QED BY <1>4, <1>5, <1>7

-----------------------------------------------------------------------------
(* The tree.                                                               *)

IsPlace(q) == q \in SomePath /\ Len(q) \in Nat /\ Len(q) >= 2

\* Whatever is in a tree is in folders of it.
IsTree(f) ==
  \A q \in DOMAIN f :
    q \in SomePath /\ Len(q) >= 1 /\ \A d \in Parents(q) : d \in DOMAIN f /\ f[d] = Folder

TreeRight ==
  /\ IsTree(files)
  /\ \A q \in DOMAIN files : <<q, files[q]>> \in been
  /\ \A b \in been : b[1] \in SomePath /\ Len(b[1]) >= 1

Has(f, q, x) == q \in DOMAIN f /\ f[q] = x

LEMMA InTree ==
  ASSUME NEW f, IsTree(f), NEW q \in DOMAIN f, NEW d, IsPlace(d), Under(q, d)
  PROVE  d \in DOMAIN f /\ (d # q => f[d] = Folder)
  <1>1. q \in SomePath /\ d \in SomePath /\ Len(q) \in Nat /\ Len(d) \in Nat /\ 2 <= Len(d) /\ Len(q) >= Len(d)
    BY LenProperties DEF IsTree, IsPlace, SomePath, Under
  <1>2. CASE Len(q) = Len(d)
    BY <1>1, <1>2, UnderSame
  <1>3. CASE Len(d) < Len(q)
    <2>1. d \in Parents(q)
      BY <1>1, <1>3, ParentsAre
    <2> QED BY <2>1 DEF IsTree
  <1> QED BY <1>1, <1>2, <1>3

\* A folder's folders are folders of what is in it.
LEMMA ParentsOfParent ==
  ASSUME NEW q \in SomePath, NEW d \in Parents(q), NEW e \in Parents(d)
  PROVE  e \in Parents(q) /\ e # q /\ d # q
  <1>1. /\ d \in SomePath /\ Under(q, d) /\ 2 <= Len(d) /\ Len(d) < Len(q)
    BY ParentsAre
  <1>2. /\ e \in SomePath /\ Under(d, e) /\ 2 <= Len(e) /\ Len(e) < Len(d)
    BY <1>1, ParentsAre
  <1>3. Len(q) \in Nat /\ Len(d) \in Nat /\ Len(e) \in Nat
    BY <1>1, <1>2, LenProperties DEF SomePath
  <1>4. Under(q, e)
    BY <1>1, <1>2, UnderTrans
  <1>5. Len(e) < Len(q)
    BY <1>1, <1>2, <1>3
  <1> QED BY <1>1, <1>2, <1>4, <1>5, ParentsAre

LEMMA AddedAt ==
  ASSUME NEW q, NEW text, NEW f, f = Added(q, text)
  PROVE  /\ DOMAIN f = DOMAIN files \cup Parents(q) \cup {q}
         /\ \A p \in DOMAIN files : Has(f, p, files[p])
         /\ \A p \in Parents(q) : p \notin DOMAIN files /\ p # q => f[p] = Folder
  BY DEF Added, Has

LEMMA AddedTree ==
  ASSUME IsTree(files), NEW q, IsPlace(q), NEW text, CanMake(q, text), NEW f, f = Added(q, text)
  PROVE  IsTree(f) /\ \A p \in DOMAIN files : Has(f, p, files[p])
  <1>1. /\ DOMAIN f = DOMAIN files \cup Parents(q) \cup {q}
        /\ \A p \in DOMAIN files : Has(f, p, files[p])
        /\ \A p \in Parents(q) : p \notin DOMAIN files /\ p # q => f[p] = Folder
    BY AddedAt
  <1>2. q \in SomePath /\ Len(q) \in Nat /\ Len(q) >= 1
    BY DEF IsPlace
  <1>3. \A d \in Parents(q) : d \in SomePath /\ Len(d) >= 1 /\ d # q
    <2>1. \A d \in Parents(q) : d \in SomePath /\ 2 <= Len(d) /\ Len(d) < Len(q)
      BY <1>2, ParentsAre
    <2>2. \A d \in Parents(q) : Len(d) \in Nat
      BY <2>1, LenProperties DEF SomePath
    <2> QED BY <1>2, <2>1, <2>2
  <1>4. \A d \in Parents(q) : d \in DOMAIN f /\ f[d] = Folder
    <2>1. \A d \in Parents(q) : d \in DOMAIN files => files[d] = Folder
      BY DEF CanMake, Vacant, IsTree
    <2> QED BY <1>1, <1>3, <2>1 DEF Has
  <1>5. ASSUME NEW p \in DOMAIN f
        PROVE  p \in SomePath /\ Len(p) >= 1 /\ \A d \in Parents(p) : d \in DOMAIN f /\ f[d] = Folder
    <2>1. CASE p \in DOMAIN files
      BY <2>1, <1>1 DEF IsTree, Has
    <2>2. CASE p \in Parents(q)
      BY <2>2, <1>2, <1>3, <1>4, ParentsOfParent
    <2>3. CASE p = q
      BY <2>3, <1>2, <1>4
    <2> QED BY <1>1, <2>1, <2>2, <2>3
  <1> QED BY <1>1, <1>5 DEF IsTree

LEMMA DroppedTree ==
  ASSUME NEW g, IsTree(g), NEW from \in SomePath, NEW f, f = Dropped(g, from)
  PROVE  IsTree(f) /\ (\A p \in DOMAIN g : ~Under(p, from) => Has(f, p, g[p]))
  <1>1. DOMAIN f = {q \in DOMAIN g : ~Under(q, from)} /\ \A q \in DOMAIN f : f[q] = g[q]
    BY DEF Dropped
  <1>2. ASSUME NEW q \in DOMAIN f, NEW d \in Parents(q) PROVE d \in DOMAIN f /\ f[d] = Folder
    <2>1. q \in SomePath /\ q \in DOMAIN g /\ d \in DOMAIN g /\ g[d] = Folder /\ d \in SomePath /\ Under(q, d)
      BY <1>1, ParentsAre DEF IsTree
    <2>2. ~Under(d, from)
      BY <1>1, <2>1, UnderTrans
    <2> QED BY <1>1, <2>1, <2>2
  <1> QED BY <1>1, <1>2 DEF IsTree, Has

LEMMA CopiedAt ==
  ASSUME NEW from, NEW to, NEW f, f = Copied(from, to)
  PROVE  /\ DOMAIN f = DOMAIN files \cup Parents(to) \cup {Rebase(p, from, to) : p \in {p \in DOMAIN files : Under(p, from)}}
         /\ \A p \in DOMAIN files : Has(f, p, files[p])
         /\ \A p \in DOMAIN f : p \notin DOMAIN files =>
              /\ Under(p, to) => f[p] = files[Rebase(p, to, from)]
              /\ ~Under(p, to) => f[p] = Folder
  BY DEF Copied, Has

\* What goes to `to`.
LEMMA WhatGoes ==
  ASSUME IsTree(files), NEW from, NEW to, IsPlace(from), IsPlace(to), Fits(from, to),
         NEW f, f = Copied(from, to), NEW p \in DOMAIN files, Under(p, from), NEW r, r = Rebase(p, from, to)
  PROVE  /\ r \in SomePath /\ Under(r, to) /\ r \notin DOMAIN files /\ Has(f, r, files[p]) /\ ~Under(r, from)
  <1>1. p \in SomePath /\ from \in SomePath /\ to \in SomePath
    BY DEF IsTree, IsPlace
  <1>2. r \in SomePath /\ Under(r, to) /\ Rebase(r, to, from) = p
    BY <1>1, RebaseUnder, RebaseBack
  <1>3. to \notin DOMAIN files /\ from \in DOMAIN files /\ ~Under(to, from)
    BY DEF Fits, Vacant
  <1>4. r \notin DOMAIN files
    BY <1>2, <1>3, InTree
  <1>5. r \in DOMAIN f
    BY CopiedAt
  <1>6. f[r] = files[p]
    BY <1>2, <1>4, <1>5, CopiedAt
  <1>7. ~Under(r, from)
    <2> SUFFICES ASSUME Under(r, from) PROVE FALSE
      OBVIOUS
    <2>1. CASE Len(to) >= Len(from)
      BY <2>1, <1>1, <1>2, <1>3, UnderBoth
    <2>2. CASE Len(from) >= Len(to)
      <3>1. Under(from, to)
        BY <2>2, <1>1, <1>2, UnderBoth
      <3> QED BY <3>1, <1>3, InTree
    <2> QED BY <2>1, <2>2 DEF IsPlace
  <1> QED BY <1>2, <1>4, <1>5, <1>6, <1>7 DEF Has

LEMMA CopiedTree ==
  ASSUME IsTree(files), NEW from, NEW to, IsPlace(from), IsPlace(to), Fits(from, to), NEW f, f = Copied(from, to)
  PROVE  IsTree(f) /\ \A p \in DOMAIN files : Has(f, p, files[p])
  <1>1. /\ DOMAIN f = DOMAIN files \cup Parents(to) \cup {Rebase(p, from, to) : p \in {p \in DOMAIN files : Under(p, from)}}
        /\ \A p \in DOMAIN files : Has(f, p, files[p])
        /\ \A p \in DOMAIN f : p \notin DOMAIN files => (~Under(p, to) => f[p] = Folder)
    BY CopiedAt
  <1>2. to \in SomePath /\ from \in SomePath /\ Len(to) \in Nat /\ Len(from) \in Nat /\ Len(to) >= 2 /\ Len(from) >= 2
    BY DEF IsPlace
  <1>3. \A d \in Parents(to) : d \in SomePath /\ Len(d) >= 1 /\ ~Under(d, to)
    <2>1. \A d \in Parents(to) : d \in SomePath /\ 2 <= Len(d) /\ Len(d) < Len(to)
      BY <1>2, ParentsAre
    <2>2. \A d \in Parents(to) : Len(d) \in Nat
      BY <2>1, LenProperties DEF SomePath
    <2> QED BY <1>2, <2>1, <2>2 DEF Under
  <1>4. \A d \in Parents(to) : d \in DOMAIN f /\ f[d] = Folder
    <2>1. \A d \in Parents(to) : d \in DOMAIN files => files[d] = Folder
      BY DEF Fits, Vacant
    <2> QED BY <1>1, <1>3, <2>1 DEF Has
  <1>5. ASSUME NEW p \in DOMAIN files, Under(p, from), NEW r, r = Rebase(p, from, to)
        PROVE  r \in SomePath /\ Len(r) >= 1 /\ \A d \in Parents(r) : d \in DOMAIN f /\ f[d] = Folder
    <2>1. p \in SomePath /\ r \in SomePath /\ Under(r, to)
      BY <1>5, WhatGoes DEF IsTree
    <2>2. Len(r) \in Nat /\ Len(r) >= 1
      BY <2>1, <1>2, LenProperties DEF SomePath, Under
    <2>3. ASSUME NEW d \in Parents(r) PROVE d \in DOMAIN f /\ f[d] = Folder
      <3>1. d \in SomePath /\ Under(r, d) /\ 2 <= Len(d) /\ Len(d) < Len(r)
        BY <2>1, ParentsAre
      <3>2. Len(d) \in Nat
        BY <3>1, LenProperties DEF SomePath
      <3>3. CASE Len(d) < Len(to)
        <4>1. Under(to, d)
          BY <3>1, <3>2, <3>3, <2>1, <1>2, UnderBoth
        <4> QED BY <3>1, <3>3, <4>1, <1>2, <1>4, ParentsAre
      <3>4. CASE Len(d) >= Len(to)
        <4>1. Under(d, to)
          BY <3>1, <3>4, <2>1, <1>2, UnderBoth
        <4>2. PICK e : e = Rebase(d, to, from)
          OBVIOUS
        <4>3. e \in SomePath /\ Under(e, from) /\ Rebase(e, from, to) = d
          BY <3>1, <4>1, <4>2, <1>2, RebaseUnder, RebaseBack
        <4>4. Under(p, e) /\ Len(e) \in Nat /\ Len(e) >= Len(from) /\ Len(e) < Len(p) /\ e \in SomePath
          BY <1>5, <2>1, <3>1, <4>1, <4>2, <1>2, RebasePrefix
        <4>6. e # p /\ IsPlace(e)
          BY <4>4, <1>2, LenProperties DEF IsPlace
        <4>5. e \in DOMAIN files /\ files[e] = Folder
          BY <4>4, <4>6, InTree
        <4> QED BY <4>3, <4>5, WhatGoes DEF Has
      <3> QED BY <3>2, <3>3, <3>4, <1>2
    <2> QED BY <2>1, <2>2, <2>3
  <1>6. ASSUME NEW p \in DOMAIN f
        PROVE  p \in SomePath /\ Len(p) >= 1 /\ \A d \in Parents(p) : d \in DOMAIN f /\ f[d] = Folder
    <2>1. CASE p \in DOMAIN files
      BY <2>1, <1>1 DEF IsTree, Has
    <2>2. CASE p \in Parents(to)
      BY <2>2, <1>2, <1>3, <1>4, ParentsOfParent
    <2>3. CASE p \in {Rebase(q, from, to) : q \in {q \in DOMAIN files : Under(q, from)}}
      BY <2>3, <1>5
    <2> QED BY <1>1, <2>1, <2>2, <2>3
  <1> QED BY <1>1, <1>6 DEF IsTree

LEMMA BecomesTree ==
  ASSUME TreeRight, NEW f, IsTree(f), Becomes(f)
  PROVE  TreeRight' /\ been \subseteq been' /\ files' = f
  <1>1. files' = f /\ been' = been \cup {<<q, f[q]>> : q \in DOMAIN f}
    BY DEF Becomes
  <1>2. \A b \in been' : b[1] \in SomePath /\ Len(b[1]) >= 1
    <2>1. \A q \in DOMAIN f : <<q, f[q]>>[1] = q /\ q \in SomePath /\ Len(q) >= 1
      BY DEF IsTree
    <2> QED BY <1>1, <2>1 DEF TreeRight
  <1> QED BY <1>1, <1>2 DEF TreeRight, IsTree

LEMMA StaysTree == ASSUME TreeRight, Stays PROVE TreeRight' /\ been \subseteq been' /\ files' = files
  BY DEF TreeRight, IsTree, Stays

\* A transfer leaves everything where it is, but for what goes with it.
LEMMA TransferTree ==
  ASSUME TreeRight, NEW from, NEW to, IsPlace(from), IsPlace(to), NEW mode, Transfers(mode, from, to)
  PROVE  /\ TreeRight' /\ been \subseteq been'
         /\ \A q \in DOMAIN files :
              /\ mode = "copy" \/ ~Fits(from, to) \/ ~Under(q, from) => Has(files', q, files[q])
              /\ mode # "copy" /\ Fits(from, to) /\ Under(q, from) => Has(files', Rebase(q, from, to), files[q])
  <1>1. CASE ~Fits(from, to)
    BY <1>1, StaysTree DEF Transfers, Has
  <1>2. CASE Fits(from, to)
    <2>1. PICK c : c = Copied(from, to)
      OBVIOUS
    <2>2. IsTree(c) /\ \A q \in DOMAIN files : Has(c, q, files[q])
      BY <1>2, <2>1, CopiedTree DEF TreeRight
    <2>3. CASE mode = "copy"
      <3>1. Becomes(c)
        BY <1>2, <2>1, <2>3 DEF Transfers
      <3> QED BY <3>1, <1>2, <2>2, <2>3, BecomesTree
    <2>4. CASE mode # "copy"
      <3>1. PICK d : d = Dropped(c, from)
        OBVIOUS
      <3>2. Becomes(d)
        BY <1>2, <2>1, <2>4, <3>1 DEF Transfers
      <3>3. IsTree(d) /\ \A q \in DOMAIN c : ~Under(q, from) => Has(d, q, c[q])
        BY <2>2, <3>1, DroppedTree DEF IsPlace
      <3>4. TreeRight' /\ been \subseteq been' /\ files' = d
        BY <3>2, <3>3, BecomesTree
      <3>5. ASSUME NEW q \in DOMAIN files, ~Under(q, from) PROVE Has(files', q, files[q])
        BY <2>2, <3>3, <3>4, <3>5 DEF Has
      <3>6. ASSUME NEW q \in DOMAIN files, Under(q, from) PROVE Has(files', Rebase(q, from, to), files[q])
        <4>1. PICK r : r = Rebase(q, from, to)
          OBVIOUS
        <4>2. Has(c, r, files[q]) /\ ~Under(r, from)
          BY <1>2, <2>1, <3>6, <4>1, WhatGoes DEF TreeRight
        <4> QED BY <4>1, <4>2, <3>3, <3>4 DEF Has
      <3> QED BY <1>2, <2>4, <3>4, <3>5, <3>6
    <2> QED BY <2>3, <2>4
  <1> QED BY <1>1, <1>2

LEMMA DeleteTree ==
  ASSUME TreeRight, NEW from \in SomePath, Deletes(from)
  PROVE  /\ TreeRight' /\ been \subseteq been'
         /\ \A q \in DOMAIN files : from \notin DOMAIN files \/ ~Under(q, from) => Has(files', q, files[q])
  <1>1. CASE from \notin DOMAIN files
    BY <1>1, StaysTree DEF Deletes, Has
  <1>2. CASE from \in DOMAIN files
    <2>1. PICK d : d = Dropped(files, from)
      OBVIOUS
    <2>2. Becomes(d)
      BY <1>2, <2>1 DEF Deletes
    <2>3. IsTree(d) /\ \A q \in DOMAIN files : ~Under(q, from) => Has(d, q, files[q])
      BY <2>1, DroppedTree DEF TreeRight
    <2> QED BY <1>2, <2>2, <2>3, BecomesTree
  <1> QED BY <1>1, <1>2

LEMMA CreateTree ==
  ASSUME TreeRight, NEW q, IsPlace(q), NEW text, Creates(q, text)
  PROVE  TreeRight' /\ been \subseteq been' /\ \A p \in DOMAIN files : Has(files', p, files[p])
  <1>1. CASE ~CanMake(q, text)
    BY <1>1, StaysTree DEF Creates, Has
  <1>2. CASE CanMake(q, text)
    <2>1. PICK f : f = Added(q, text)
      OBVIOUS
    <2>2. IsTree(f) /\ \A p \in DOMAIN files : Has(f, p, files[p])
      BY <1>2, <2>1, AddedTree DEF TreeRight
    <2>3. Becomes(f)
      BY <1>2, <2>1 DEF Creates
    <2> QED BY <2>2, <2>3, BecomesTree
  <1> QED BY <1>1, <1>2

-----------------------------------------------------------------------------
(* The page.                                                               *)

MaybePath(p) == p # None => p \in SomePath

PageRight ==
  /\ page = [ns |-> page.ns, path |-> page.path, text |-> page.text, last |-> page.last]
  /\ page.ns \in Root /\ MaybePath(page.path)
  /\ DOMAIN page.last = Root /\ \A n \in Root : MaybePath(page.last[n])

PickerRight ==
  \/ picker = Shut
  \/ /\ picker = [open |-> TRUE, mode |-> picker.mode, from |-> picker.from, ns |-> picker.ns,
                  folder |-> picker.folder, name |-> picker.name, seq |-> picker.seq, timer |-> picker.timer,
                  check |-> picker.check, of |-> picker.of, busy |-> picker.busy]
     /\ picker.mode \in {"transfer", "copy"} /\ picker.ns \in Root
     /\ IsPlace(picker.from) /\ picker.from[1] \in Root
     /\ MaybePath(picker.folder) /\ picker.name \in PathName /\ picker.seq \in Nat
     /\ picker.check = "ok" /\ picker.folder # None => picker.of = Chosen

PasteRight ==
  \/ paste = Shut
  \/ /\ paste = [open |-> TRUE, ns |-> paste.ns, folder |-> paste.folder, name |-> paste.name, busy |-> paste.busy]
     /\ paste.ns \in Root /\ paste.folder \in SomePath /\ paste.name \in PathName

\* The note with text x is at q, unless an agent took it.
Stands(q, x) == x \in taken \/ TextAt(q) = x

ErrandRight(a) ==
  a.kind # "check" =>
    /\ a.ns = page.ns /\ a.from \in SomePath /\ a.to \in SomePath
    /\ IF a.kind = "load" THEN a.from = page.path ELSE a.cur = page.path
    /\ a.kind \in {"open", "load"} /\ a.ok => a.text # None /\ Stands(<<a.ns>> \o a.from, a.text)
    /\ a.kind = "transfer" => IsPlace(a.from) /\ IsPlace(a.to) /\ a.from[1] \in Root /\ a.to[1] \in Root

\* A check is about what is chosen, or older.
CheckRight(a) ==
  a.kind = "check" =>
    /\ a.seq \in Nat
    /\ picker.open => a.seq <= picker.seq /\ (a.seq = picker.seq /\ picker.folder # None => a.of = Chosen)

OneErrand == \A a, b \in errands : a.kind # "check" /\ b.kind # "check" => a = b

\* A note is open; what is under way may make it another place's.
Shown == page.path # None /\ page.text # None
Spot == <<page.ns>> \o page.path
Moves(a) == a.kind \in {"rm", "rmdir", "move", "transfer"} /\ a.ok

\* Where the answer takes the open note, its text is.
Lands(a) ==
  /\ a.kind = "rm" => page.path = a.from \/ Stands(Spot, page.text)
  /\ a.kind = "rmdir" => Begins(page.path, a.from) \/ Stands(Spot, page.text)
  /\ a.kind = "move" => Stands(<<page.ns>> \o Follow(page.path, a.from, a.to), page.text)
  /\ a.kind = "transfer" =>
       IF Under(Spot, a.from) THEN Stands(Rebase(Spot, a.from, a.to), page.text) ELSE Stands(Spot, page.text)

OpenRight ==
  Shown =>
    /\ page.text \in taken \/ <<Spot, page.text>> \in been
    /\ (\E a \in errands : Moves(a)) \/ Stands(Spot, page.text)
    /\ \A a \in errands : Moves(a) => Lands(a)

PlaceInv ==
  /\ TreeRight /\ PageRight /\ PickerRight /\ PasteRight
  /\ OneErrand /\ \A a \in errands : ErrandRight(a) /\ CheckRight(a)
  /\ OpenRight

LEMMA PlaceStart == Init => PlaceInv
  <1> SUFFICES ASSUME Init PROVE PlaceInv
    OBVIOUS
  <1>1. PlacesInit
    BY DEF Init
  <1>2. /\ Opened \in SomePath /\ Opened # <<>> /\ Len(Opened) \in Nat /\ Opened[1] \in Root
        /\ Opened \in DOMAIN Stored /\ Stored[Opened] # Folder
    BY StoredAssumption, LenProperties DEF SomePath, PathName
  <1>3. Len(Opened) >= 1
    BY <1>2, EmptySeq DEF SomePath
  <1>4. Tail(Opened) \in SomePath /\ <<Opened[1]>> \o Tail(Opened) = Opened
    BY <1>2, <1>3, PathPlace
  <1>5. TreeRight
    <2>1. \A q \in DOMAIN files : q \in SomePath /\ q # <<>>
      BY <1>1, StoredAssumption DEF PlacesInit, SomePath, PathName
    <2>2. \A q \in DOMAIN files : q \in SomePath /\ Len(q) >= 1
      BY <2>1, EmptySeq DEF SomePath
    <2>3. IsTree(files)
      BY <1>1, <2>2, StoredAssumption DEF PlacesInit, IsTree
    <2>4. \A b \in been : b[1] \in DOMAIN files
      BY <1>1 DEF PlacesInit
    <2> QED BY <1>1, <2>2, <2>3, <2>4 DEF TreeRight, PlacesInit
  <1>6. PageRight
    BY <1>1, <1>2, <1>4 DEF PageRight, PlacesInit, MaybePath
  <1>7. PickerRight /\ PasteRight /\ OneErrand /\ \A a \in errands : ErrandRight(a) /\ CheckRight(a)
    BY <1>1 DEF PlacesInit, PickerRight, PasteRight, OneErrand
  <1>8. OpenRight
    <2>1. Spot = Opened /\ page.text = Stored[Opened] /\ files = Stored /\ Opened \in DOMAIN files /\ errands = {}
      BY <1>1, <1>2, <1>4 DEF Spot, PlacesInit
    <2>2. TextAt(Opened) = Stored[Opened]
      BY <2>1, <1>2 DEF TextAt
    <2>3. <<Spot, page.text>> \in been
      BY <2>1, <1>5 DEF TreeRight
    <2> QED BY <2>1, <2>2, <2>3 DEF OpenRight, Stands
  <1> QED BY <1>5, <1>6, <1>7, <1>8 DEF PlaceInv

-----------------------------------------------------------------------------
(* Steps.                                                                  *)

\* Notes stay where they are, unless an agent takes them.
NotesStand ==
  /\ been \subseteq been' /\ taken \subseteq taken'
  /\ \A q \in DOMAIN files : Has(files', q, files[q]) \/ files[q] \in taken'

LEMMA StandsOn ==
  ASSUME NotesStand, NEW q, NEW x, x # None, Stands(q, x)
  PROVE  Stands(q, x)'
  <1>1. CASE x \in taken
    BY <1>1 DEF NotesStand, Stands
  <1>2. CASE TextAt(q) = x
    <2>1. q \in DOMAIN files /\ files[q] # Folder /\ files[q] = x
      BY <1>2 DEF TextAt
    <2>2. Has(files', q, x) \/ x \in taken'
      BY <2>1 DEF NotesStand
    <2> QED BY <2>1, <2>2 DEF Stands, TextAt, Has
  <1> QED BY <1>1, <1>2 DEF Stands

LEMMA StandsBeen ==
  ASSUME TreeRight, NEW q, NEW x, x # None, Stands(q, x)
  PROVE  x \in taken \/ <<q, x>> \in been
  BY DEF Stands, TextAt, TreeRight

\* What is under way stays right.
LEMMA ErrandStays ==
  ASSUME NotesStand, UNCHANGED page, NEW a, ErrandRight(a)
  PROVE  ErrandRight(a)'
  <1> SUFFICES ASSUME a.kind # "check" PROVE ErrandRight(a)'
    BY DEF ErrandRight
  <1>1. a.kind \in {"open", "load"} /\ a.ok => a.text # None /\ Stands(<<a.ns>> \o a.from, a.text)
    BY DEF ErrandRight
  <1>2. (a.kind \in {"open", "load"} /\ a.ok => a.text # None /\ Stands(<<a.ns>> \o a.from, a.text))'
    BY <1>1, StandsOn
  <1> QED BY <1>2 DEF ErrandRight

LEMMA LandsStill ==
  ASSUME NotesStand, UNCHANGED page, page.text # None, NEW a, Lands(a)
  PROVE  Lands(a)'
  <1>1. \A q : Stands(q, page.text) => Stands(q, page.text)'
    BY StandsOn
  <1>2. page.text' = page.text /\ page.path' = page.path /\ page.ns' = page.ns /\ Spot' = Spot
    BY DEF Spot
  <1>3. Stands(Spot, page.text) => Stands(Spot, page.text)'
    BY <1>1, <1>2
  <1>4. a.kind = "move" => Stands(<<page.ns>> \o Follow(page.path, a.from, a.to), page.text)'
    <2>1. PICK q : q = <<page.ns>> \o Follow(page.path, a.from, a.to)
      OBVIOUS
    <2>2. q = (<<page.ns>> \o Follow(page.path, a.from, a.to))'
      BY <1>2, <2>1 DEF Follow, Under, Rebase
    <2> QED BY <1>1, <2>1, <2>2 DEF Lands
  <1>5. a.kind = "transfer" /\ Under(Spot, a.from) => Stands(Rebase(Spot, a.from, a.to), page.text)'
    <2>1. PICK q : q = Rebase(Spot, a.from, a.to)
      OBVIOUS
    <2>2. q = Rebase(Spot, a.from, a.to)'
      BY <1>2, <2>1 DEF Rebase
    <2> QED BY <1>1, <2>1, <2>2 DEF Lands
  <1> QED BY <1>2, <1>3, <1>4, <1>5 DEF Lands, Begins, FolderOf, NameOf, Under

\* Nothing that has to do with the open note happens.
LEMMA QuietStep ==
  ASSUME PlaceInv, NotesStand, TreeRight', UNCHANGED page, PickerRight', PasteRight',
         \A a \in errands \cup errands' : a.kind # "check" => a \in errands /\ a \in errands',
         \A a \in errands' : CheckRight(a)'
  PROVE  PlaceInv'
  <1>1. \A a \in errands' : ErrandRight(a)'
    BY ErrandStays DEF PlaceInv, ErrandRight
  <1>2. OneErrand'
    BY DEF PlaceInv, OneErrand
  <1>3. OpenRight'
    <2> SUFFICES ASSUME Shown'
                 PROVE  /\ (page.text \in taken \/ <<Spot, page.text>> \in been)'
                        /\ ((\E a \in errands : Moves(a)) \/ Stands(Spot, page.text))'
                        /\ \A a \in errands' : Moves(a)' => Lands(a)'
      BY DEF OpenRight
    <2>1. /\ Shown /\ page.text # None /\ Spot' = Spot /\ page.text' = page.text
          /\ \A a : Moves(a)' <=> Moves(a)
      BY DEF Shown, Spot, Moves
    <2>2. (page.text \in taken \/ <<Spot, page.text>> \in been)'
      BY <2>1 DEF PlaceInv, OpenRight, NotesStand
    <2>3. ((\E a \in errands : Moves(a)) \/ Stands(Spot, page.text))'
      <3>1. CASE Stands(Spot, page.text)
        <4>1. PICK q, x : q = Spot /\ x = page.text
          OBVIOUS
        <4>2. Stands(q, x)'
          BY <3>1, <4>1, <2>1, StandsOn
        <4> QED BY <4>1, <4>2, <2>1 DEF Stands, TextAt
      <3>2. CASE \E a \in errands : Moves(a)
        BY <3>2, <2>1 DEF Moves
      <3> QED BY <3>1, <3>2, <2>1 DEF PlaceInv, OpenRight
    <2>4. \A a \in errands' : Moves(a)' => Lands(a)'
      BY <2>1, LandsStill DEF PlaceInv, OpenRight, Moves
    <2> QED BY <2>2, <2>3, <2>4
  <1>4. PageRight'
    BY DEF PlaceInv, PageRight, MaybePath
  <1> QED BY <1>1, <1>2, <1>3, <1>4 DEF PlaceInv

\* One thing is under way, and it is right.
LEMMA TurnStep ==
  ASSUME PlaceInv, TreeRight', PageRight', PickerRight', PasteRight', OpenRight', NEW more,
         \A c \in errands' : (c \in errands /\ c.kind = "check") \/ c \in more,
         \A e, f \in more : e = f, \A e \in more : e.kind # "check" /\ ErrandRight(e)',
         \A c \in errands : CheckRight(c)'
  PROVE  PlaceInv'
  <1>1. \A c \in errands' : ErrandRight(c)' /\ CheckRight(c)'
    BY DEF ErrandRight, CheckRight
  <1>2. OneErrand'
    BY DEF OneErrand
  <1> QED BY <1>1, <1>2 DEF PlaceInv

LEMMA CalmStands ==
  ASSUME PlaceInv, Calm, ~Hurried
  PROVE  (\A a \in errands : a.kind = "check") /\ (Shown => Stands(Spot, page.text))
  BY DEF PlaceInv, OpenRight, Calm, Moves

\* The page asks.
LEMMA AskStep ==
  ASSUME PlaceInv, Calm, ~Hurried, TreeRight', been \subseteq been', UNCHANGED <<taken, page>>, PickerRight', PasteRight',
         \A c \in errands : CheckRight(c)',
         NEW e, e.kind \notin {"check", "load"}, errands' = errands \cup {e}, ErrandRight(e)',
         Moves(e) \/ NotesStand, Moves(e) /\ Shown => Lands(e)'
  PROVE  PlaceInv'
  <1>1. (\A a \in errands : a.kind = "check") /\ (Shown => Stands(Spot, page.text))
    BY CalmStands
  <1>2. OpenRight'
    <2> SUFFICES ASSUME Shown'
                 PROVE  /\ (page.text \in taken \/ <<Spot, page.text>> \in been)'
                        /\ ((\E a \in errands : Moves(a)) \/ Stands(Spot, page.text))'
                        /\ \A a \in errands' : Moves(a)' => Lands(a)'
      BY DEF OpenRight
    <2>1. /\ Shown /\ page.text # None /\ Spot' = Spot /\ page.text' = page.text
          /\ \A a : Moves(a)' <=> Moves(a)
      BY DEF Shown, Spot, Moves
    <2>2. (page.text \in taken \/ <<Spot, page.text>> \in been)'
      BY <2>1 DEF PlaceInv, OpenRight
    <2>3. \A a \in errands : ~Moves(a)
      BY <1>1 DEF Moves
    <2>4. CASE Moves(e)
      <3>1. e \in errands' /\ \A a \in errands' : Moves(a)' => a = e
        BY <2>1, <2>3
      <3> QED BY <2>1, <2>2, <2>4, <3>1 DEF Moves
    <2>5. CASE ~Moves(e)
      <3>1. PICK q, x : q = Spot /\ x = page.text
        OBVIOUS
      <3>2. Stands(q, x)'
        BY <1>1, <2>1, <2>5, <3>1, StandsOn
      <3>3. Stands(Spot, page.text)'
        BY <3>1, <3>2, <2>1 DEF Stands, TextAt
      <3> QED BY <2>1, <2>2, <2>3, <2>5, <3>3
    <2> QED BY <2>4, <2>5
  <1>3. PageRight'
    BY DEF PlaceInv, PageRight, MaybePath
  <1>4. PICK more : more = {e}
    OBVIOUS
  <1>5. /\ \A c \in errands' : (c \in errands /\ c.kind = "check") \/ c \in more
        /\ \A g, f \in more : g = f
        /\ \A g \in more : g.kind # "check" /\ ErrandRight(g)'
    BY <1>1, <1>4
  <1> QED BY <1>2, <1>3, <1>5, TurnStep

\* The page is answered.
LEMMA AnswerStep ==
  ASSUME PlaceInv, NEW a \in errands, a.kind # "check", UNCHANGED <<files, been, taken>>,
         PageRight', PickerRight', PasteRight', \A c \in errands : CheckRight(c)',
         NEW more, Ends(a, more), \A e, f \in more : e = f,
         \A e \in more : e.kind \in {"open", "load"} /\ ErrandRight(e)',
         Shown' => Stands(Spot, page.text)'
  PROVE  PlaceInv'
  <1>1. \A c \in errands' : (c \in errands /\ c.kind = "check") \/ c \in more
    BY DEF Ends, PlaceInv, OneErrand
  <1>2. TreeRight'
    BY DEF PlaceInv, TreeRight, IsTree
  <1>3. OpenRight'
    <2> SUFFICES ASSUME Shown'
                 PROVE  /\ (page.text \in taken \/ <<Spot, page.text>> \in been)'
                        /\ \A c \in errands' : ~Moves(c)'
      BY DEF OpenRight
    <2>1. \A c \in errands' : ~Moves(c)'
      BY <1>1 DEF Moves
    <2>2. PICK q, x : q = Spot' /\ x = page'.text
      OBVIOUS
    <2>3. x # None /\ Stands(q, x)
      BY <2>2 DEF Shown, Stands, TextAt
    <2>4. x \in taken \/ <<q, x>> \in been
      BY <2>3, StandsBeen DEF PlaceInv
    <2> QED BY <2>1, <2>2, <2>4
  <1> QED BY <1>1, <1>2, <1>3, TurnStep

LEMMA NotMoving ==
  ASSUME PlaceInv, NEW a \in errands, a.kind # "check", ~Moves(a), Shown
  PROVE  Stands(Spot, page.text)
  BY DEF PlaceInv, OneErrand, OpenRight, Moves

\* What is asked.
IsErrand(e, kind, n, from, to, ok) ==
  /\ Errand(kind, n, from, to, ok) = {e}
  /\ e.kind = kind /\ e.ns = n /\ e.cur = page.path /\ e.from = from /\ e.to = to /\ (e.ok <=> ok)
  /\ e.text = TextAt(<<n>> \o from)

LEMMA ErrandIs ==
  ASSUME NEW kind, NEW n, NEW from, NEW to, NEW ok
  PROVE  \E e : IsErrand(e, kind, n, from, to, ok)
  <1>1. PICK e : e = [kind |-> kind, ns |-> n, cur |-> page.path, from |-> from, to |-> to, ok |-> ok,
                      text |-> TextAt(<<n>> \o from)]
    OBVIOUS
  <1> QED BY <1>1 DEF Errand, IsErrand

\* A note is asked for as it is.
LEMMA OpensAre ==
  ASSUME UNCHANGED <<files, taken>>, NEW n, NEW p \in SomePath, n = page'.ns, page'.path = page.path
  PROVE  \E e : OpensNote(n, p) = {e} /\ e.kind = "open" /\ ErrandRight(e)'
  <1>0. PICK ok : ok = (TextAt(<<n>> \o p) # None)
    OBVIOUS
  <1>e. PICK e : IsErrand(e, "open", n, p, p, ok)
    BY ErrandIs
  <1>1. /\ Errand("open", n, p, p, ok) = {e} /\ e.kind = "open" /\ e.ns = n /\ e.cur = page.path
        /\ e.from = p /\ e.to = p /\ (e.ok <=> ok) /\ e.text = TextAt(<<n>> \o p)
    BY <1>e DEF IsErrand
  <1>2. e.ok => e.text # None /\ Stands(<<e.ns>> \o e.from, e.text)'
    BY <1>0, <1>1 DEF Stands, TextAt
  <1>3. ErrandRight(e)'
    BY <1>1, <1>2 DEF ErrandRight
  <1>4. OpensNote(n, p) = {e}
    BY <1>0, <1>1 DEF OpensNote
  <1> QED BY <1>1, <1>3, <1>4

LEMMA LoadsAre ==
  ASSUME UNCHANGED <<files, taken>>, NEW n, NEW p, MaybePath(p), n = page'.ns, page'.path = p
  PROVE  /\ \A e, f \in LoadsLast(n, p) : e = f
         /\ \A e \in LoadsLast(n, p) : e.kind = "load" /\ ErrandRight(e)'
  <1>1. CASE p = None
    BY <1>1 DEF LoadsLast
  <1>2. CASE p # None
    <2>0. PICK ok : ok = (TextAt(<<n>> \o p) # None)
      OBVIOUS
    <2>e. PICK e : IsErrand(e, "load", n, p, p, ok)
      BY ErrandIs
    <2>1. /\ Errand("load", n, p, p, ok) = {e} /\ e.kind = "load" /\ e.ns = n /\ e.cur = page.path
          /\ e.from = p /\ e.to = p /\ (e.ok <=> ok) /\ e.text = TextAt(<<n>> \o p)
      BY <2>e DEF IsErrand
    <2>4. LoadsLast(n, p) = {e}
      BY <1>2, <2>0, <2>1 DEF LoadsLast
    <2>2. e.ok => e.text # None /\ Stands(<<e.ns>> \o e.from, e.text)'
      BY <2>0, <2>1 DEF Stands, TextAt
    <2>3. ErrandRight(e)'
      BY <1>2, <2>1, <2>2 DEF ErrandRight, MaybePath
    <2> QED BY <2>1, <2>3, <2>4
  <1> QED BY <1>1, <1>2

LEMMA ChecksStay ==
  ASSUME PlaceInv, picker'.open => /\ picker.open /\ picker'.seq = picker.seq /\ picker'.folder = picker.folder
                                   /\ picker'.ns = picker.ns /\ picker'.name = picker.name
  PROVE  \A c \in errands : CheckRight(c)'
  BY DEF PlaceInv, CheckRight, Chosen

LEMMA StandStill == ASSUME UNCHANGED <<files, been, taken>> PROVE NotesStand
  BY DEF NotesStand, Has

\* What a page's tree shows.
LEMMA PathsAre ==
  ASSUME TreeRight, NEW n \in Root
  PROVE  /\ \A p \in PathsIn(n) : p \in SomePath /\ Len(p) \in Nat /\ Len(p) >= 1 /\ IsPlace(<<n>> \o p)
         /\ \A d \in FoldersIn(n) : d \in SomePath
  <1>1. ASSUME NEW p \in PathsIn(n) PROVE p \in SomePath /\ Len(p) \in Nat /\ Len(p) >= 1 /\ IsPlace(<<n>> \o p)
    <2>1. PICK b \in been : p = Tail(b[1]) /\ b[1][1] = n /\ Len(b[1]) > 1
      BY DEF PathsIn
    <2>2. b[1] \in SomePath /\ Len(b[1]) \in Nat /\ Len(b[1]) >= 1
      BY LenProperties DEF TreeRight, SomePath
    <2>3. p \in SomePath /\ Len(p) = Len(b[1]) - 1 /\ <<n>> \o p = b[1]
      BY <2>1, <2>2, PathPlace
    <2>4. PICK q : q = b[1]
      OBVIOUS
    <2>5. IsPlace(q)
      BY <2>1, <2>2, <2>4 DEF IsPlace
    <2>6. Len(p) \in Nat /\ Len(p) >= 1
      BY <2>1, <2>2, <2>3
    <2> QED BY <2>3, <2>4, <2>5, <2>6
  <1>2. <<>> \in SomePath
    BY EmptySeq DEF SomePath
  <1> QED BY <1>1, <1>2 DEF FoldersIn

LEMMA AppendPlace ==
  ASSUME NEW n \in Root, NEW d \in SomePath, NEW m \in PathName
  PROVE  /\ Append(d, m) \in SomePath /\ IsPlace(<<n>> \o Append(d, m))
         /\ (<<n>> \o Append(d, m))[1] = n /\ Tail(<<n>> \o Append(d, m)) = Append(d, m)
  <1>1. PICK p : p = Append(d, m)
    OBVIOUS
  <1>2. p \in SomePath /\ Len(p) = Len(d) + 1 /\ Len(d) \in Nat
    BY <1>1, LenProperties DEF SomePath
  <1>3. <<n>> \o p \in SomePath /\ Len(<<n>> \o p) = Len(p) + 1 /\ (<<n>> \o p)[1] = n /\ Tail(<<n>> \o p) = p
    BY <1>2, PlacePath
  <1>4. Len(<<n>> \o p) \in Nat /\ Len(<<n>> \o p) >= 2
    BY <1>2, <1>3
  <1> QED BY <1>1, <1>2, <1>3, <1>4 DEF IsPlace

LEMMA PathParts ==
  ASSUME NEW p \in SomePath, Len(p) \in Nat, Len(p) >= 1
  PROVE  FolderOf(p) \in SomePath /\ NameOf(p) \in PathName
  <1>1. \A i \in 1 .. Len(p) - 1 : p[i] \in PathName
    BY ElementOfSeq DEF SomePath
  <1>2. SubSeq(p, 1, Len(p) - 1) \in Seq(PathName)
    BY <1>1, SubSeqProperties
  <1>3. p[Len(p)] \in PathName
    BY ElementOfSeq DEF SomePath
  <1> QED BY <1>2, <1>3 DEF FolderOf, NameOf, SomePath

LEMMA UnderBegins ==
  ASSUME NEW p \in SomePath, p # None, NEW d \in SomePath, Len(d) \in Nat, Len(d) >= 1, Under(p, d)
  PROVE  Begins(p, d)
  <1>1. Len(p) >= Len(d) /\ Len(p) \in Nat /\ \A i \in 1 .. Len(d) : p[i] = d[i]
    BY UnderAt, LenProperties DEF SomePath
  <1>2. PICK k : k = Len(d) - 1
    OBVIOUS
  <1>3. k \in Nat /\ k \in Int /\ 1 \in Int /\ \A i \in 1 .. k : p[i] \in PathName /\ d[i] \in PathName /\ p[i] = d[i]
    BY <1>1, <1>2, ElementOfSeq DEF SomePath
  <1>4. PICK s, t : s = SubSeq(p, 1, k) /\ t = SubSeq(d, 1, k)
    OBVIOUS
  <1>5. /\ s \in Seq(PathName) /\ Len(s) = (IF 1 <= k THEN k - 1 + 1 ELSE 0)
        /\ \A i \in 1 .. k - 1 + 1 : s[i] = p[1 + i - 1]
    BY <1>3, <1>4, SubSeqProperties
  <1>6. /\ t \in Seq(PathName) /\ Len(t) = (IF 1 <= k THEN k - 1 + 1 ELSE 0)
        /\ \A i \in 1 .. k - 1 + 1 : t[i] = d[1 + i - 1]
    BY <1>3, <1>4, SubSeqProperties
  <1>9. Len(s) = Len(t) /\ \A i \in 1 .. Len(s) : s[i] = t[i]
    <2>1. Len(s) = k /\ Len(t) = k
      BY <1>3, <1>5, <1>6
    <2>2. \A i \in 1 .. k : i \in 1 .. k - 1 + 1 /\ 1 + i - 1 = i
      BY <1>3
    <2>3. \A i \in 1 .. k : s[i] = p[i] /\ t[i] = d[i]
      BY <2>2, <1>5, <1>6
    <2> QED BY <2>1, <2>3, <1>3
  <1>7. s = t
    BY <1>5, <1>6, <1>9, SeqEqual
  <1>8. p[Len(d)] = d[Len(d)]
    BY <1>1
  <1> QED BY <1>1, <1>2, <1>4, <1>7, <1>8 DEF Begins, FolderOf, NameOf

\* Where the open note goes, its text does.
LEMMA GoesAlong ==
  ASSUME Stands(Spot, page.text), page.text # None, UNCHANGED <<taken, page>>, NEW from, NEW to, NEW q,
         TextAt(Spot) = page.text => Has(files', q, files[Spot])
  PROVE  Stands(q, page.text)'
  <1>1. CASE page.text \in taken
    BY <1>1 DEF Stands
  <1>2. CASE TextAt(Spot) = page.text
    <2>1. files[Spot] = page.text /\ files[Spot] # Folder
      BY <1>2 DEF TextAt
    <2> QED BY <1>2, <2>1 DEF Has, Stands, TextAt
  <1> QED BY <1>1, <1>2 DEF Stands

-----------------------------------------------------------------------------
(* From the tree.                                                          *)

LEMMA ClickNoteInv ==
  ASSUME PlaceInv, ~Hurried, UNCHANGED taken, NEW p \in PathsIn(page.ns), ClickNote(p)
  PROVE  PlaceInv'
  <1>1. TreeRight /\ page.ns \in Root /\ PickerRight /\ PasteRight
    BY DEF PlaceInv, PageRight
  <1>2. p \in SomePath
    BY <1>1, PathsAre
  <1>3. /\ Calm /\ errands' = errands \cup OpensNote(page.ns, p) /\ UNCHANGED <<files, been, page, picker, paste>>
    BY DEF ClickNote, AtTree
  <1>4. PICK e : OpensNote(page.ns, p) = {e} /\ e.kind = "open" /\ ErrandRight(e)'
    BY <1>2, <1>3, OpensAre
  <1>5. TreeRight' /\ PickerRight' /\ PasteRight' /\ NotesStand
    BY <1>1, <1>3, StandStill DEF TreeRight, IsTree, PickerRight, PasteRight, Chosen
  <1>6. \A c \in errands : CheckRight(c)'
    BY <1>3, ChecksStay
  <1> QED BY <1>3, <1>4, <1>5, <1>6, AskStep DEF Moves

LEMMA SelectRootInv ==
  ASSUME PlaceInv, ~Hurried, UNCHANGED taken, NEW n \in Root, SelectRoot(n)
  PROVE  PlaceInv'
  <1>1. TreeRight /\ PageRight /\ PickerRight /\ PasteRight
    BY DEF PlaceInv
  <1>2. /\ Calm /\ page' = Enters(n, page.last) /\ errands' = errands \cup LoadsLast(n, page.last[n])
        /\ UNCHANGED <<files, been, picker, paste>>
    BY DEF SelectRoot, AtTree
  <1>3. page' = [ns |-> n, path |-> page.last[n], text |-> None, last |-> page.last]
    BY <1>1, <1>2 DEF Enters, PageRight
  <1>4. PICK more : more = LoadsLast(n, page.last[n])
    OBVIOUS
  <1>5. MaybePath(page.last[n])
    BY <1>1 DEF PageRight
  <1>6. (\A e, f \in more : e = f) /\ \A e \in more : e.kind = "load" /\ ErrandRight(e)'
    BY <1>2, <1>3, <1>4, <1>5, LoadsAre
  <1>7. TreeRight' /\ PickerRight' /\ PasteRight' /\ PageRight'
    BY <1>1, <1>2, <1>3 DEF TreeRight, IsTree, PickerRight, PasteRight, Chosen, PageRight, MaybePath
  <1>8. \A c \in errands : CheckRight(c)'
    BY <1>2, ChecksStay
  <1>9. OpenRight'
    BY <1>3 DEF OpenRight, Shown
  <1>10. \A a \in errands : a.kind = "check"
    BY <1>2, CalmStands
  <1> QED BY <1>2, <1>4, <1>6, <1>7, <1>8, <1>9, <1>10, TurnStep

LEMMA NewNoteInv ==
  ASSUME PlaceInv, ~Hurried, UNCHANGED taken, NEW d \in FoldersIn(page.ns), NEW m \in Named, NEW text, NewNote(d, m, text)
  PROVE  PlaceInv'
  <1>1. TreeRight /\ page.ns \in Root /\ PickerRight /\ PasteRight /\ m \in PathName
    BY DEF PlaceInv, PageRight, PathName
  <1>2. d \in SomePath
    BY <1>1, PathsAre
  <1>3. PICK p, q, ok : p = Append(d, m) /\ q = <<page.ns>> \o p /\ ok = CanMake(q, text)
    OBVIOUS
  <1>4. /\ Calm /\ Creates(q, text) /\ UNCHANGED <<page, picker, paste>>
        /\ errands' = errands \cup Errand("create", page.ns, p, q, ok)
    BY <1>3 DEF NewNote, AtTree
  <1>5. p \in SomePath /\ IsPlace(q)
    BY <1>1, <1>2, <1>3, AppendPlace
  <1>e. PICK e : IsErrand(e, "create", page.ns, p, q, ok)
    BY ErrandIs
  <1>6. /\ Errand("create", page.ns, p, q, ok) = {e} /\ e.kind = "create" /\ e.ns = page.ns /\ e.cur = page.path
        /\ e.from = p /\ e.to = q /\ (e.ok <=> ok) /\ e.text = TextAt(<<page.ns>> \o p)
    BY <1>e DEF IsErrand
  <1>7. TreeRight' /\ been \subseteq been' /\ \A r \in DOMAIN files : Has(files', r, files[r])
    BY <1>1, <1>4, <1>5, CreateTree
  <1>8. ErrandRight(e)'
    BY <1>4, <1>5, <1>6 DEF ErrandRight, IsPlace
  <1>9. PickerRight' /\ PasteRight' /\ NotesStand
    BY <1>1, <1>4, <1>7 DEF NotesStand, PickerRight, PasteRight, Chosen
  <1>10. \A c \in errands : CheckRight(c)'
    BY <1>4, ChecksStay
  <1> QED BY <1>4, <1>6, <1>7, <1>8, <1>9, <1>10, AskStep DEF Moves

LEMMA NewFolderInv ==
  ASSUME PlaceInv, UNCHANGED taken, NEW d \in FoldersIn(page.ns), NEW m \in Named, NewFolder(d, m)
  PROVE  PlaceInv'
  <1>1. TreeRight /\ page.ns \in Root /\ PickerRight /\ PasteRight /\ m \in PathName
    BY DEF PlaceInv, PageRight, PathName
  <1>2. d \in SomePath
    BY <1>1, PathsAre
  <1>3. PICK q : q = <<page.ns>> \o Append(d, m)
    OBVIOUS
  <1>4. IsPlace(q) /\ Creates(q, Folder) /\ UNCHANGED <<page, errands, picker, paste>>
    BY <1>1, <1>2, <1>3, AppendPlace DEF NewFolder
  <1>5. TreeRight' /\ been \subseteq been' /\ \A r \in DOMAIN files : Has(files', r, files[r])
    BY <1>1, <1>4, CreateTree
  <1>6. PickerRight' /\ PasteRight' /\ NotesStand
    BY <1>1, <1>4, <1>5 DEF NotesStand, PickerRight, PasteRight, Chosen
  <1>7. \A c \in errands : CheckRight(c)'
    BY <1>4, ChecksStay
  <1> QED BY <1>4, <1>5, <1>6, <1>7, QuietStep

LEMMA DeleteFromInv ==
  ASSUME PlaceInv, ~Hurried, UNCHANGED taken, NEW p \in PathsIn(page.ns), DeleteFrom(p)
  PROVE  PlaceInv'
  <1>1. TreeRight /\ PageRight /\ page.ns \in Root /\ PickerRight /\ PasteRight
    BY DEF PlaceInv, PageRight
  <1>2. PICK q, ok, kind : /\ q = <<page.ns>> \o p /\ ok = (q \in DOMAIN files)
                           /\ kind = IF p \in FoldersIn(page.ns) THEN "rmdir" ELSE "rm"
    OBVIOUS
  <1>3. p \in SomePath /\ Len(p) \in Nat /\ Len(p) >= 1 /\ IsPlace(q)
    BY <1>1, <1>2, PathsAre
  <1>4. /\ Calm /\ Deletes(q) /\ UNCHANGED <<page, picker, paste>>
        /\ errands' = errands \cup Errand(kind, page.ns, p, q, ok)
    BY <1>2 DEF DeleteFrom, AtTree
  <1>e. PICK e : IsErrand(e, kind, page.ns, p, q, ok)
    BY ErrandIs
  <1>5. /\ Errand(kind, page.ns, p, q, ok) = {e} /\ e.kind = kind /\ e.ns = page.ns /\ e.cur = page.path
        /\ e.from = p /\ e.to = q /\ (e.ok <=> ok) /\ e.text = TextAt(<<page.ns>> \o p)
    BY <1>e DEF IsErrand
  <1>6. /\ TreeRight' /\ been \subseteq been'
        /\ \A r \in DOMAIN files : q \notin DOMAIN files \/ ~Under(r, q) => Has(files', r, files[r])
    BY <1>1, <1>3, <1>4, DeleteTree DEF IsPlace
  <1>7. ErrandRight(e)'
    BY <1>2, <1>3, <1>4, <1>5 DEF ErrandRight, IsPlace
  <1>8. PickerRight' /\ PasteRight'
    BY <1>1, <1>4 DEF PickerRight, PasteRight, Chosen
  <1>9. \A c \in errands : CheckRight(c)'
    BY <1>4, ChecksStay
  <1>10. Moves(e) \/ NotesStand
    <2>1. ~Moves(e) => q \notin DOMAIN files
      BY <1>2, <1>5 DEF Moves
    <2> QED BY <2>1, <1>6 DEF NotesStand
  <1>11. ASSUME Shown PROVE Lands(e)'
    <2>1. Stands(Spot, page.text) /\ page.text # None /\ page.path \in SomePath
      BY <1>1, <1>4, <1>11, CalmStands DEF Shown, PageRight, MaybePath
    <2>2. CASE ~Under(Spot, q)
      <3>1. TextAt(Spot) = page.text => Has(files', Spot, files[Spot])
        BY <2>1, <2>2, <1>6 DEF TextAt
      <3>2. PICK r : r = Spot
        OBVIOUS
      <3>3. Stands(r, page.text)'
        BY <3>1, <3>2, <2>1, <1>4, GoesAlong
      <3>4. Stands(Spot, page.text)'
        BY <3>2, <3>3, <1>4 DEF Stands, Spot, TextAt
      <3> QED BY <3>4, <1>2, <1>5 DEF Lands
    <2>3. CASE Under(Spot, q)
      <3>1. Under(page.path, p)
        BY <2>1, <2>3, <1>1, <1>2, <1>3, PlaceUnder DEF Spot
      <3>2. CASE kind = "rmdir"
        <4>1. Begins(page.path, p)
          BY <3>1, <1>3, <1>11, <2>1, UnderBegins DEF Shown
        <4>2. Begins(page.path, e.from)'
          BY <4>1, <1>4, <1>5 DEF Begins, FolderOf, NameOf
        <4> QED BY <3>2, <4>2, <1>5 DEF Lands
      <3>3. CASE kind = "rm"
        <4>1. p \notin FoldersIn(page.ns)
          BY <3>3, <1>2
        <4>2. CASE page.path = p
          BY <3>3, <4>2, <1>4, <1>5 DEF Lands
        <4>3. CASE page.path # p
          <5>1. Spot # q
            <6>1. Tail(Spot) = page.path /\ Tail(q) = p
              BY <1>1, <1>2, <1>3, <2>1, PlacePath DEF Spot
            <6> QED BY <6>1, <4>3
          <5>2. TextAt(Spot) # page.text
            <6> SUFFICES ASSUME TextAt(Spot) = page.text PROVE FALSE
              OBVIOUS
            <6>1. Spot \in DOMAIN files
              BY <2>1 DEF TextAt
            <6>2. q \in DOMAIN files /\ files[q] = Folder
              BY <6>1, <5>1, <2>3, <1>1, <1>3, InTree DEF TreeRight
            <6>3. <<<<page.ns>> \o p, Folder>> \in been
              BY <6>2, <1>1, <1>2 DEF TreeRight
            <6> QED BY <6>3, <4>1 DEF FoldersIn
          <5>3. page.text \in taken
            BY <2>1, <5>2 DEF Stands
          <5>4. Stands(Spot, page.text)'
            BY <5>3, <1>4 DEF Stands
          <5> QED BY <3>3, <5>4, <1>5 DEF Lands
        <4> QED BY <4>2, <4>3
      <3> QED BY <3>2, <3>3, <1>2
    <2> QED BY <2>2, <2>3
  <1>12. e.kind \notin {"check", "load"}
    BY <1>2, <1>5
  <1> QED BY <1>4, <1>5, <1>6, <1>7, <1>8, <1>9, <1>10, <1>11, <1>12, AskStep

LEMMA RelocateInv ==
  ASSUME PlaceInv, ~Hurried, UNCHANGED taken, NEW p \in PathsIn(page.ns), NEW to \in SomePath,
         IsPlace(<<page.ns>> \o to), Relocate(p, to)
  PROVE  PlaceInv'
  <1>1. TreeRight /\ PageRight /\ page.ns \in Root /\ PickerRight /\ PasteRight
    BY DEF PlaceInv, PageRight
  <1>2. PICK q, t, ok : q = <<page.ns>> \o p /\ t = <<page.ns>> \o to /\ ok = Fits(q, t)
    OBVIOUS
  <1>3. p \in SomePath /\ IsPlace(q) /\ IsPlace(t)
    BY <1>1, <1>2, PathsAre
  <1>4. /\ Calm /\ Transfers("move", q, t) /\ UNCHANGED <<page, picker, paste>>
        /\ errands' = errands \cup Errand("move", page.ns, p, to, ok)
    BY <1>2 DEF Relocate, AtTree
  <1>e. PICK e : IsErrand(e, "move", page.ns, p, to, ok)
    BY ErrandIs
  <1>5. /\ Errand("move", page.ns, p, to, ok) = {e} /\ e.kind = "move" /\ e.ns = page.ns /\ e.cur = page.path
        /\ e.from = p /\ e.to = to /\ (e.ok <=> ok) /\ e.text = TextAt(<<page.ns>> \o p)
    BY <1>e DEF IsErrand
  <1>6. /\ TreeRight' /\ been \subseteq been'
        /\ \A r \in DOMAIN files :
             /\ ~Fits(q, t) \/ ~Under(r, q) => Has(files', r, files[r])
             /\ Fits(q, t) /\ Under(r, q) => Has(files', Rebase(r, q, t), files[r])
    <2>1. PICK mode : mode = "move"
      OBVIOUS
    <2> QED BY <2>1, <1>1, <1>3, <1>4, TransferTree
  <1>7. ErrandRight(e)'
    BY <1>3, <1>4, <1>5 DEF ErrandRight
  <1>8. PickerRight' /\ PasteRight'
    BY <1>1, <1>4 DEF PickerRight, PasteRight, Chosen
  <1>9. \A c \in errands : CheckRight(c)'
    BY <1>4, ChecksStay
  <1>10. (Moves(e) <=> Fits(q, t)) /\ (Moves(e) \/ NotesStand)
    BY <1>2, <1>5, <1>6 DEF NotesStand, Moves
  <1>11. ASSUME Shown, Fits(q, t) PROVE Lands(e)'
    <2>1. Stands(Spot, page.text) /\ page.text # None /\ page.path # None /\ page.path \in SomePath
      BY <1>1, <1>4, <1>11, CalmStands DEF Shown, PageRight, MaybePath
    <2>2. PICK f : f = Follow(page.path, p, to)
      OBVIOUS
    <2>3. PICK r : r = <<page.ns>> \o f
      OBVIOUS
    <2>4. TextAt(Spot) = page.text => Has(files', r, files[Spot])
      <3> SUFFICES ASSUME TextAt(Spot) = page.text PROVE Has(files', r, files[Spot])
        OBVIOUS
      <3>1. Spot \in DOMAIN files
        BY <2>1 DEF TextAt
      <3>2. Under(Spot, q) <=> Under(page.path, p)
        BY <2>1, <1>1, <1>2, <1>3, PlaceUnder DEF Spot
      <3>3. CASE Under(page.path, p)
        <4>1. r = Rebase(Spot, q, t)
          BY <3>3, <2>1, <2>2, <2>3, <1>1, <1>2, <1>3, PlaceUnder DEF Spot, Follow, Along
        <4> QED BY <4>1, <3>1, <3>2, <3>3, <1>6, <1>11
      <3>4. CASE ~Under(page.path, p)
        <4>1. r = Spot
          BY <3>4, <2>2, <2>3 DEF Spot, Follow
        <4> QED BY <4>1, <3>1, <3>2, <3>4, <1>6
      <3> QED BY <3>3, <3>4
    <2>5. Stands(r, page.text)'
      BY <2>1, <2>4, <1>4, GoesAlong
    <2>6. r = (<<page.ns>> \o Follow(page.path, e.from, e.to))'
      BY <2>2, <2>3, <1>4, <1>5 DEF Follow, Under, Rebase
    <2>7. (Stands(<<page.ns>> \o Follow(page.path, e.from, e.to), page.text))'
      BY <2>5, <2>6
    <2> QED BY <2>7, <1>5 DEF Lands
  <1> QED BY <1>4, <1>5, <1>6, <1>7, <1>8, <1>9, <1>10, <1>11, AskStep

LEMMA RenameInv ==
  ASSUME PlaceInv, ~Hurried, UNCHANGED taken, NEW p \in PathsIn(page.ns), NEW m \in Named, Rename(p, m)
  PROVE  PlaceInv'
  <1>1. TreeRight /\ page.ns \in Root /\ m \in PathName
    BY DEF PlaceInv, PageRight, PathName
  <1>2. FolderOf(p) \in SomePath
    BY <1>1, PathsAre, PathParts
  <1>3. PICK to : to = Append(FolderOf(p), m)
    OBVIOUS
  <1>4. to \in SomePath /\ IsPlace(<<page.ns>> \o to)
    BY <1>1, <1>2, <1>3, AppendPlace
  <1>5. Relocate(p, to)
    BY <1>3 DEF Rename
  <1> QED BY <1>4, <1>5, RelocateInv

LEMMA TreeDropInv ==
  ASSUME PlaceInv, ~Hurried, UNCHANGED taken, NEW p \in PathsIn(page.ns), NEW d \in FoldersIn(page.ns), TreeDrop(p, d)
  PROVE  PlaceInv'
  <1>1. TreeRight /\ page.ns \in Root
    BY DEF PlaceInv, PageRight
  <1>2. NameOf(p) \in PathName /\ d \in SomePath
    BY <1>1, PathsAre, PathParts
  <1>3. PICK to : to = Append(d, NameOf(p))
    OBVIOUS
  <1>4. to \in SomePath /\ IsPlace(<<page.ns>> \o to)
    BY <1>1, <1>2, <1>3, AppendPlace
  <1>5. Relocate(p, to)
    BY <1>3 DEF TreeDrop
  <1> QED BY <1>4, <1>5, RelocateInv

-----------------------------------------------------------------------------
(* Answers.                                                                *)

\* The dialogs stay as they are.
LEMMA AnswerPlainStep ==
  ASSUME PlaceInv, NEW a \in errands, a.kind # "check", UNCHANGED <<files, been, taken, picker, paste>>,
         PageRight', NEW more, Ends(a, more), \A e, f \in more : e = f,
         \A e \in more : e.kind \in {"open", "load"} /\ ErrandRight(e)',
         Shown' => Stands(Spot, page.text)'
  PROVE  PlaceInv'
  <1>1. PickerRight' /\ PasteRight'
    BY DEF PlaceInv, PickerRight, PasteRight, Chosen
  <1>2. \A c \in errands : CheckRight(c)'
    BY ChecksStay
  <1> QED BY <1>1, <1>2, AnswerStep

\* A page that is answered and stays as it is.
LEMMA SamePage ==
  ASSUME PlaceInv, NEW a \in errands, a.kind # "check", ~Moves(a), UNCHANGED <<files, taken, page>>
  PROVE  PageRight' /\ (Shown' => Stands(Spot, page.text)')
  <1>1. PageRight'
    BY DEF PlaceInv, PageRight, MaybePath
  <1>2. Shown => Stands(Spot, page.text)
    BY NotMoving
  <1> QED BY <1>1, <1>2 DEF Shown, Stands, TextAt, Spot

LEMMA NoteCameInv ==
  ASSUME PlaceInv, UNCHANGED taken, NEW a \in errands, NoteCame(a)
  PROVE  PlaceInv'
  <1>1. a.kind = "open" /\ Ends(a, {}) /\ UNCHANGED <<files, been, picker, paste>>
    BY DEF NoteCame
  <1>2. PageRight' /\ (Shown' => Stands(Spot, page.text)')
    <2>1. CASE ~a.ok
      <3>1. page' = page /\ ~Moves(a)
        BY <2>1 DEF NoteCame, Moves
      <3> QED BY <3>1, <1>1, SamePage
    <2>2. CASE a.ok
      <3>1. /\ a.ns = page.ns /\ a.from \in SomePath /\ a.ns \in Root /\ PageRight
            /\ Stands(<<a.ns>> \o a.from, a.text)
        BY <1>1, <2>2 DEF PlaceInv, ErrandRight, PageRight
      <3>2. page' = [page EXCEPT !.path = a.from, !.text = a.text, !.last[a.ns] = a.from]
        BY <2>2 DEF NoteCame
      <3>3. page' = [ns |-> page.ns, path |-> a.from, text |-> a.text, last |-> [page.last EXCEPT ![a.ns] = a.from]]
        BY <3>1, <3>2 DEF PageRight
      <3>4. PageRight'
        BY <3>1, <3>3 DEF PageRight, MaybePath
      <3> QED BY <3>1, <3>3, <3>4, <1>1 DEF Spot, Stands, TextAt
    <2> QED BY <2>1, <2>2
  <1> QED BY <1>1, <1>2, AnswerPlainStep

LEMMA LoadCameInv ==
  ASSUME PlaceInv, UNCHANGED taken, NEW a \in errands, LoadCame(a)
  PROVE  PlaceInv'
  <1>1. a.kind = "load" /\ Ends(a, {}) /\ UNCHANGED <<files, been, picker, paste>>
    BY DEF LoadCame
  <1>2. a.ns = page.ns /\ a.from = page.path /\ PageRight
    BY <1>1 DEF PlaceInv, ErrandRight
  <1>3. PageRight' /\ (Shown' => Stands(Spot, page.text)')
    <2>1. CASE ~a.ok
      <3>1. page' = [page EXCEPT !.path = None, !.text = None, !.last[a.ns] = None]
        BY <2>1 DEF LoadCame
      <3>2. page' = [ns |-> page.ns, path |-> None, text |-> None, last |-> [page.last EXCEPT ![a.ns] = None]]
        BY <3>1, <1>2 DEF PageRight
      <3> QED BY <3>2, <1>2 DEF PageRight, MaybePath, Shown
    <2>2. CASE a.ok
      <3>1. Stands(<<a.ns>> \o a.from, a.text)
        BY <1>1, <2>2 DEF PlaceInv, ErrandRight
      <3>2. page' = [page EXCEPT !.text = a.text]
        BY <2>2 DEF LoadCame
      <3>3. page' = [ns |-> page.ns, path |-> page.path, text |-> a.text, last |-> page.last]
        BY <3>2, <1>2 DEF PageRight
      <3>4. PageRight'
        BY <1>2, <3>3 DEF PageRight, MaybePath
      <3> QED BY <3>1, <3>3, <3>4, <1>1, <1>2 DEF Spot, Stands, TextAt
    <2> QED BY <2>1, <2>2
  <1> QED BY <1>1, <1>3, AnswerPlainStep

LEMMA CreatedInv ==
  ASSUME PlaceInv, UNCHANGED taken, NEW a \in errands, Created(a)
  PROVE  PlaceInv'
  <1>1. a.kind = "create" /\ UNCHANGED <<files, been, page, picker, paste>> /\ ~Moves(a)
    BY DEF Created, Moves
  <1>2. a.ns = page.ns /\ a.from \in SomePath
    BY <1>1 DEF PlaceInv, ErrandRight
  <1>3. PageRight' /\ (Shown' => Stands(Spot, page.text)')
    BY <1>1, SamePage
  <1>4. PICK e : OpensNote(a.ns, a.from) = {e} /\ e.kind = "open" /\ ErrandRight(e)'
    BY <1>1, <1>2, OpensAre
  <1>5. Ends(a, {}) \/ Ends(a, {e})
    BY <1>4 DEF Created
  <1> QED BY <1>1, <1>3, <1>4, <1>5, AnswerPlainStep

LEMMA DeletedInv ==
  ASSUME PlaceInv, UNCHANGED taken, NEW a \in errands, Deleted(a)
  PROVE  PlaceInv'
  <1>1. a.kind \in {"rm", "rmdir"} /\ Ends(a, {}) /\ UNCHANGED <<files, been, picker, paste>>
    BY DEF Deleted
  <1>2. a.ns = page.ns /\ a.cur = page.path /\ PageRight
    BY <1>1 DEF PlaceInv, ErrandRight
  <1>3. PageRight' /\ (Shown' => Stands(Spot, page.text)')
    <2>1. CASE ~a.ok
      <3>1. page' = page /\ ~Moves(a)
        BY <2>1 DEF Deleted, Moves
      <3> QED BY <3>1, <1>1, SamePage
    <2>2. CASE a.ok
      <3>1. PICK gone, goes : /\ gone = (IF a.kind = "rm" THEN page.path = a.from ELSE Begins(page.path, a.from))
                              /\ goes = (IF a.kind = "rm" THEN page.last[a.ns] = a.from ELSE Begins(page.last[a.ns], a.from))
        OBVIOUS
      <3>2. page' = [page EXCEPT !.path = IF gone THEN None ELSE page.path,
                                 !.text = IF gone THEN None ELSE page.text,
                                 !.last[a.ns] = IF goes THEN None ELSE page.last[a.ns]]
        BY <2>2, <3>1, <1>2 DEF Deleted
      <3>3. page' = [ns |-> page.ns, path |-> IF gone THEN None ELSE page.path, text |-> IF gone THEN None ELSE page.text,
                     last |-> [page.last EXCEPT ![a.ns] = IF goes THEN None ELSE page.last[a.ns]]]
        BY <3>2, <1>2 DEF PageRight
      <3>4. PageRight'
        BY <1>2, <3>3 DEF PageRight, MaybePath
      <3>5. ASSUME Shown' PROVE Stands(Spot, page.text)'
        <4>1. ~gone /\ page'.path = page.path /\ page'.text = page.text /\ page'.ns = page.ns /\ Shown
          BY <3>3, <3>5 DEF Shown
        <4>2. Lands(a)
          BY <4>1, <2>2, <1>1 DEF PlaceInv, OpenRight, Moves
        <4>3. Stands(Spot, page.text)
          BY <4>1, <4>2, <3>1, <1>1 DEF Lands
        <4> QED BY <4>1, <4>3, <1>1 DEF Stands, TextAt, Spot
      <3> QED BY <3>4, <3>5
    <2> QED BY <2>1, <2>2
  <1> QED BY <1>1, <1>3, AnswerPlainStep

LEMMA FollowIs ==
  ASSUME NEW p, MaybePath(p), NEW from \in SomePath, NEW to \in SomePath
  PROVE  MaybePath(Follow(p, from, to)) /\ (p = None => Follow(p, from, to) = None)
  <1>1. CASE p # None /\ Under(p, from)
    BY <1>1, RebaseUnder DEF Follow, MaybePath
  <1>2. CASE ~(p # None /\ Under(p, from))
    BY <1>2 DEF Follow
  <1> QED BY <1>1, <1>2

LEMMA PathMovedInv ==
  ASSUME PlaceInv, UNCHANGED taken, NEW a \in errands, PathMoved(a)
  PROVE  PlaceInv'
  <1>1. a.kind = "move" /\ Ends(a, {}) /\ UNCHANGED <<files, been, picker, paste>>
    BY DEF PathMoved
  <1>2. a.ns = page.ns /\ a.cur = page.path /\ PageRight /\ page.ns \in Root /\ a.from \in SomePath /\ a.to \in SomePath
    BY <1>1 DEF PlaceInv, ErrandRight, PageRight
  <1>3. PageRight' /\ (Shown' => Stands(Spot, page.text)')
    <2>1. CASE ~a.ok
      <3>1. page' = page /\ ~Moves(a)
        BY <2>1 DEF PathMoved, Moves
      <3> QED BY <3>1, <1>1, SamePage
    <2>2. CASE a.ok
      <3>1. PICK f, g : f = Follow(page.path, a.from, a.to) /\ g = Follow(page.last[page.ns], a.from, a.to)
        OBVIOUS
      <3>2. page' = [page EXCEPT !.path = f, !.last[page.ns] = g]
        BY <2>2, <3>1, <1>2 DEF PathMoved
      <3>3. page' = [ns |-> page.ns, path |-> f, text |-> page.text, last |-> [page.last EXCEPT ![page.ns] = g]]
        BY <3>2, <1>2 DEF PageRight
      <3>4. MaybePath(f) /\ MaybePath(g) /\ (page.path = None => f = None)
        BY <3>1, <1>2, FollowIs DEF PageRight
      <3>5. PageRight'
        BY <1>2, <3>3, <3>4 DEF PageRight, MaybePath
      <3>6. ASSUME Shown' PROVE Stands(Spot, page.text)'
        <4>1. page'.path = f /\ page'.text = page.text /\ page'.ns = page.ns /\ Shown
          BY <3>3, <3>4, <3>6 DEF Shown
        <4>2. Lands(a)
          BY <4>1, <2>2, <1>1 DEF PlaceInv, OpenRight, Moves
        <4>3. Stands(<<page.ns>> \o f, page.text)
          BY <4>2, <3>1, <1>1 DEF Lands
        <4> QED BY <4>1, <4>3, <1>1 DEF Stands, TextAt, Spot
      <3> QED BY <3>5, <3>6
    <2> QED BY <2>1, <2>2
  <1> QED BY <1>1, <1>3, AnswerPlainStep

-----------------------------------------------------------------------------
(* The dialogs.                                                            *)

LEMMA PickerIs ==
  ASSUME PlaceInv, picker.open
  PROVE  /\ picker = [open |-> TRUE, mode |-> picker.mode, from |-> picker.from, ns |-> picker.ns,
                      folder |-> picker.folder, name |-> picker.name, seq |-> picker.seq, timer |-> picker.timer,
                      check |-> picker.check, of |-> picker.of, busy |-> picker.busy]
         /\ picker.mode \in {"transfer", "copy"} /\ picker.ns \in Root
         /\ IsPlace(picker.from) /\ picker.from[1] \in Root
         /\ MaybePath(picker.folder) /\ picker.name \in PathName /\ picker.seq \in Nat
         /\ picker.check = "ok" /\ picker.folder # None => picker.of = Chosen
  BY DEF PlaceInv, PickerRight, Shut

\* Nothing happens but in the dialogs.
LEMMA DialogStep ==
  ASSUME PlaceInv, UNCHANGED <<files, been, taken, page>>, PickerRight', PasteRight',
         \A a \in errands \cup errands' : a.kind # "check" => a \in errands /\ a \in errands',
         \A a \in errands' : CheckRight(a)'
  PROVE  PlaceInv'
  <1>1. TreeRight' /\ NotesStand
    BY StandStill DEF PlaceInv, TreeRight, IsTree
  <1> QED BY <1>1, QuietStep

LEMMA PickerOpensInv ==
  ASSUME PlaceInv, UNCHANGED taken, NEW p \in PathsIn(page.ns), NEW mode \in {"transfer", "copy"}, PickerOpens(mode, p)
  PROVE  PlaceInv'
  <1>1. TreeRight /\ page.ns \in Root /\ PasteRight
    BY DEF PlaceInv, PageRight
  <1>2. p \in SomePath /\ IsPlace(<<page.ns>> \o p) /\ NameOf(p) \in PathName /\ (<<page.ns>> \o p)[1] = page.ns
    BY <1>1, PathsAre, PathParts, PlacePath
  <1>3. /\ errands' = {a \in errands : a.kind # "check"} /\ UNCHANGED <<files, been, page, paste>>
        /\ picker' = [open |-> TRUE, mode |-> mode, from |-> <<page.ns>> \o p, ns |-> page.ns, folder |-> None,
                      name |-> NameOf(p), seq |-> 0, timer |-> FALSE, check |-> "idle", of |-> None, busy |-> FALSE]
    BY DEF PickerOpens
  <1>4. PickerRight'
    BY <1>1, <1>2, <1>3 DEF PickerRight, MaybePath
  <1>5. PasteRight'
    BY <1>1, <1>3 DEF PasteRight
  <1> QED BY <1>3, <1>4, <1>5, DialogStep DEF CheckRight

IsPicker(r, mode, from, n, d, m, seq, t, c, of, busy) ==
  r = [open |-> TRUE, mode |-> mode, from |-> from, ns |-> n, folder |-> d, name |-> m,
       seq |-> seq, timer |-> t, check |-> c, of |-> of, busy |-> busy]

LEMMA ChoiceIs ==
  ASSUME NEW mode, NEW from, NEW n, NEW d, NEW m, NEW seq, NEW t, NEW c, NEW of, NEW busy, NEW r,
         IsPicker(r, mode, from, n, d, m, seq, t, c, of, busy), NEW q
  PROVE  /\ q = [r EXCEPT !.timer = FALSE, !.check = "idle"] =>
              IsPicker(q, mode, from, n, d, m, seq, FALSE, "idle", of, busy)
         /\ q = [r EXCEPT !.timer = TRUE, !.check = "checking", !.seq = @ + 1] =>
              IsPicker(q, mode, from, n, d, m, seq + 1, TRUE, "checking", of, busy)
  <1> r = [open |-> TRUE, mode |-> mode, from |-> from, ns |-> n, folder |-> d, name |-> m,
           seq |-> seq, timer |-> t, check |-> c, of |-> of, busy |-> busy]
    BY DEF IsPicker
  <1>1. /\ r.mode = mode /\ r.from = from /\ r.ns = n /\ r.folder = d /\ r.name = m /\ r.seq = seq
        /\ r.of = of /\ r.busy = busy
    OBVIOUS
  <1>2. ASSUME q = [r EXCEPT !.timer = FALSE, !.check = "idle"]
        PROVE  q = [open |-> TRUE, mode |-> mode, from |-> from, ns |-> n, folder |-> d, name |-> m,
                    seq |-> seq, timer |-> FALSE, check |-> "idle", of |-> of, busy |-> busy]
    <2>1. q = [open |-> TRUE, mode |-> r.mode, from |-> r.from, ns |-> r.ns, folder |-> r.folder, name |-> r.name,
               seq |-> r.seq, timer |-> FALSE, check |-> "idle", of |-> r.of, busy |-> r.busy]
      BY <1>2
    <2> QED BY <1>1, <2>1
  <1>3. ASSUME q = [r EXCEPT !.timer = TRUE, !.check = "checking", !.seq = @ + 1]
        PROVE  q = [open |-> TRUE, mode |-> mode, from |-> from, ns |-> n, folder |-> d, name |-> m,
                    seq |-> seq + 1, timer |-> TRUE, check |-> "checking", of |-> of, busy |-> busy]
    <2>1. q = [open |-> TRUE, mode |-> r.mode, from |-> r.from, ns |-> r.ns, folder |-> r.folder, name |-> r.name,
               seq |-> r.seq + 1, timer |-> TRUE, check |-> "checking", of |-> r.of, busy |-> r.busy]
      BY <1>3
    <2> QED BY <1>1, <2>1
  <1> QED BY <1>2, <1>3 DEF IsPicker

\* The picker with another choice.
Chooser(new, n, d, m) ==
  IsPicker(new, picker.mode, picker.from, n, d, m, picker.seq, picker.timer, picker.check, picker.of, picker.busy)

LEMMA ChoosesInv ==
  ASSUME PlaceInv, UNCHANGED <<files, been, taken, page, errands, paste>>, picker.open, NEW new, Chooses(new),
         NEW n \in Root, NEW d, MaybePath(d), NEW m \in PathName, Chooser(new, n, d, m)
  PROVE  PlaceInv'
  <1>1. /\ picker.mode \in {"transfer", "copy"} /\ IsPlace(picker.from) /\ picker.from[1] \in Root /\ picker.seq \in Nat
    BY PickerIs
  <1>2. \E waits, check, seq :
          /\ IsPicker(picker', picker.mode, picker.from, n, d, m, seq, waits, check, picker.of, picker.busy)
          /\ check # "ok" /\ IF d = None THEN seq = picker.seq ELSE seq = picker.seq + 1
    <2>1. PICK q : q = picker'
      OBVIOUS
    <2>2. new.folder = d
      BY DEF Chooser, IsPicker
    <2>3. CASE d = None
      <3>1. q = [new EXCEPT !.timer = FALSE, !.check = "idle"]
        BY <2>1, <2>2, <2>3 DEF Chooses
      <3>2. IsPicker(q, picker.mode, picker.from, n, d, m, picker.seq, FALSE, "idle", picker.of, picker.busy)
        BY <3>1, ChoiceIs DEF Chooser
      <3> QED BY <2>1, <2>3, <3>2
    <2>4. CASE d # None
      <3>1. q = [new EXCEPT !.timer = TRUE, !.check = "checking", !.seq = @ + 1]
        BY <2>1, <2>2, <2>4 DEF Chooses
      <3>2. IsPicker(q, picker.mode, picker.from, n, d, m, picker.seq + 1, TRUE, "checking", picker.of, picker.busy)
        BY <3>1, ChoiceIs DEF Chooser
      <3> QED BY <2>1, <2>4, <3>2
    <2> QED BY <2>3, <2>4
  <1>3. PickerRight'
    BY <1>1, <1>2 DEF PickerRight, IsPicker
  <1>4. PasteRight'
    BY DEF PlaceInv, PasteRight
  <1>5. picker'.open /\ picker'.folder = d /\ IF d = None THEN picker'.seq = picker.seq ELSE picker'.seq = picker.seq + 1
    BY <1>2 DEF IsPicker
  <1>6. ASSUME NEW a \in errands' PROVE CheckRight(a)'
    <2> SUFFICES ASSUME a.kind = "check" PROVE CheckRight(a)'
      BY DEF CheckRight
    <2>1. a.seq \in Nat /\ a.seq <= picker.seq
      BY DEF PlaceInv, CheckRight
    <2>2. CASE d = None
      BY <1>1, <1>5, <2>1, <2>2 DEF CheckRight
    <2>3. CASE d # None
      BY <1>1, <1>5, <2>1, <2>3 DEF CheckRight
    <2> QED BY <2>2, <2>3
  <1> QED BY <1>3, <1>4, <1>6, DialogStep

LEMMA ChooseNsInv ==
  ASSUME PlaceInv, UNCHANGED taken, NEW n \in Root, ChooseNs(n)
  PROVE  PlaceInv'
  <1>1. PICK new : new = [picker EXCEPT !.ns = n, !.folder = None]
    OBVIOUS
  <1>2. picker.open /\ Chooses(new) /\ UNCHANGED <<files, been, page, errands, paste>>
    BY <1>1 DEF ChooseNs
  <1>3. Chooser(new, n, None, picker.name)
    BY <1>1, <1>2, PickerIs DEF Chooser, IsPicker
  <1>4. picker.name \in PathName /\ MaybePath(None)
    BY <1>2, PickerIs DEF MaybePath
  <1> QED BY <1>2, <1>3, <1>4, ChoosesInv

LEMMA ChooseFolderInv ==
  ASSUME PlaceInv, UNCHANGED taken, NEW d \in SomePath, ChooseFolder(d)
  PROVE  PlaceInv'
  <1>1. PICK new : new = [picker EXCEPT !.folder = d]
    OBVIOUS
  <1>2. picker.open /\ Chooses(new) /\ UNCHANGED <<files, been, page, errands, paste>>
    BY <1>1 DEF ChooseFolder
  <1>3. Chooser(new, picker.ns, d, picker.name)
    BY <1>1, <1>2, PickerIs DEF Chooser, IsPicker
  <1>4. picker.name \in PathName /\ picker.ns \in Root /\ MaybePath(d)
    BY <1>2, PickerIs DEF MaybePath
  <1> QED BY <1>2, <1>3, <1>4, ChoosesInv

LEMMA ChooseNameInv ==
  ASSUME PlaceInv, UNCHANGED taken, NEW m \in Named, ChooseName(m)
  PROVE  PlaceInv'
  <1>1. PICK new : new = [picker EXCEPT !.name = m]
    OBVIOUS
  <1>2. picker.open /\ Chooses(new) /\ UNCHANGED <<files, been, page, errands, paste>>
    BY <1>1 DEF ChooseName
  <1>3. Chooser(new, picker.ns, picker.folder, m)
    BY <1>1, <1>2, PickerIs DEF Chooser, IsPicker
  <1>4. MaybePath(picker.folder) /\ picker.ns \in Root /\ m \in PathName
    BY <1>2, PickerIs DEF PathName
  <1> QED BY <1>2, <1>3, <1>4, ChoosesInv

LEMMA DryRunInv ==
  ASSUME PlaceInv, UNCHANGED taken, DryRun
  PROVE  PlaceInv'
  <1>1. PICK k, ok : ok = Fits(picker.from, Chosen) /\ k = [kind |-> "check", seq |-> picker.seq, of |-> Chosen, ok |-> ok]
    OBVIOUS
  <1>2. /\ picker.open /\ picker' = [picker EXCEPT !.timer = FALSE] /\ errands' = errands \cup {k}
        /\ UNCHANGED <<files, been, page, paste>>
    BY <1>1 DEF DryRun
  <1>3. picker' = [open |-> TRUE, mode |-> picker.mode, from |-> picker.from, ns |-> picker.ns,
                   folder |-> picker.folder, name |-> picker.name, seq |-> picker.seq, timer |-> FALSE,
                   check |-> picker.check, of |-> picker.of, busy |-> picker.busy]
    BY <1>2, PickerIs
  <1>4. /\ picker.mode \in {"transfer", "copy"} /\ picker.ns \in Root
        /\ IsPlace(picker.from) /\ picker.from[1] \in Root
        /\ MaybePath(picker.folder) /\ picker.name \in PathName /\ picker.seq \in Nat
        /\ picker.check = "ok" /\ picker.folder # None => picker.of = Chosen
    BY <1>2, PickerIs
  <1>5. Chosen' = Chosen
    BY <1>3 DEF Chosen
  <1>6. PickerRight'
    BY <1>3, <1>4, <1>5 DEF PickerRight
  <1>7. \A a \in errands' : CheckRight(a)'
    <2>1. \A a \in errands : CheckRight(a)'
      BY <1>2, <1>3, ChecksStay
    <2>2. CheckRight(k)'
      BY <1>1, <1>3, <1>4, <1>5 DEF CheckRight
    <2> QED BY <1>2, <2>1, <2>2
  <1>8. PasteRight'
    BY <1>2 DEF PlaceInv, PasteRight
  <1>9. k.kind = "check"
    BY <1>1
  <1> QED BY <1>2, <1>6, <1>7, <1>8, <1>9, DialogStep

LEMMA CheckedInv ==
  ASSUME PlaceInv, UNCHANGED taken, NEW a \in errands, Checked(a)
  PROVE  PlaceInv'
  <1>1. a.kind = "check" /\ errands' = errands \ {a} /\ UNCHANGED <<files, been, page, paste>>
    BY DEF Checked, Ends
  <1>2. PasteRight'
    BY <1>1 DEF PlaceInv, PasteRight
  <1>3. CASE ~Latest(a)
    <2>1. picker' = picker
      BY <1>3 DEF Checked
    <2>2. PickerRight' /\ \A c \in errands : CheckRight(c)'
      BY <2>1, ChecksStay DEF PlaceInv, PickerRight, Chosen
    <2> QED BY <1>1, <1>2, <2>2, DialogStep
  <1>4. CASE Latest(a)
    <2>1. PICK says : says = IF a.ok THEN "ok" ELSE "refused"
      OBVIOUS
    <2>2. picker.open /\ a.seq = picker.seq /\ picker' = [picker EXCEPT !.check = says, !.of = a.of]
      BY <1>4, <2>1 DEF Checked, Latest
    <2>3. picker' = [open |-> TRUE, mode |-> picker.mode, from |-> picker.from, ns |-> picker.ns,
                     folder |-> picker.folder, name |-> picker.name, seq |-> picker.seq, timer |-> picker.timer,
                     check |-> says, of |-> a.of, busy |-> picker.busy]
      BY <2>2, PickerIs
    <2>4. /\ picker.mode \in {"transfer", "copy"} /\ picker.ns \in Root
          /\ IsPlace(picker.from) /\ picker.from[1] \in Root
          /\ MaybePath(picker.folder) /\ picker.name \in PathName /\ picker.seq \in Nat
      BY <2>2, PickerIs
    <2>5. picker.folder # None => a.of = Chosen
      BY <1>1, <2>2 DEF PlaceInv, CheckRight
    <2>6. Chosen' = Chosen
      BY <2>3 DEF Chosen
    <2>7. PickerRight'
      BY <2>3, <2>4, <2>5, <2>6 DEF PickerRight
    <2>8. \A c \in errands : CheckRight(c)'
      BY <2>2, <2>3, ChecksStay
    <2> QED BY <1>1, <1>2, <2>7, <2>8, DialogStep
  <1> QED BY <1>3, <1>4

LEMMA ClosesInv ==
  ASSUME PlaceInv, UNCHANGED <<files, been, taken, page, errands>>, picker' = Shut \/ picker' = picker, PasteRight'
  PROVE  PlaceInv'
  <1>1. PickerRight'
    BY DEF PlaceInv, PickerRight, Chosen
  <1>2. \A c \in errands : CheckRight(c)'
    BY ChecksStay DEF Shut
  <1> QED BY <1>1, <1>2, DialogStep

LEMMA ConfirmInv ==
  ASSUME PlaceInv, ~Hurried, UNCHANGED taken, Confirm
  PROVE  PlaceInv'
  <1>1. TreeRight /\ PageRight /\ page.ns \in Root /\ PasteRight
    BY DEF PlaceInv, PageRight
  <1>2. picker.open /\ Chosen # None /\ Calm /\ UNCHANGED <<page, paste>> /\ picker' = [picker EXCEPT !.busy = TRUE]
    BY DEF Confirm, Confirmable
  <1>3. picker' = [open |-> TRUE, mode |-> picker.mode, from |-> picker.from, ns |-> picker.ns,
                   folder |-> picker.folder, name |-> picker.name, seq |-> picker.seq, timer |-> picker.timer,
                   check |-> picker.check, of |-> picker.of, busy |-> TRUE]
    BY <1>2, PickerIs
  <1>4. /\ picker.mode \in {"transfer", "copy"} /\ picker.ns \in Root
        /\ IsPlace(picker.from) /\ picker.from[1] \in Root
        /\ MaybePath(picker.folder) /\ picker.name \in PathName /\ picker.seq \in Nat
        /\ picker.check = "ok" /\ picker.folder # None => picker.of = Chosen
    BY <1>2, PickerIs
  <1>5. PICK q, t, ok, mode : q = picker.from /\ t = Chosen /\ ok = Fits(q, t) /\ mode = picker.mode
    OBVIOUS
  <1>6. IsPlace(q) /\ q[1] \in Root /\ IsPlace(t) /\ t[1] \in Root
    <2>1. picker.folder \in SomePath
      BY <1>2, <1>4 DEF Chosen, MaybePath
    <2>2. t = <<picker.ns>> \o Append(picker.folder, picker.name)
      BY <1>2, <1>5 DEF Chosen
    <2>3. IsPlace(t) /\ t[1] \in Root
      BY <1>4, <2>1, <2>2, AppendPlace
    <2> QED BY <1>4, <1>5, <2>3
  <1>e. PICK e : IsErrand(e, mode, page.ns, q, t, ok)
    BY ErrandIs
  <1>7. /\ Errand(mode, page.ns, q, t, ok) = {e} /\ e.kind = mode /\ e.ns = page.ns /\ e.cur = page.path
        /\ e.from = q /\ e.to = t /\ (e.ok <=> ok) /\ e.text = TextAt(<<page.ns>> \o q)
    BY <1>e DEF IsErrand
  <1>8. Transfers(mode, q, t) /\ errands' = errands \cup {e}
    BY <1>5, <1>7 DEF Confirm
  <1>9. /\ TreeRight' /\ been \subseteq been'
        /\ \A r \in DOMAIN files :
             /\ mode = "copy" \/ ~Fits(q, t) \/ ~Under(r, q) => Has(files', r, files[r])
             /\ mode # "copy" /\ Fits(q, t) /\ Under(r, q) => Has(files', Rebase(r, q, t), files[r])
    BY <1>1, <1>6, <1>8, TransferTree
  <1>10. ErrandRight(e)'
    BY <1>2, <1>4, <1>5, <1>6, <1>7 DEF ErrandRight, IsPlace
  <1>11. PickerRight' /\ PasteRight'
    <2>1. Chosen' = Chosen
      BY <1>3 DEF Chosen
    <2>2. PickerRight'
      BY <1>3, <1>4, <2>1 DEF PickerRight
    <2> QED BY <1>1, <1>2, <2>2 DEF PasteRight
  <1>12. \A c \in errands : CheckRight(c)'
    BY <1>2, <1>3, ChecksStay
  <1>13. Moves(e) <=> mode = "transfer" /\ Fits(q, t)
    BY <1>4, <1>5, <1>7 DEF Moves
  <1>14. Moves(e) \/ NotesStand
    BY <1>4, <1>5, <1>9, <1>13 DEF NotesStand
  <1>15. ASSUME Shown, mode = "transfer", Fits(q, t) PROVE Lands(e)'
    <2>1. Stands(Spot, page.text) /\ page.text # None
      BY <1>2, <1>15, CalmStands DEF Shown
    <2>2. TextAt(Spot) = page.text => Spot \in DOMAIN files
      BY <2>1 DEF TextAt
    <2>3. PICK h : h = Spot
      OBVIOUS
    <2>4. h = Spot'
      BY <1>2, <2>3 DEF Spot
    <2>5. CASE Under(h, q)
      <3>1. PICK r : r = Rebase(h, q, t)
        OBVIOUS
      <3>2. TextAt(Spot) = page.text => Has(files', r, files[Spot])
        BY <1>9, <1>15, <2>2, <2>3, <2>5, <3>1
      <3>3. Stands(r, page.text)'
        BY <1>2, <2>1, <3>2, GoesAlong
      <3>4. (Stands(Rebase(Spot, e.from, e.to), page.text))'
        BY <1>7, <2>4, <3>1, <3>3 DEF Rebase
      <3> QED BY <1>7, <1>15, <2>4, <2>5, <3>4 DEF Lands
    <2>6. CASE ~Under(h, q)
      <3>1. TextAt(Spot) = page.text => Has(files', h, files[Spot])
        BY <1>9, <2>2, <2>3, <2>6
      <3>2. Stands(h, page.text)'
        BY <1>2, <2>1, <3>1, GoesAlong
      <3>3. (Stands(Spot, page.text))'
        BY <2>4, <3>2
      <3> QED BY <1>7, <1>15, <2>4, <2>6, <3>3 DEF Lands
    <2> QED BY <2>5, <2>6
  <1>16. e.kind \notin {"check", "load"}
    BY <1>4, <1>5, <1>7
  <1> QED BY <1>2, <1>8, <1>9, <1>10, <1>11, <1>12, <1>13, <1>14, <1>15, <1>16, AskStep

\* A path is under a place if it is in its workspace and under its path there.
LEMMA UnderPlace ==
  ASSUME NEW n \in Root, NEW p \in SomePath, NEW q, IsPlace(q), q[1] \in Root
  PROVE  Under(<<n>> \o p, q) <=> n = q[1] /\ Under(p, Tail(q))
  <1>1. q \in SomePath /\ Len(q) \in Nat /\ Len(q) >= 2 /\ Tail(q) \in SomePath /\ q = <<q[1]>> \o Tail(q)
    BY PathPlace DEF IsPlace
  <1>2. PICK h : h = <<n>> \o p
    OBVIOUS
  <1>3. h \in SomePath /\ h[1] = n
    BY <1>2, PlacePath
  <1>4. CASE n = q[1]
    <2>1. PICK d : d = Tail(q)
      OBVIOUS
    <2>2. d \in SomePath /\ q = <<n>> \o d
      BY <1>1, <1>4, <2>1
    <2>3. Under(<<n>> \o p, <<n>> \o d) <=> Under(p, d)
      BY <2>2, PlaceUnder
    <2> QED BY <1>4, <2>1, <2>2, <2>3
  <1>5. CASE n # q[1]
    <2>1. ~(\A i \in 1 .. Len(q) : h[i] = q[i])
      BY <1>1, <1>3, <1>5
    <2> QED BY <1>1, <1>2, <1>3, <1>5, <2>1, UnderAt
  <1> QED BY <1>4, <1>5

LEMMA ConfirmedInv ==
  ASSUME PlaceInv, UNCHANGED taken, NEW a \in errands, Confirmed(a)
  PROVE  PlaceInv'
  <1>1. a.kind \in {"copy", "transfer"} /\ UNCHANGED <<files, been, paste>>
    BY DEF Confirmed
  <1>2. PageRight /\ PickerRight /\ PasteRight' /\ a.ns = page.ns /\ a.cur = page.path /\ page.ns \in Root
    BY <1>1 DEF PlaceInv, ErrandRight, PageRight, PasteRight
  <1>3. CASE ~a.ok
    <2>1. picker' = [picker EXCEPT !.busy = FALSE, !.check = "refused"] /\ page' = page /\ Ends(a, {}) /\ ~Moves(a)
      BY <1>3 DEF Confirmed, Moves
    <2>2. CASE picker = Shut
      <3>1. picker' = Shut
        BY <2>1, <2>2 DEF Shut
      <3>2. PickerRight' /\ \A c \in errands : CheckRight(c)'
        BY <3>1, ChecksStay DEF PickerRight, Shut
      <3> QED BY <1>1, <1>2, <2>1, <3>2, SamePage, AnswerStep
    <2>3. CASE picker # Shut
      <3>1. picker.open
        BY <1>2, <2>3 DEF PickerRight
      <3>2. picker' = [open |-> TRUE, mode |-> picker.mode, from |-> picker.from, ns |-> picker.ns,
                       folder |-> picker.folder, name |-> picker.name, seq |-> picker.seq, timer |-> picker.timer,
                       check |-> "refused", of |-> picker.of, busy |-> FALSE]
        BY <2>1, <3>1, PickerIs
      <3>3. /\ picker.mode \in {"transfer", "copy"} /\ picker.ns \in Root
            /\ IsPlace(picker.from) /\ picker.from[1] \in Root
            /\ MaybePath(picker.folder) /\ picker.name \in PathName /\ picker.seq \in Nat
        BY <3>1, PickerIs
      <3>4. PickerRight'
        BY <3>2, <3>3 DEF PickerRight
      <3>5. \A c \in errands : CheckRight(c)'
        BY <3>1, <3>2, ChecksStay
      <3> QED BY <1>1, <1>2, <2>1, <3>4, <3>5, SamePage, AnswerStep
    <2> QED BY <2>2, <2>3
  <1>4. CASE a.ok
    <2>1. picker' = Shut /\ Transferred(a)
      BY <1>4 DEF Confirmed
    <2>2. PickerRight' /\ \A c \in errands : CheckRight(c)'
      BY <2>1, ChecksStay DEF PickerRight, Shut
    <2>3. CASE a.kind = "copy"
      <3>1. page' = page /\ Ends(a, {}) /\ ~Moves(a)
        BY <2>1, <2>3 DEF Transferred, Moves
      <3> QED BY <1>1, <1>2, <2>2, <3>1, SamePage, AnswerStep
    <2>4. CASE a.kind = "transfer"
      <3>1. PICK from, to, here, there : from = Tail(a.from) /\ to = Tail(a.to) /\ here = a.from[1] /\ there = a.to[1]
        OBVIOUS
      <3>2. /\ IsPlace(a.from) /\ IsPlace(a.to) /\ here \in Root /\ there \in Root
        BY <2>4, <3>1 DEF PlaceInv, ErrandRight
      <3>3. from \in SomePath /\ to \in SomePath /\ a.from = <<here>> \o from /\ a.to = <<there>> \o to
        BY <3>1, <3>2, PathPlace DEF IsPlace
      <3>4. PICK open, p, g : /\ open = (here = page.ns /\ page.path # None /\ Under(page.path, from))
                              /\ p = Follow(page.path, from, to)
                              /\ g = IF page.last[here] = None \/ ~Under(page.last[here], from) THEN page.last[here]
                                     ELSE IF here = there THEN Follow(page.last[here], from, to) ELSE None
        OBVIOUS
      <3>5. PICK left : left = [page.last EXCEPT ![here] = g]
        OBVIOUS
      <3>6. MaybePath(p) /\ MaybePath(g) /\ (page.path = None => p = None)
        BY <1>2, <3>2, <3>3, <3>4, FollowIs DEF PageRight, MaybePath
      <3>7. DOMAIN left = Root /\ \A n \in Root : MaybePath(left[n])
        BY <1>2, <3>5, <3>6 DEF PageRight
      <3>8. IF here = there
            THEN page' = [page EXCEPT !.last = left, !.path = IF open THEN p ELSE page.path] /\ Ends(a, {})
            ELSE IF open THEN page' = Enters(there, [left EXCEPT ![there] = p]) /\ Ends(a, LoadsLast(there, p))
            ELSE page' = [page EXCEPT !.last = left] /\ Ends(a, {})
        BY <1>2, <2>1, <2>4, <3>1, <3>4, <3>5 DEF Transferred
      <3>9. Shown => (Under(Spot, a.from) <=> open) /\ page.path \in SomePath
        BY <1>2, <3>1, <3>2, <3>4, UnderPlace DEF Shown, Spot, PageRight, MaybePath
      <3>10. Shown => IF Under(Spot, a.from) THEN Stands(Rebase(Spot, a.from, a.to), page.text) ELSE Stands(Spot, page.text)
        BY <1>4, <2>4 DEF PlaceInv, OpenRight, Moves, Lands
      <3>11. CASE here = there
        <4>1. PICK f : f = IF open THEN p ELSE page.path
          OBVIOUS
        <4>2. page' = [page EXCEPT !.last = left, !.path = f] /\ Ends(a, {})
          BY <3>8, <3>11, <4>1
        <4>3. page' = [ns |-> page.ns, path |-> f, text |-> page.text, last |-> left]
          BY <1>2, <4>2 DEF PageRight
        <4>4. MaybePath(f) /\ (page.path = None => f = None)
          BY <1>2, <3>6, <4>1 DEF PageRight
        <4>5. PageRight'
          BY <1>2, <3>7, <4>3, <4>4 DEF PageRight
        <4>6. ASSUME Shown' PROVE Stands(Spot, page.text)'
          <5>1. Shown /\ page'.ns = page.ns /\ page'.path = f /\ page'.text = page.text
            BY <4>3, <4>4, <4>6 DEF Shown
          <5>2. Stands(<<page.ns>> \o f, page.text)
            <6>1. CASE open
              <7>1. /\ page.path \in SomePath /\ page.path # None /\ Under(page.path, from) /\ page.ns = here
                    /\ Stands(Rebase(Spot, a.from, a.to), page.text)
                BY <3>4, <3>9, <3>10, <5>1, <6>1 DEF Shown
              <7>2. Rebase(Spot, a.from, a.to) = <<there>> \o Rebase(page.path, from, to)
                <8>1. Rebase(<<here>> \o page.path, <<here>> \o from, <<there>> \o to) = <<there>> \o Rebase(page.path, from, to)
                  <9>1. Along(here, there, page.path, from, to)
                    BY <3>2, <3>3, <7>1, PlaceUnder
                  <9> QED BY <9>1 DEF Along
                <8> QED BY <3>3, <7>1, <8>1 DEF Spot
              <7>3. p = Rebase(page.path, from, to)
                BY <3>4, <7>1 DEF Follow
              <7> QED BY <3>11, <4>1, <6>1, <7>1, <7>2, <7>3
            <6>2. CASE ~open
              BY <3>9, <3>10, <4>1, <5>1, <6>2 DEF Spot
            <6> QED BY <6>1, <6>2
          <5> QED BY <1>1, <5>1, <5>2 DEF Stands, TextAt, Spot
        <4> QED BY <1>1, <1>2, <2>2, <4>2, <4>5, <4>6, AnswerStep
      <3>12. CASE here # there /\ open
        <4>1. PICK last : last = [left EXCEPT ![there] = p]
          OBVIOUS
        <4>2. page' = Enters(there, last) /\ Ends(a, LoadsLast(there, p))
          BY <3>8, <3>12, <4>1
        <4>3. DOMAIN last = Root /\ last[there] = p /\ \A n \in Root : MaybePath(last[n])
          BY <3>2, <3>6, <3>7, <4>1
        <4>4. page' = [ns |-> there, path |-> p, text |-> None, last |-> last]
          BY <1>2, <4>2, <4>3 DEF Enters, PageRight
        <4>5. PageRight' /\ ~Shown'
          BY <3>2, <3>6, <4>3, <4>4 DEF PageRight, Shown
        <4>6. PICK more : more = LoadsLast(there, p)
          OBVIOUS
        <4>7. (\A e, f \in more : e = f) /\ \A e \in more : e.kind = "load" /\ ErrandRight(e)'
          BY <1>1, <3>6, <4>4, <4>6, LoadsAre
        <4> QED BY <1>1, <1>2, <2>2, <4>2, <4>5, <4>6, <4>7, AnswerStep
      <3>13. CASE here # there /\ ~open
        <4>1. page' = [page EXCEPT !.last = left] /\ Ends(a, {})
          BY <3>8, <3>13
        <4>2. page' = [ns |-> page.ns, path |-> page.path, text |-> page.text, last |-> left]
          BY <1>2, <4>1 DEF PageRight
        <4>3. PageRight'
          BY <1>2, <3>7, <4>2 DEF PageRight
        <4>4. Shown' => Stands(Spot, page.text)'
          BY <1>1, <3>9, <3>10, <3>13, <4>2 DEF Shown, Spot, Stands, TextAt
        <4> QED BY <1>1, <1>2, <2>2, <4>1, <4>3, <4>4, AnswerStep
      <3> QED BY <3>11, <3>12, <3>13
    <2> QED BY <1>1, <2>3, <2>4
  <1> QED BY <1>3, <1>4


-----------------------------------------------------------------------------
(* Paste here.                                                             *)

LEMMA PasteOpensInv ==
  ASSUME PlaceInv, UNCHANGED taken, NEW d \in FoldersIn(page.ns), PasteOpens(d)
  PROVE  PlaceInv'
  <1>1. TreeRight /\ page.ns \in Root
    BY DEF PlaceInv, PageRight
  <1>2. d \in SomePath
    BY <1>1, PathsAre
  <1>3. PICK m \in Named : paste' = [open |-> TRUE, ns |-> page.ns, folder |-> d, name |-> m, busy |-> FALSE]
    BY DEF PasteOpens
  <1>4. UNCHANGED <<files, been, page, errands, picker>>
    BY DEF PasteOpens
  <1>5. PasteRight'
    BY <1>1, <1>2, <1>3 DEF PasteRight, PathName
  <1> QED BY <1>4, <1>5, ClosesInv

LEMMA PasteCloses1Inv ==
  ASSUME PlaceInv, UNCHANGED taken, PasteCloses
  PROVE  PlaceInv'
  <1>1. UNCHANGED <<files, been, page, errands, picker>> /\ PasteRight'
    BY DEF PasteCloses, PasteRight
  <1> QED BY <1>1, ClosesInv

LEMMA PickerClosesInv ==
  ASSUME PlaceInv, UNCHANGED taken, PickerCloses
  PROVE  PlaceInv'
  <1>1. UNCHANGED <<files, been, page, errands, paste>> /\ picker' = Shut
    BY DEF PickerCloses
  <1>2. PasteRight'
    BY <1>1 DEF PlaceInv, PasteRight
  <1> QED BY <1>1, <1>2, ClosesInv

LEMMA PasteIs ==
  ASSUME PlaceInv, paste.open
  PROVE  /\ paste = [open |-> TRUE, ns |-> paste.ns, folder |-> paste.folder, name |-> paste.name, busy |-> paste.busy]
         /\ paste.ns \in Root /\ paste.folder \in SomePath /\ paste.name \in PathName
  BY DEF PlaceInv, PasteRight, Shut

LEMMA PasteNoteInv ==
  ASSUME PlaceInv, ~Hurried, UNCHANGED taken, NEW text, PasteNote(text)
  PROVE  PlaceInv'
  <1>1. TreeRight /\ PickerRight /\ PasteRight /\ paste.open
    BY DEF PlaceInv, PasteNote
  <1>2. /\ paste = [open |-> TRUE, ns |-> paste.ns, folder |-> paste.folder, name |-> paste.name, busy |-> paste.busy]
        /\ paste.ns \in Root /\ paste.folder \in SomePath /\ paste.name \in PathName
    BY <1>1, PasteIs
  <1>3. PICK q, p, ok : q = <<paste.ns>> \o Append(paste.folder, paste.name) /\ p = Tail(q) /\ ok = CanMake(q, text)
    OBVIOUS
  <1>4. IsPlace(q) /\ p \in SomePath /\ q \in SomePath
    <2>1. PICK r : r = Append(paste.folder, paste.name)
      OBVIOUS
    <2>2. r \in SomePath /\ IsPlace(q) /\ p = r
      BY <1>2, <1>3, <2>1, AppendPlace
    <2> QED BY <2>2 DEF IsPlace
  <1>5. /\ Calm /\ Creates(q, text) /\ UNCHANGED <<page, picker>> /\ paste' = [paste EXCEPT !.busy = TRUE]
        /\ errands' = errands \cup Errand("paste", page.ns, p, q, ok)
    BY <1>3 DEF PasteNote
  <1>e. PICK e : IsErrand(e, "paste", page.ns, p, q, ok)
    BY ErrandIs
  <1>6. /\ Errand("paste", page.ns, p, q, ok) = {e} /\ e.kind = "paste" /\ e.ns = page.ns /\ e.cur = page.path
        /\ e.from = p /\ e.to = q /\ (e.ok <=> ok) /\ e.text = TextAt(<<page.ns>> \o p)
    BY <1>e DEF IsErrand
  <1>7. TreeRight' /\ been \subseteq been' /\ \A r \in DOMAIN files : Has(files', r, files[r])
    BY <1>1, <1>4, <1>5, CreateTree
  <1>8. ErrandRight(e)'
    BY <1>4, <1>5, <1>6 DEF ErrandRight
  <1>9. PickerRight' /\ NotesStand
    BY <1>1, <1>5, <1>7 DEF NotesStand, PickerRight, Chosen
  <1>10. PasteRight'
    <2>0. paste' = [paste EXCEPT !.busy = TRUE]
      BY <1>5
    <2>1. paste' = [open |-> TRUE, ns |-> paste.ns, folder |-> paste.folder, name |-> paste.name, busy |-> TRUE]
      BY <1>1, <2>0, PasteIs
    <2> QED BY <1>2, <2>1 DEF PasteRight
  <1>11. \A c \in errands : CheckRight(c)'
    BY <1>5, ChecksStay
  <1> QED BY <1>5, <1>6, <1>7, <1>8, <1>9, <1>10, <1>11, AskStep DEF Moves

LEMMA PastedInv ==
  ASSUME PlaceInv, UNCHANGED taken, NEW a \in errands, Pasted(a)
  PROVE  PlaceInv'
  <1>1. a.kind = "paste" /\ UNCHANGED <<files, been, page, picker>> /\ ~Moves(a)
    BY DEF Pasted, Moves
  <1>2. a.ns = page.ns /\ a.from \in SomePath /\ PasteRight
    BY <1>1 DEF PlaceInv, ErrandRight
  <1>3. PageRight' /\ (Shown' => Stands(Spot, page.text)')
    BY <1>1, SamePage
  <1>4. PickerRight' /\ \A c \in errands : CheckRight(c)'
    BY <1>1, ChecksStay DEF PlaceInv, PickerRight, Chosen
  <1>5. CASE a.ok
    <2>1. paste' = Shut /\ Ends(a, OpensNote(a.ns, a.from))
      BY <1>5 DEF Pasted
    <2>2. PICK e : OpensNote(a.ns, a.from) = {e} /\ e.kind = "open" /\ ErrandRight(e)'
      BY <1>1, <1>2, OpensAre
    <2>3. Ends(a, {e}) /\ PasteRight'
      BY <2>1, <2>2 DEF PasteRight
    <2> QED BY <1>1, <1>3, <1>4, <2>2, <2>3, AnswerStep
  <1>6. CASE ~a.ok
    <2>1. PICK m \in Named : paste' = IF paste.open THEN [paste EXCEPT !.busy = FALSE, !.name = m] ELSE Shut
      BY <1>6 DEF Pasted
    <2>2. Ends(a, {})
      BY <1>6 DEF Pasted
    <2>3. PasteRight'
      <3>1. CASE ~paste.open
        BY <2>1, <3>1 DEF PasteRight
      <3>2. CASE paste.open
        <4>1. /\ paste = [open |-> TRUE, ns |-> paste.ns, folder |-> paste.folder, name |-> paste.name, busy |-> paste.busy]
              /\ paste.ns \in Root /\ paste.folder \in SomePath
          BY <1>2, <3>2 DEF PasteRight, Shut
        <4>2. paste' = [open |-> TRUE, ns |-> paste.ns, folder |-> paste.folder, name |-> m, busy |-> FALSE]
          BY <2>1, <3>2, <4>1
        <4> QED BY <4>1, <4>2 DEF PasteRight, PathName
      <3> QED BY <3>1, <3>2
    <2> QED BY <1>1, <1>3, <1>4, <2>2, <2>3, AnswerStep
  <1> QED BY <1>5, <1>6

-----------------------------------------------------------------------------
(* Agents.                                                                 *)

\* The page sees nothing of it.
LEMMA ApartInv ==
  ASSUME PlaceInv, Apart, TreeRight', NotesStand
  PROVE  PlaceInv'
  <1>1. UNCHANGED <<page, errands, picker, paste>>
    BY DEF Apart
  <1>2. PickerRight' /\ PasteRight'
    BY <1>1 DEF PlaceInv, PickerRight, PasteRight, Chosen
  <1>3. \A c \in errands : CheckRight(c)'
    BY <1>1, ChecksStay
  <1> QED BY <1>1, <1>2, <1>3, QuietStep

LEMMA SpotsAre == \A t \in Spots : IsPlace(t)
  <1> SUFFICES ASSUME NEW n \in Root, NEW m \in Named PROVE IsPlace(<<n, m>>)
    BY DEF Spots
  <1>1. <<n, m>> \in Seq(PathName) /\ Len(<<n, m>>) = 2
    BY DEF PathName
  <1> QED BY <1>1 DEF IsPlace, SomePath

LEMMA ItemsAre == ASSUME PlaceInv PROVE \A q \in Items : IsPlace(q)
  <1> SUFFICES ASSUME NEW q \in Items PROVE IsPlace(q)
    OBVIOUS
  <1>1. q \in SomePath /\ Len(q) > 1
    BY DEF Items, PlaceInv, TreeRight, IsTree
  <1>2. Len(q) \in Nat
    BY <1>1, LenProperties DEF SomePath
  <1> QED BY <1>1, <1>2 DEF IsPlace

LEMMA AgentDeletesInv ==
  ASSUME PlaceInv, NEW q \in Items, AgentDeletes(q)
  PROVE  PlaceInv'
  <1>1. TreeRight /\ Deletes(q) /\ Takes(q) /\ Apart /\ q \in SomePath
    BY ItemsAre DEF PlaceInv, AgentDeletes, IsPlace
  <1>2. /\ TreeRight' /\ been \subseteq been'
        /\ \A r \in DOMAIN files : ~Under(r, q) => Has(files', r, files[r])
    BY <1>1, DeleteTree
  <1>3. taken \subseteq taken' /\ \A r \in DOMAIN files : Under(r, q) => files[r] \in taken'
    BY <1>1 DEF Takes
  <1> QED BY <1>1, <1>2, <1>3, ApartInv DEF NotesStand

LEMMA AgentMovesInv ==
  ASSUME PlaceInv, NEW q \in Items, NEW t \in Spots, AgentMoves(q, t)
  PROVE  PlaceInv'
  <1>1. TreeRight /\ Takes(q) /\ Apart /\ IsPlace(q) /\ IsPlace(t)
    BY ItemsAre, SpotsAre DEF PlaceInv, AgentMoves
  <1>2. PICK mode : mode = "move"
    OBVIOUS
  <1>3. Transfers(mode, q, t)
    BY <1>2 DEF AgentMoves
  <1>4. /\ TreeRight' /\ been \subseteq been'
        /\ \A r \in DOMAIN files : ~Under(r, q) => Has(files', r, files[r])
    BY <1>1, <1>3, TransferTree
  <1>5. taken \subseteq taken' /\ \A r \in DOMAIN files : Under(r, q) => files[r] \in taken'
    BY <1>1 DEF Takes
  <1> QED BY <1>1, <1>4, <1>5, ApartInv DEF NotesStand

LEMMA AgentCopiesInv ==
  ASSUME PlaceInv, NEW q \in Items, NEW t \in Spots, AgentCopies(q, t)
  PROVE  PlaceInv'
  <1>1. TreeRight /\ UNCHANGED taken /\ Apart /\ IsPlace(q) /\ IsPlace(t)
    BY ItemsAre, SpotsAre DEF PlaceInv, AgentCopies
  <1>2. PICK mode : mode = "copy"
    OBVIOUS
  <1>3. Transfers(mode, q, t)
    BY <1>2 DEF AgentCopies
  <1>4. TreeRight' /\ been \subseteq been' /\ \A r \in DOMAIN files : Has(files', r, files[r])
    BY <1>1, <1>2, <1>3, TransferTree
  <1> QED BY <1>1, <1>4, ApartInv DEF NotesStand

LEMMA AgentMakesInv ==
  ASSUME PlaceInv, NEW q \in Spots, NEW text, Creates(q, text), UNCHANGED taken, Apart
  PROVE  PlaceInv'
  <1>1. TreeRight /\ IsPlace(q)
    BY SpotsAre DEF PlaceInv
  <1>2. TreeRight' /\ been \subseteq been' /\ \A r \in DOMAIN files : Has(files', r, files[r])
    BY <1>1, CreateTree
  <1> QED BY <1>2, ApartInv DEF NotesStand

-----------------------------------------------------------------------------
(* The theorem.                                                            *)

LEMMA PageActsInv ==
  ASSUME PlaceInv, ~Hurried, UNCHANGED taken, PageActs
  PROVE  PlaceInv'
  <1>1. ASSUME NEW p \in PathsIn(page.ns),
               \/ ClickNote(p) \/ DeleteFrom(p)
               \/ \E m \in Named : Rename(p, m)
               \/ \E d \in FoldersIn(page.ns) : TreeDrop(p, d)
               \/ \E mode \in {"transfer", "copy"} : PickerOpens(mode, p)
        PROVE  PlaceInv'
    BY <1>1, ClickNoteInv, DeleteFromInv, RenameInv, TreeDropInv, PickerOpensInv
  <1>2. ASSUME NEW n \in Root, SelectRoot(n) \/ ChooseNs(n) PROVE PlaceInv'
    BY <1>2, SelectRootInv, ChooseNsInv
  <1>3. ASSUME NEW d \in FoldersIn(page.ns),
               PasteOpens(d) \/ \E m \in Named : NewFolder(d, m) \/ \E text \in plan.texts : NewNote(d, m, text)
        PROVE  PlaceInv'
    BY <1>3, PasteOpensInv, NewFolderInv, NewNoteInv
  <1>4. ASSUME picker.open, NEW d \in FoldersIn(picker.ns) \cup {<<m>> : m \in Named}, ChooseFolder(d)
        PROVE  PlaceInv'
    <2>1. TreeRight /\ picker.ns \in Root
      BY <1>4, PickerIs DEF PlaceInv
    <2>2. \A m \in Named : <<m>> \in SomePath
      BY DEF SomePath, PathName
    <2>3. d \in SomePath
      BY <2>1, <2>2, PathsAre
    <2> QED BY <1>4, <2>3, ChooseFolderInv
  <1>5. ASSUME NEW m \in Named, ChooseName(m) PROVE PlaceInv'
    BY <1>5, ChooseNameInv
  <1>6. ASSUME DryRun \/ Confirm \/ PickerCloses \/ PasteCloses PROVE PlaceInv'
    BY <1>6, DryRunInv, ConfirmInv, PickerClosesInv, PasteCloses1Inv
  <1>7. ASSUME NEW text \in plan.texts, PasteNote(text) PROVE PlaceInv'
    BY <1>7, PasteNoteInv
  <1>8. ASSUME NEW a \in errands,
               \/ NoteCame(a) \/ LoadCame(a) \/ Created(a) \/ Deleted(a) \/ PathMoved(a)
               \/ Checked(a) \/ Confirmed(a) \/ Pasted(a)
        PROVE  PlaceInv'
    BY <1>8, NoteCameInv, LoadCameInv, CreatedInv, DeletedInv, PathMovedInv, CheckedInv, ConfirmedInv, PastedInv
  <1> QED BY <1>1, <1>2, <1>3, <1>4, <1>5, <1>6, <1>7, <1>8 DEF PageActs

LEMMA PlaceStep ==
  ASSUME PlaceInv, ~Hurried, PlacesNext \/ UNCHANGED placeVars
  PROVE  PlaceInv'
  <1>1. CASE PageActs /\ UNCHANGED taken
    BY <1>1, PageActsInv
  <1>2. ASSUME NEW q \in Items, AgentDeletes(q) \/ \E t \in Spots : AgentMoves(q, t) \/ AgentCopies(q, t)
        PROVE  PlaceInv'
    BY <1>2, AgentDeletesInv, AgentMovesInv, AgentCopiesInv
  <1>3. ASSUME NEW q \in Spots, AgentMakesFolder(q) \/ \E text \in plan.texts : AgentCreates(q, text)
        PROVE  PlaceInv'
    BY <1>3, AgentMakesInv DEF AgentMakesFolder, AgentCreates
  <1>4. CASE UNCHANGED placeVars
    <2>1. UNCHANGED <<files, been, taken, page, errands, picker, paste>>
      BY <1>4 DEF placeVars
    <2>2. PasteRight'
      BY <2>1 DEF PlaceInv, PasteRight
    <2> QED BY <2>1, <2>2, ClosesInv
  <1> QED BY <1>1, <1>2, <1>3, <1>4 DEF PlacesNext

LEMMA PlacesMean == ASSUME PlaceInv PROVE PlacesRight
  <1>1. PathIsNotes
    BY DEF PlaceInv, OpenRight, Shown, Spot, PathIsNotes
  <1>2. FollowsNote
    BY DEF PlaceInv, OpenRight, Shown, Spot, Stands, FollowsNote
  <1>3. ConfirmsChecked
    <2> SUFFICES ASSUME Confirmable PROVE picker.of = Chosen
      BY DEF ConfirmsChecked
    <2>1. picker.open /\ picker.check = "ok" /\ picker.folder # None
      BY DEF Confirmable, Chosen
    <2> QED BY <2>1, PickerIs
  <1> QED BY <1>1, <1>2, <1>3 DEF PlacesRight

\* Notes keep their pages through moves, and the picker asks for what it checked.
THEOREM PlacesHold == ASSUME ~Hurried PROVE Spec => []PlacesRight
  <1>1. Init => PlaceInv
    BY PlaceStart
  <1>2. PlaceInv /\ [Next]_vars => PlaceInv'
    BY PlaceSteps, PlaceStep
  <1>3. PlaceInv => PlacesRight
    BY PlacesMean
  <1> QED BY <1>1, <1>2, <1>3, PTL DEF Spec
=============================================================================
