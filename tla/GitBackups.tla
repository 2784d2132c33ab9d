-------------------------------- MODULE GitBackups --------------------------------
(***************************************************************************)
(* Where a namespace is backed up (frontend/src/components: AdminGit.jsx,  *)
(* Settings.jsx, PersonalNamespaceTab), with the server's steps as the     *)
(* pages meet them (handlers/workspaces.go, store/workspaces.go).          *)
(* A namespace has a row with a repository and a token of its own, or one  *)
(* that goes through a connection; a person has one for the namespace of   *)
(* their own.  The server pushes on its own time, and removing a namespace *)
(* deletes its notes when its last push worked.                            *)
(***************************************************************************)
EXTENDS WebBase

CONSTANTS Boss, Repo   \* super-admins, with a page each; repositories and bases

\* Nobody is called like the server; an id and the first repository are something.
ASSUME BossAssumption == "server" \notin Boss /\ None \notin Nat /\ None # "r"

VARIABLES
  rows,     \* the rows: id, place, via (a connection's id, or None), repo, token, on, sync
  conns,    \* the connections: id, repo, token
  gitMade,     \* ids so far
  notes,    \* place -> there (on the server), copies (repositories that have some of them)
  gitPages, \* page -> shows (rows and conns as read), at, form
  gitCalls,    \* requests of the pages
  gitEdits, \* page -> changes it made; "server": pushes
  picked,   \* the pairs of a repository and a token somebody asked for
  erased    \* what was removed, with what the page showed

gitVars == <<rows, conns, gitMade, notes, gitPages, gitCalls, gitEdits, picked, erased>>

Mine == "mine"   \* somebody's own namespace, and the page in Settings about it
PageId == Boss \cup {Mine}
Place == {"t", "v", Mine}
Empty == [shows |-> None, at |-> None, form |-> None]

GitRow(id, place, via, repo, token) ==
  [id |-> id, place |-> place, via |-> via, repo |-> repo, token |-> token, on |-> TRUE, sync |-> "never"]

\* One namespace has a backup of its own.
GitInit ==
  /\ rows = {GitRow(1, "t", None, "r", "r")} /\ picked = {<<"r", "r">>}
  /\ conns = {} /\ gitMade = 1 /\ erased = {} /\ gitCalls = {}
  /\ notes = [q \in Place |-> [there |-> q # "v", copies |-> {}]]
  /\ gitPages = [p \in PageId |-> Empty]
  /\ gitEdits = [p \in PageId \cup {"server"} |-> 0]

-----------------------------------------------------------------------------
(* The server.                                                             *)

RowOf(id) == {r \in rows : r.id = id}
Through(r) == CHOOSE c \in conns : c.id = r.via
Remote(r) == IF r.via = None THEN r.repo ELSE Through(r).repo

\* Mutant: a push that failed counts.
DurableOnce(r) == r.on /\ r.sync # "never"

\* storageHasDurableCopy.
Durable(r) == r.on /\ r.sync = "ok"

\* Mutant: a blank token is none too many.
MayPushAnyway(on, token, kept) == TRUE

\* requireCredentialForMirror: what is pushed to needs a token, given or kept.
MayPush(on, token, kept) == on => token # None \/ kept # None

\* Mutant: what has the name, not what was shown.
DecommissionedByName(op) == {r \in rows : r.place = op.place}

Decommissioned(op) == RowOf(op.id)

\* decommissionNamespace, for the rows that go; somebody's own stays.
NotesWithout(gone) ==
  [q \in Place |-> [notes[q] EXCEPT !.there = @ /\ ~\E r \in gone : r.place = q /\ q # Mine /\ Durable(r)]]

TokenKept(S) == IF \E r \in S : r.token # None THEN (CHOOSE r \in S : r.token # None).token ELSE None

\* What a row may be made of: adminCreate, adminUpdate, minePut.
GitRefused(op) ==
  LET there == {r \in rows : r.place = op.place}
      own == op.on => op.repo # None
  IN  CASE op.do = "own" -> there # {} \/ ~own \/ ~MayPush(op.on, op.token, None)
        [] op.do = "mine" -> ~own \/ ~MayPush(op.on, op.token, TokenKept(there))
        [] op.do = "grouped" -> there # {} \/ \A c \in conns : c.id # op.via
        [] op.do = "edit" -> \/ RowOf(op.id) = {}
                             \/ \E r \in RowOf(op.id) :
                                  \/ r.place = Mine
                                  \/ r.via = None /\ (~own \/ ~MayPush(op.on, op.token, r.token))
        [] op.do = "remove" -> Decommissioned(op) = {}
        [] op.do = "conn" -> op.id # 0 /\ \A c \in conns : c.id # op.id
        [] op.do = "unconn" -> \A c \in conns : c.id # op.id
        [] OTHER -> there = {}

\* store.Update: a token that is not given stays; a row that goes through a connection is
\* only turned on and off.
RowEdited(r, op) ==
  IF r.via # None THEN [r EXCEPT !.on = op.on]
  ELSE [r EXCEPT !.on = op.on, !.repo = op.repo, !.token = IF op.token = None THEN @ ELSE op.token]

RowsAfter(op) ==
  CASE op.do = "own" -> rows \cup {GitRow(gitMade + 1, op.place, None, op.repo, op.token)}
    [] op.do = "grouped" -> rows \cup {GitRow(gitMade + 1, op.place, op.via, None, None)}
    [] op.do = "edit" -> {IF r.id = op.id THEN RowEdited(r, op) ELSE r : r \in rows}
    [] op.do = "mine" -> IF \E r \in rows : r.place = Mine
                         THEN {IF r.place = Mine THEN RowEdited(r, op) ELSE r : r \in rows}
                         ELSE LET new == GitRow(gitMade + 1, Mine, None, op.repo, op.token)
                              IN  rows \cup {[new EXCEPT !.on = op.on]}
    [] op.do = "remove" -> rows \ Decommissioned(op)
    [] op.do = "unconn" -> {r \in rows : r.via # op.id}
    [] op.do = "conn" -> rows
    [] OTHER -> {r \in rows : r.place # op.place}

ConnsAfter(op) ==
  CASE op.do = "conn" /\ op.id = 0 -> conns \cup {[id |-> gitMade + 1, repo |-> op.repo, token |-> op.token]}
    [] op.do = "conn" /\ op.id # 0 ->
         {IF c.id # op.id THEN c
          ELSE [c EXCEPT !.repo = op.repo, !.token = IF op.token = None THEN @ ELSE op.token] : c \in conns}
    [] op.do = "unconn" -> {c \in conns : c.id # op.id}
    [] OTHER -> conns

\* adminDelete, groupsDelete: the rows that go for good.
Leaving(op) == IF op.do \in {"remove", "unconn"} THEN rows \ RowsAfter(op) ELSE {}

GitServe(p, op) ==
  IF GitRefused(op) THEN UNCHANGED <<rows, conns, gitMade, notes, gitEdits, picked, erased>>
  ELSE /\ rows' = RowsAfter(op) /\ conns' = ConnsAfter(op)
       /\ gitMade' = IF op.do \in {"own", "grouped", "mine", "conn"} THEN gitMade + 1 ELSE gitMade
       /\ notes' = IF op.do \in {"own", "grouped"} THEN [notes EXCEPT ![op.place].there = TRUE]
                   ELSE NotesWithout(Leaving(op))
       /\ gitEdits' = [gitEdits EXCEPT ![p] = @ + 1]
       /\ picked' = IF ~op.picks THEN picked
                    ELSE picked \cup {<<r.repo, r.token>> : r \in RowsAfter(op) \ rows}
       /\ erased' = erased \cup
                      {[was |-> r.id, shown |-> IF op.do = "remove" THEN op.id ELSE r.id,
                        said |-> op.said, place |-> r.place] : r \in {x \in Leaving(op) : x.place # Mine}}

\* A push, which works or does not.
Pushes(r) ==
  /\ r.on /\ notes[r.place].there /\ Spend("pushes")
  /\ \E ok \in BOOLEAN :
       /\ rows' = (rows \ {r}) \cup {[r EXCEPT !.sync = IF ok THEN "ok" ELSE "bad"]}
       /\ notes' = IF ok THEN [notes EXCEPT ![r.place].copies = @ \cup {Remote(r)}] ELSE notes
  /\ gitEdits' = [gitEdits EXCEPT !["server"] = @ + 1]
  /\ UNCHANGED <<conns, gitMade, gitPages, gitCalls, picked, erased>>

-----------------------------------------------------------------------------
(* The pages: reading.                                                     *)

NoCalls(p) == \A c \in gitCalls : c.by # p

\* useGit, load: the rows and the connections; in Settings one's own row.
GitRead(p) ==
  [by |-> p, kind |-> "read", at |-> gitEdits,
   shows |-> [rows |-> IF p = Mine THEN {r \in rows : r.place = Mine} ELSE rows,
              conns |-> IF p = Mine THEN {} ELSE conns]]

OpensGit(p) ==
  /\ NoCalls(p) /\ Spend("opens")
  /\ gitPages' = [gitPages EXCEPT ![p] = Empty]
  /\ gitCalls' = gitCalls \cup {GitRead(p)}
  /\ UNCHANGED <<rows, conns, gitMade, notes, gitEdits, picked, erased>>

GitShown(c) ==
  /\ c.kind = "read" /\ gitCalls' = gitCalls \ {c}
  /\ gitPages' = [gitPages EXCEPT ![c.by].shows = c.shows, ![c.by].at = c.at]
  /\ UNCHANGED <<rows, conns, gitMade, notes, gitEdits, picked, erased, plan>>

\* gitBackupFor, personalBackupOf: the row of a place, as it is shown.
BackupOf(p, place) == {r \in gitPages[p].shows.rows : r.place = place}

\* Mutant: a sync that was tried.
SyncedWhenTried(r) == r.on /\ r.sync # "never"

\* removeConfirmText: the notes are said to stay in the repository.
SaysSynced(r) == r.on /\ r.sync = "ok"

-----------------------------------------------------------------------------
(* The pages: what is asked for.                                           *)

Blank == [do |-> "own", place |-> None, id |-> 0, via |-> None, repo |-> None, token |-> None,
        on |-> TRUE, picks |-> FALSE, said |-> FALSE]

\* What a form may say: a repository, with a token for it or none.
Filled(op) ==
  UNION {{[op EXCEPT !.repo = r, !.token = t, !.picks = TRUE] : t \in {None, r}} : r \in Repo}

\* Mutant: the empty fields over the row's.
BlankToggle(r) == [Blank EXCEPT !.repo = None]

\* toggle: the fields as they are shown.
ToggleFields(r) == [Blank EXCEPT !.repo = r.repo]

TurnedOver(r, do) == [ToggleFields(r) EXCEPT !.do = do, !.place = r.place, !.id = r.id, !.on = ~r.on]

\* saveChoice: through a connection, or to a repository of its own.
SetUps(p, place) ==
  Filled([Blank EXCEPT !.place = place])
    \cup {[Blank EXCEPT !.do = "grouped", !.place = place, !.via = c.id] : c \in gitPages[p].shows.conns}

\* The form of a place: setting it up, or editing its row as it is shown now.
FormOps(p) ==
  LET f == gitPages[p].form
  IN  IF f = None THEN {}
      ELSE IF f.mode = "setup" THEN SetUps(p, f.place)
      ELSE UNION {Filled([Blank EXCEPT !.do = IF p = Mine THEN "mine" ELSE "edit",
                                                !.place = f.place, !.id = r.id]) : r \in BackupOf(p, f.place)}

OnConn(do, id) == [Blank EXCEPT !.do = do, !.id = id]

\* A connection is added, edited or deleted.
ConnOps(p) ==
  LET ids == {c.id : c \in gitPages[p].shows.conns}
  IN  (UNION {Filled(OnConn("conn", id)) : id \in ids \cup {0}}) \cup {OnConn("unconn", id) : id \in ids}

\* A row is turned on or off; in Settings one's own goes, elsewhere a namespace with its row.
ClickOps(p) ==
  LET shown == gitPages[p].shows.rows
  IN  {TurnedOver(r, IF p = Mine THEN "mine" ELSE "edit") : r \in {x \in shown : p = Mine \/ x.place # Mine}}
        \cup IF p = Mine THEN {[Blank EXCEPT !.do = "off", !.place = Mine]}
             ELSE {[Blank EXCEPT !.do = "remove", !.place = r.place, !.id = r.id, !.said = SaysSynced(r)] :
                     r \in shown}
                    \cup ConnOps(p)

OpensForm(p, place) ==
  /\ gitPages[p].shows # None /\ gitPages[p].form = None /\ NoCalls(p) /\ Spend("forms")
  /\ (p = Mine) = (place = Mine)
  /\ \A r \in BackupOf(p, place) : r.via = None
  /\ gitPages' = [gitPages EXCEPT ![p].form =
       [mode |-> IF BackupOf(p, place) = {} THEN "setup" ELSE "edit", place |-> place]]
  /\ UNCHANGED <<rows, conns, gitMade, notes, gitCalls, gitEdits, picked, erased>>

\* A row is turned on and off with the fields the page shows: nobody has edited it since.
AsShown(p, op) ==
  \A r \in RowOf(op.id) : \A s \in gitPages[p].shows.rows : s.id = r.id => s.repo = r.repo /\ s.on = r.on

GitClick(p) ==
  /\ gitPages[p].shows # None /\ NoCalls(p) /\ Spend("clicks")
  /\ \E op \in FormOps(p) \cup ClickOps(p) :
       LET sent == IF p = Mine /\ op.do = "own" THEN [op EXCEPT !.do = "mine"] ELSE op
       IN  /\ sent.do \in plan.does
           /\ Hurried \/ op.picks \/ op.do \notin {"edit", "mine"} \/ AsShown(p, op)
           /\ GitServe(p, sent)
           /\ gitCalls' = gitCalls \cup
                {[by |-> p, kind |-> "do", ok |-> ~GitRefused(sent), form |-> op \in FormOps(p)]}
  /\ UNCHANGED gitPages

\* run, act: everything is read again, done or not; the form closes when it was done.
GitDone(c) ==
  /\ c.kind = "do"
  /\ gitCalls' = (gitCalls \ {c}) \cup IF c.by = Mine /\ ~c.ok THEN {} ELSE {GitRead(c.by)}
  /\ gitPages' = IF c.ok /\ c.form THEN [gitPages EXCEPT ![c.by].form = None] ELSE gitPages
  /\ UNCHANGED <<rows, conns, gitMade, notes, gitEdits, picked, erased, plan>>

GitNext ==
  \/ \E p \in PageId : OpensGit(p) \/ GitClick(p) \/ \E place \in Place : OpensForm(p, place)
  \/ \E c \in gitCalls : GitShown(c) \/ GitDone(c)
  \/ \E r \in rows : Pushes(r)

-----------------------------------------------------------------------------
(* Properties                                                              *)

\* The notes of a namespace that was removed are on the server or were pushed somewhere.
CopyKept == \A e \in erased : notes[e.place].there \/ notes[e.place].copies # {}

\* What is pushed with a token of its own goes where somebody asked it to, with that token.
TokensWherePicked ==
  \A r \in rows : r.via = None =>
    (r.token # None => <<r.repo, r.token>> \in picked) /\ (r.on => r.token # None)

\* A removal takes what the page showed, not what was set up under the name since; and when
\* it said that the notes stay in the repository, they are in one.
RemovedAsSaid ==
  \A e \in erased : e.was = e.shown /\ (e.said => notes[e.place].copies # {})

\* A page shows what there is once it has its answers and nobody else has changed anything.
GitListsTrue ==
  \A p \in PageId : gitPages[p].shows # None /\ NoCalls(p)
                      /\ (\A w \in DOMAIN gitEdits \ {p} : gitEdits[w] = gitPages[p].at[w]) =>
                    gitPages[p].shows = GitRead(p).shows

BackupsRight == CopyKept /\ TokensWherePicked /\ RemovedAsSaid /\ GitListsTrue
=============================================================================
