--------------------------------- MODULE Places ---------------------------------
(***************************************************************************)
(* Notes and folders that change their place: created, pasted, renamed,    *)
(* dragged, moved or copied with the picker, and deleted, from a page      *)
(* (frontend/src/App.jsx, components/MoveToModal.jsx, PasteModal.jsx,      *)
(* transfer.js) and by agents (mcp-server/index.js).  The page's open note *)
(* and each workspace's last note go where their file goes.                *)
(*                                                                         *)
(* A place is a workspace followed by names; within its workspace it is a  *)
(* path.  A note's text stands for the note.                               *)
(***************************************************************************)
EXTENDS WebBase

CONSTANTS
  Root,      \* the workspaces
  Named,     \* what files and folders are called
  Longer,    \* <<m, n>> : the name m begins with the name n
  Stored,    \* place -> its text, Folder for a folder: at the start
  Opened     \* the note that is open at the start
Folder == "folder"

VARIABLES
  files,   \* place -> text or Folder
  been,    \* <<place, text>> : what there ever was
  taken,   \* the texts of notes that agents moved or deleted
  page,    \* ns, path (None: no note is open), text (None: it has not come),
           \* last (workspace -> path of the note last open there)
  errands, \* requests whose answers are to come
  picker,  \* the dialog that moves and copies
  paste    \* the dialog that pastes

placeVars == <<files, been, taken, page, errands, picker, paste>>

-----------------------------------------------------------------------------
(* Places.                                                                 *)

Under(p, d) == Len(p) >= Len(d) /\ SubSeq(p, 1, Len(d)) = d
Rebase(p, from, to) == to \o SubSeq(p, Len(from) + 1, Len(p))
FolderOf(p) == SubSeq(p, 1, Len(p) - 1)
NameOf(p) == p[Len(p)]
Parents(q) == {SubSeq(q, 1, n) : n \in 2 .. Len(q) - 1}

\* What is stored is a tree, and the note that is open is in it.
ASSUME StoredAssumption ==
  /\ DOMAIN Stored \subseteq Seq(Root \cup Named) \ {<<>>}
  /\ \A q \in DOMAIN Stored : \A d \in Parents(q) : d \in DOMAIN Stored /\ Stored[d] = Folder
  /\ Opened \in DOMAIN Stored /\ Opened[1] \in Root /\ Stored[Opened] # Folder

Shut == [open |-> FALSE]

PlacesInit ==
  /\ files = Stored /\ been = {<<q, Stored[q]>> : q \in DOMAIN Stored}
  /\ page = [ns |-> Opened[1], path |-> Tail(Opened), text |-> Stored[Opened],
             last |-> [n \in Root |-> IF n = Opened[1] THEN Tail(Opened) ELSE None]]
  /\ taken = {} /\ errands = {} /\ picker = Shut /\ paste = Shut

-----------------------------------------------------------------------------
(* What the server does with them.                                         *)

\* Nothing is there, and folders can be.
Vacant(q) == q \notin DOMAIN files /\ \A d \in Parents(q) : d \in DOMAIN files => files[d] = Folder

\* A transfer never overwrites, and a folder does not go into itself.
Fits(from, to) == from \in DOMAIN files /\ Vacant(to) /\ ~Under(to, from)

\* The files with what is at `from` at `to` as well; without it; with a new one.
Copied(from, to) ==
  [q \in DOMAIN files \cup Parents(to) \cup {Rebase(p, from, to) : p \in {p \in DOMAIN files : Under(p, from)}} |->
     IF q \in DOMAIN files THEN files[q] ELSE IF Under(q, to) THEN files[Rebase(q, to, from)] ELSE Folder]
Dropped(f, from) == [q \in {q \in DOMAIN f : ~Under(q, from)} |-> f[q]]
Added(q, text) ==
  [p \in DOMAIN files \cup Parents(q) \cup {q} |->
     IF p \in DOMAIN files THEN files[p] ELSE IF p = q THEN text ELSE Folder]

Becomes(f) == files' = f /\ been' = been \cup {<<q, f[q]>> : q \in DOMAIN f}
Stays == UNCHANGED <<files, been>>

Transfers(mode, from, to) ==
  IF ~Fits(from, to) THEN Stays
  ELSE Becomes(IF mode = "copy" THEN Copied(from, to) ELSE Dropped(Copied(from, to), from))
Deletes(q) == IF q \in DOMAIN files THEN Becomes(Dropped(files, q)) ELSE Stays

\* A folder may be there already.
CanMake(q, text) == Vacant(q) \/ (text = Folder /\ q \in DOMAIN files /\ files[q] = Folder)
Creates(q, text) == IF CanMake(q, text) THEN Becomes(Added(q, text)) ELSE Stays

TextAt(q) == IF q \in DOMAIN files /\ files[q] # Folder THEN files[q] ELSE None

\* What the tree may show.
PathsIn(n) == {Tail(b[1]) : b \in {b \in been : b[1][1] = n /\ Len(b[1]) > 1}}
FoldersIn(n) == {<<>>} \cup {p \in PathsIn(n) : <<<<n>> \o p, Folder>> \in been}

-----------------------------------------------------------------------------
(* Opening.  The page asks one thing at a time; an answer knows which      *)
(* workspace and which note were open when it was asked for.               *)

Calm == Hurried \/ \A a \in errands : a.kind = "check"

\* An open dialog covers the tree.
AtTree == Calm /\ ~picker.open /\ ~paste.open

Errand(kind, n, from, to, ok) ==
  {[kind |-> kind, ns |-> n, cur |-> page.path, from |-> from, to |-> to, ok |-> ok,
    text |-> TextAt(<<n>> \o from)]}
Ends(a, more) == errands' = (errands \ {a}) \cup more

\* openNote.
OpensNote(n, p) == Errand("open", n, p, p, TextAt(<<n>> \o p) # None)

ClickNote(p) ==
  /\ AtTree /\ Spend("opens")
  /\ errands' = errands \cup OpensNote(page.ns, p)
  /\ UNCHANGED <<files, been, page, picker, paste>>

NoteCame(a) ==
  /\ a.kind = "open" /\ Ends(a, {})
  /\ page' = IF a.ok THEN [page EXCEPT !.path = a.from, !.text = a.text, !.last[a.ns] = a.from] ELSE page
  /\ UNCHANGED <<files, been, picker, paste, plan>>

\* handleSelectNs: the note that was last open there is loaded.
Enters(n, last) == [page EXCEPT !.ns = n, !.path = last[n], !.text = None, !.last = last]
LoadsLast(n, p) == IF p = None THEN {} ELSE Errand("load", n, p, p, TextAt(<<n>> \o p) # None)

SelectRoot(n) ==
  /\ AtTree /\ n # page.ns /\ Spend("opens")
  /\ page' = Enters(n, page.last)
  /\ errands' = errands \cup LoadsLast(n, page.last[n])
  /\ UNCHANGED <<files, been, picker, paste>>

LoadCame(a) ==
  /\ a.kind = "load" /\ Ends(a, {})
  /\ page' = IF a.ok THEN [page EXCEPT !.text = a.text]
             ELSE [page EXCEPT !.path = None, !.text = None, !.last[a.ns] = None]
  /\ UNCHANGED <<files, been, picker, paste, plan>>

-----------------------------------------------------------------------------
(* From the tree.                                                          *)

\* doCreateNote, doCreateDrawing, doCreateTaskList; what is made is opened.
NewNote(d, m, text) ==
  LET q == <<page.ns>> \o Append(d, m)
  IN  /\ AtTree /\ Take("texts", text)
      /\ Creates(q, text)
      /\ errands' = errands \cup Errand("create", page.ns, Append(d, m), q, CanMake(q, text))
      /\ UNCHANGED <<page, picker, paste>>

Created(a) ==
  /\ a.kind = "create"
  /\ Ends(a, IF a.ok THEN OpensNote(a.ns, a.from) ELSE {})
  /\ UNCHANGED <<files, been, page, picker, paste, plan>>

\* doCreateFolder.
NewFolder(d, m) ==
  /\ AtTree /\ Spend("changes")
  /\ Creates(<<page.ns>> \o Append(d, m), Folder)
  /\ UNCHANGED <<page, errands, picker, paste>>

\* delete-file, delete-folder.
DeleteFrom(p) ==
  LET q == <<page.ns>> \o p
  IN  /\ AtTree /\ Spend("changes")
      /\ Deletes(q)
      /\ errands' = errands \cup
           Errand(IF p \in FoldersIn(page.ns) THEN "rmdir" ELSE "rm", page.ns, p, q, q \in DOMAIN files)
      /\ UNCHANGED <<page, picker, paste>>

\* startsWith: the path of a folder, or one that goes on from its name.
Begins(p, d) ==
  /\ p # None /\ Len(p) >= Len(d)
  /\ SubSeq(p, 1, Len(d) - 1) = FolderOf(d)
  /\ p[Len(d)] = NameOf(d) \/ <<p[Len(d)], NameOf(d)>> \in Longer

Deleted(a) ==
  LET gone(p) == IF a.kind = "rm" THEN p = a.from ELSE Begins(p, a.from)
  IN  /\ a.kind \in {"rm", "rmdir"} /\ Ends(a, {})
      /\ page' = IF ~a.ok THEN page
                 ELSE [page EXCEPT !.path = IF gone(a.cur) THEN None ELSE @,
                                   !.text = IF gone(a.cur) THEN None ELSE @,
                                   !.last[a.ns] = IF gone(@) THEN None ELSE @]
      /\ UNCHANGED <<files, been, picker, paste, plan>>

\* Mutant: only the note itself is followed, not what its folder holds.
FollowsItself(p, from, to) == IF p = from THEN to ELSE p

\* Where a path is after a move.
Follow(p, from, to) == IF p # None /\ Under(p, from) THEN Rebase(p, from, to) ELSE p

\* moveItem, for a rename and for a drop.
Relocate(p, to) ==
  LET q == <<page.ns>> \o p  IN
  LET t == <<page.ns>> \o to
  IN  /\ AtTree /\ p # to /\ Spend("changes")
      /\ Transfers("move", q, t)
      /\ errands' = errands \cup Errand("move", page.ns, p, to, Fits(q, t))
      /\ UNCHANGED <<page, picker, paste>>

Rename(p, m) == Relocate(p, Append(FolderOf(p), m))
TreeDrop(p, d) == ~Under(d, p) /\ d # FolderOf(p) /\ Relocate(p, Append(d, NameOf(p)))

PathMoved(a) ==
  /\ a.kind = "move" /\ Ends(a, {})
  /\ page' = IF ~a.ok THEN page
             ELSE [page EXCEPT !.path = IF Follow(a.cur, a.from, a.to) # a.cur
                                        THEN Follow(a.cur, a.from, a.to) ELSE @,
                               !.last[a.ns] = Follow(@, a.from, a.to)]
  /\ UNCHANGED <<files, been, picker, paste, plan>>

-----------------------------------------------------------------------------
(* The picker: a workspace, a folder and a name, checked with a dry run    *)
(* before it can be confirmed.                                             *)

\* The destination as it is chosen now.
Chosen == IF picker.folder = None THEN None ELSE <<picker.ns>> \o Append(picker.folder, picker.name)

\* A dialog is a new one each time: what the last one asked for is answered to nobody.
PickerOpens(mode, p) ==
  /\ AtTree /\ Spend("dialogs")
  /\ picker' = [open |-> TRUE, mode |-> mode, from |-> <<page.ns>> \o p, ns |-> page.ns, folder |-> None,
                name |-> NameOf(p), seq |-> 0, timer |-> FALSE, check |-> "idle", of |-> None, busy |-> FALSE]
  /\ errands' = {a \in errands : a.kind # "check"}
  /\ UNCHANGED <<files, been, page, paste>>

\* A choice starts a timer; what was checked before no longer counts.
Chooses(new) ==
  picker' = IF new.folder = None THEN [new EXCEPT !.timer = FALSE, !.check = "idle"]
            ELSE [new EXCEPT !.timer = TRUE, !.check = "checking", !.seq = @ + 1]

\* isInvalidDestination.
Offered(d) == ~(picker.ns = picker.from[1] /\ Under(<<picker.ns>> \o d, picker.from))

ChooseNs(n) ==
  /\ picker.open /\ ~picker.busy /\ n # picker.ns /\ Spend("choices")
  /\ Chooses([picker EXCEPT !.ns = n, !.folder = None])
  /\ UNCHANGED <<files, been, page, errands, paste>>

\* A folder of the list, or a new one in it.
ChooseFolder(d) ==
  /\ picker.open /\ ~picker.busy /\ d # picker.folder /\ Offered(d) /\ Spend("choices")
  /\ Chooses([picker EXCEPT !.folder = d])
  /\ UNCHANGED <<files, been, page, errands, paste>>

ChooseName(m) ==
  /\ picker.open /\ ~picker.busy /\ m # picker.name /\ Spend("choices")
  /\ Chooses([picker EXCEPT !.name = m])
  /\ UNCHANGED <<files, been, page, errands, paste>>

DryRun ==
  /\ picker.open /\ picker.timer
  /\ picker' = [picker EXCEPT !.timer = FALSE]
  /\ errands' = errands \cup
       {[kind |-> "check", seq |-> picker.seq, of |-> Chosen, ok |-> Fits(picker.from, Chosen)]}
  /\ UNCHANGED <<files, been, page, paste, plan>>

\* Mutant: any answer is taken.
AnyAnswer(a) == picker.open

\* Only the answer to the last question is taken.
Latest(a) == picker.open /\ a.seq = picker.seq

Checked(a) ==
  /\ a.kind = "check" /\ Ends(a, {})
  /\ picker' = IF Latest(a) THEN [picker EXCEPT !.check = IF a.ok THEN "ok" ELSE "refused", !.of = a.of]
               ELSE picker
  /\ UNCHANGED <<files, been, page, paste, plan>>

Confirmable == picker.open /\ picker.check = "ok" /\ Chosen # None /\ ~picker.busy

\* handleConfirm: the server checks again.
Confirm ==
  /\ Confirmable /\ Calm
  /\ picker' = [picker EXCEPT !.busy = TRUE]
  /\ Transfers(picker.mode, picker.from, Chosen)
  /\ errands' = errands \cup Errand(picker.mode, page.ns, picker.from, Chosen, Fits(picker.from, Chosen))
  /\ UNCHANGED <<page, paste, plan>>

\* onDone: the open note is followed, into another workspace if it went there;
\* so is the last note of the workspace it left.
Transferred(a) ==
  LET from == Tail(a.from)  IN
  LET to == Tail(a.to)      IN
  LET here == a.from[1]     IN
  LET there == a.to[1]      IN
  LET open == here = a.ns /\ a.cur # None /\ Under(a.cur, from)  IN
  LET left == [page.last EXCEPT ![here] = IF @ = None \/ ~Under(@, from) THEN @
                                          ELSE IF here = there THEN Follow(@, from, to) ELSE None]
  IN  IF a.kind = "copy" THEN page' = page /\ Ends(a, {})
      ELSE IF here = there
      THEN /\ page' = [page EXCEPT !.last = left, !.path = IF open THEN Follow(a.cur, from, to) ELSE @]
           /\ Ends(a, {})
      ELSE IF open
      THEN LET p == Follow(a.cur, from, to)
           IN  /\ page' = Enters(there, [left EXCEPT ![there] = p])
               /\ Ends(a, LoadsLast(there, p))
      ELSE page' = [page EXCEPT !.last = left] /\ Ends(a, {})

Confirmed(a) ==
  /\ a.kind \in {"copy", "transfer"}
  /\ IF a.ok THEN picker' = Shut /\ Transferred(a)
     ELSE picker' = [picker EXCEPT !.busy = FALSE, !.check = "refused"] /\ page' = page /\ Ends(a, {})
  /\ UNCHANGED <<files, been, paste, plan>>

PickerCloses ==
  /\ picker.open /\ ~picker.busy
  /\ picker' = Shut
  /\ UNCHANGED <<files, been, page, errands, paste, plan>>

-----------------------------------------------------------------------------
(* Paste here.                                                             *)

PasteOpens(d) ==
  /\ AtTree /\ Spend("dialogs")
  /\ \E m \in Named : paste' = [open |-> TRUE, ns |-> page.ns, folder |-> d, name |-> m, busy |-> FALSE]
  /\ UNCHANGED <<files, been, page, errands, picker>>

PasteNote(text) ==
  LET q == <<paste.ns>> \o Append(paste.folder, paste.name)
  IN  /\ Calm /\ paste.open /\ ~paste.busy /\ Take("texts", text)
      /\ paste' = [paste EXCEPT !.busy = TRUE]
      /\ Creates(q, text)
      /\ errands' = errands \cup Errand("paste", page.ns, Tail(q), q, CanMake(q, text))
      /\ UNCHANGED <<page, picker>>

\* A name that is taken is not used: another is offered.
Pasted(a) ==
  /\ a.kind = "paste"
  /\ IF a.ok THEN paste' = Shut /\ Ends(a, OpensNote(a.ns, a.from))
     ELSE /\ \E m \in Named : paste' = IF paste.open THEN [paste EXCEPT !.busy = FALSE, !.name = m] ELSE Shut
          /\ Ends(a, {})
  /\ UNCHANGED <<files, been, page, picker, plan>>

\* Even while the note is being made.
PasteCloses ==
  /\ paste.open /\ paste' = Shut
  /\ UNCHANGED <<files, been, page, errands, picker, plan>>

-----------------------------------------------------------------------------
(* Agents.                                                                 *)

\* Never to where another note was: how a page learns that the note it shows
\* was written over is NoteTab's matter.
Unused(q) == \A b \in been : b[1] # q
Apart == UNCHANGED <<page, errands, picker, paste>>

Takes(q) == taken' = taken \cup {files[p] : p \in {p \in DOMAIN files : Under(p, q)}}

AgentMoves(q, t) ==
  Spend("others") /\ Unused(t) /\ Fits(q, t) /\ Transfers("move", q, t) /\ Takes(q) /\ Apart
AgentDeletes(q) == Spend("others") /\ Deletes(q) /\ Takes(q) /\ Apart
AgentCopies(q, t) ==
  Spend("others") /\ Unused(t) /\ Fits(q, t) /\ Transfers("copy", q, t) /\ UNCHANGED taken /\ Apart
AgentCreates(q, text) ==
  Take("texts", text) /\ Unused(q) /\ CanMake(q, text) /\ Creates(q, text) /\ UNCHANGED taken /\ Apart
AgentMakesFolder(q) ==
  Spend("others") /\ Unused(q) /\ Vacant(q) /\ Creates(q, Folder) /\ UNCHANGED taken /\ Apart

Spots == {<<n, m>> : n \in Root, m \in Named}

\* A workspace itself is refused.
Items == {q \in DOMAIN files : Len(q) > 1}

PageActs ==
  \/ \E p \in PathsIn(page.ns) :
       \/ ClickNote(p) \/ DeleteFrom(p)
       \/ \E m \in Named : Rename(p, m)
       \/ \E d \in FoldersIn(page.ns) : TreeDrop(p, d)
       \/ \E mode \in {"transfer", "copy"} : PickerOpens(mode, p)
  \/ \E n \in Root : SelectRoot(n) \/ ChooseNs(n)
  \/ \E d \in FoldersIn(page.ns) :
       \/ PasteOpens(d)
       \/ \E m \in Named : NewFolder(d, m) \/ \E text \in plan.texts : NewNote(d, m, text)
  \/ picker.open /\ \E d \in FoldersIn(picker.ns) \cup {<<m>> : m \in Named} : ChooseFolder(d)
  \/ \E m \in Named : ChooseName(m)
  \/ DryRun \/ Confirm \/ PickerCloses \/ PasteCloses
  \/ \E text \in plan.texts : PasteNote(text)
  \/ \E a \in errands :
       NoteCame(a) \/ LoadCame(a) \/ Created(a) \/ Deleted(a) \/ PathMoved(a)
       \/ Checked(a) \/ Confirmed(a) \/ Pasted(a)

PlacesNext ==
  \/ PageActs /\ UNCHANGED taken
  \/ \E q \in Items : AgentDeletes(q) \/ \E t \in Spots : AgentMoves(q, t) \/ AgentCopies(q, t)
  \/ \E q \in Spots : AgentMakesFolder(q) \/ \E text \in plan.texts : AgentCreates(q, text)

-----------------------------------------------------------------------------
(* Properties                                                              *)

\* The page never has a note open under a path where that note never was: its
\* saves would go into another note.  (Unless an agent took the note away: the page
\* then moves a path with nothing behind it.)
PathIsNotes ==
  page.path # None /\ page.text # None /\ page.text \notin taken
    => <<<<page.ns>> \o page.path, page.text>> \in been

\* When nothing is under way, the open note is where its path says, whatever
\* was moved by the page, unless an agent took it away.
FollowsNote ==
  page.path # None /\ page.text # None /\ errands = {} /\ page.text \notin taken
    => TextAt(<<page.ns>> \o page.path) = page.text

\* What can be confirmed is what the dry run that said yes was about.
ConfirmsChecked == Confirmable => picker.of = Chosen

\* Notes keep their pages, and the picker asks for what it checked.
PlacesRight == PathIsNotes /\ FollowsNote /\ ConfirmsChecked
=============================================================================
