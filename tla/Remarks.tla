-------------------------------- MODULE Remarks --------------------------------
(***************************************************************************)
(* The comments of a note: the sidebar (components/CommentSidebar.jsx and  *)
(* App.jsx) and the server's file of them, one line each                   *)
(* (handlers/comments.go).  A comment is appended; to resolve, edit or     *)
(* delete one the server reads the file and writes it again.               *)
(***************************************************************************)
EXTENDS WebBase

CONSTANTS Writer, Leaf, Moderator   \* people with a page each; notes; admins among the people

Program == "program"   \* what edits with somebody's token

\* A program is nobody, and no note is none.
ASSUME WriterAssumption == Program \notin Writer /\ None \notin Leaf

VARIABLES
  remarks,  \* note -> its comments: id, by, parent, text, about (the note its words are of), done, gone
  sidebars, \* person -> note, shows (the comments), at, words (the note of the words marked)
  asking,   \* what the pages asked for and have no answer to
  rewrite,  \* a file read and not written yet: note, read, op, who
  spoken,   \* id -> note, by, text as its author last wrote it, gone (somebody deleted it)
  remarkAt  \* note -> changes, by whom

remarkVars == <<remarks, sidebars, asking, rewrite, spoken, remarkAt>>

RemarksInit ==
  /\ remarks = [n \in Leaf |-> {}] /\ rewrite = {} /\ asking = {} /\ spoken = <<>>
  /\ sidebars = [p \in Writer |-> [note |-> None, shows |-> {}, at |-> None, words |-> None]]
  /\ remarkAt = [n \in Leaf |-> [w \in Writer \cup {Program} |-> 0]]

Silent(p) == \A q \in asking : q.by # p
Alone(n) == Hurried \/ \A w \in rewrite : w.note # n

-----------------------------------------------------------------------------
(* The server.                                                             *)

\* listComments.
Active(n) == {c \in remarks[n] : ~c.gone}

ListOf(p, n) == [by |-> p, kind |-> "list", note |-> n, shows |-> Active(n), at |-> remarkAt[n]]

\* createComment: nothing is asked of the parent.
Appended(p, n, parent, about) ==
  LET id == Len(spoken) + 1
  IN  /\ remarks' = [remarks EXCEPT ![n] = @ \cup {[id |-> id, by |-> p, parent |-> parent, text |-> 0,
                                                   about |-> about, done |-> FALSE, gone |-> FALSE]}]
      /\ spoken' = Append(spoken, [note |-> n, by |-> p, text |-> 0, gone |-> FALSE])
      /\ remarkAt' = [remarkAt EXCEPT ![n][p] = @ + 1]

\* Mutant: anybody edits.
MayAnybody(who, c, op) == TRUE

\* updateComment: the words are their author's; deleting and resolving is for everybody.
MayChange(who, c, op) == op.do # "edit" \/ c.by = who

Accepted(w) == \E c \in w.read : c.id = w.op.id /\ MayChange(w.who, c, w.op)

\* Mutant: only what changes is written.
RevisedOnly(read, op) ==
  {CASE op.do = "edit" -> [c EXCEPT !.text = op.text] [] op.do = "done" -> [c EXCEPT !.done = op.done]
     [] OTHER -> [c EXCEPT !.gone = TRUE] : c \in {x \in read : x.id = op.id}}

\* updateComment and deleteComment, on what was read.
Revision(read, op) ==
  {IF c.id # op.id THEN c
   ELSE CASE op.do = "edit" -> [c EXCEPT !.text = op.text] [] op.do = "done" -> [c EXCEPT !.done = op.done]
          [] OTHER -> [c EXCEPT !.gone = TRUE] : c \in read}

\* The file is read.
Rewrites(p, n, op, kind) ==
  rewrite' = rewrite \cup {[note |-> n, read |-> remarks[n], op |-> op, who |-> p, kind |-> kind]}

\* And written.
RewriteEnds(w) ==
  /\ rewrite' = rewrite \ {w}
  /\ IF Accepted(w)
     THEN /\ remarks' = [remarks EXCEPT ![w.note] = Revision(w.read, w.op)]
          /\ remarkAt' = [remarkAt EXCEPT ![w.note][IF w.kind = Program THEN Program ELSE w.who] = @ + 1]
          /\ spoken' = CASE w.op.do = "edit" /\ spoken[w.op.id].by = w.who ->
                              [spoken EXCEPT ![w.op.id].text = w.op.text]
                         [] w.op.do = "delete" -> [spoken EXCEPT ![w.op.id].gone = TRUE]
                         [] OTHER -> spoken
     ELSE UNCHANGED <<remarks, remarkAt, spoken>>
  /\ asking' = IF w.kind = Program THEN asking
               ELSE {IF q.by # w.who THEN q ELSE [q EXCEPT !.kind = "done", !.ok = Accepted(w)] :
                       q \in asking}
  /\ UNCHANGED <<sidebars, plan>>

\* A program with somebody's token edits a comment.
Scripted(p) ==
  /\ Spend("scripts")
  /\ \E n \in Leaf : Alone(n) /\ \E c \in Active(n) :
       Rewrites(p, n, [do |-> "edit", id |-> c.id, text |-> -plan.scripts], Program)
  /\ UNCHANGED <<remarks, sidebars, asking, spoken, remarkAt>>

-----------------------------------------------------------------------------
(* The page.                                                               *)

\* openNote: the sidebar stays, with the comments of the last note until the list comes.
OpenLeaf(p, n) ==
  /\ (Hurried \/ (Silent(p) /\ sidebars[p].words = None)) /\ Spend("opens")
  /\ sidebars' = [sidebars EXCEPT ![p].note = n, ![p].at = None]
  /\ asking' = asking \cup {ListOf(p, n)}
  /\ UNCHANGED <<remarks, rewrite, spoken, remarkAt>>

ListCame(q) ==
  /\ q.kind = "list" /\ asking' = asking \ {q}
  /\ sidebars' = [sidebars EXCEPT ![q.by].shows = q.shows, ![q.by].at = q.at]
  /\ UNCHANGED <<remarks, rewrite, spoken, remarkAt, plan>>

\* onComment: words of the note are marked to be commented on.
MarkWords(p) ==
  /\ sidebars[p].note # None /\ sidebars[p].words = None /\ Spend("marks")
  /\ sidebars' = [sidebars EXCEPT ![p].words = sidebars[p].note]
  /\ UNCHANGED <<remarks, asking, rewrite, spoken, remarkAt>>

Wait(p, kind) == [by |-> p, kind |-> kind, note |-> sidebars[p].note, ok |-> TRUE]

\* handleAdd: a comment on the marked words, or on the note.
AddRemark(p) ==
  LET s == sidebars[p]
  IN  /\ s.note # None /\ (Hurried \/ Silent(p)) /\ Alone(s.note) /\ Spend("adds")
      /\ Appended(p, s.note, 0, IF s.words = None THEN s.note ELSE s.words)
      /\ asking' = asking \cup {Wait(p, "added")}
      /\ UNCHANGED <<sidebars, rewrite>>

\* Mutant: a reply can be replied to.
ThreadsOfAll(shows) == shows

\* The threads: comments that are no reply.
Threads(shows) == {c \in shows : c.parent = 0}

\* handleReply: to a thread that is open, with its words.
ReplyTo(p) ==
  LET s == sidebars[p]
  IN  /\ s.note # None /\ (Hurried \/ Silent(p)) /\ Alone(s.note) /\ Spend("replies")
      /\ \E c \in {x \in Threads(s.shows) : ~x.done} : Appended(p, s.note, c.id, c.about)
      /\ asking' = asking \cup {Wait(p, "done")}
      /\ UNCHANGED <<sidebars, rewrite>>

\* What the buttons of a comment that is shown ask for: replies of a thread that is not
\* there are not shown.
RemarkOps(p) ==
  LET shows == sidebars[p].shows
      seen == {c \in shows : c.parent = 0 \/ \E t \in Threads(shows) : t.id = c.parent}
  IN  {[do |-> "edit", id |-> c.id, text |-> plan.changes] : c \in {x \in seen : x.by = p}}
        \cup {[do |-> "delete", id |-> c.id] : c \in {x \in seen : x.by = p \/ p \in Moderator}}
        \cup {[do |-> "done", id |-> c.id, done |-> ~c.done] : c \in Threads(shows)}

\* handleEdit, handleDelete, handleResolve.
ChangeRemark(p) ==
  /\ sidebars[p].note # None /\ (Hurried \/ Silent(p)) /\ Alone(sidebars[p].note) /\ Spend("changes")
  /\ \E op \in RemarkOps(p) : Rewrites(p, sidebars[p].note, op, "page")
  /\ asking' = asking \cup {Wait(p, "rewriting")}
  /\ UNCHANGED <<remarks, sidebars, spoken, remarkAt>>

\* Mutant: the list as it was.
RereadsNothing(q) == {}

\* refreshComments, of the note that was open when it was asked for.
RereadsNote(q) == IF q.ok THEN {ListOf(q.by, q.note)} ELSE {}

\* The answer: the marked words are done with, and the list is read again.
RemarkAnswered(q) ==
  /\ q.kind \in {"added", "done"}
  /\ asking' = (asking \ {q}) \cup RereadsNote(q)
  /\ sidebars' = IF q.kind = "added" THEN [sidebars EXCEPT ![q.by].words = None] ELSE sidebars
  /\ UNCHANGED <<remarks, rewrite, spoken, remarkAt, plan>>

RemarksNext ==
  \/ \E p \in Writer : \/ MarkWords(p) \/ AddRemark(p) \/ ReplyTo(p) \/ ChangeRemark(p) \/ Scripted(p)
                       \/ \E n \in Leaf : OpenLeaf(p, n)
  \/ \E q \in asking : ListCame(q) \/ RemarkAnswered(q)
  \/ \E w \in rewrite : RewriteEnds(w)

-----------------------------------------------------------------------------
(* Properties                                                              *)

\* What somebody said about a note stays with it, in their own last words, until somebody
\* deletes it (comments.go).
SaidKept ==
  \A id \in DOMAIN spoken : \E c \in remarks[spoken[id].note] :
    c.id = id /\ c.by = spoken[id].by /\ c.text = spoken[id].text /\ c.gone = spoken[id].gone

\* A comment is about words of its own note, and a reply belongs to a thread of it.
ThreadsFit ==
  \A n \in Leaf : \A c \in remarks[n] :
    c.about = n /\ (c.parent # 0 => \E t \in remarks[n] : t.id = c.parent /\ t.parent = 0)

\* The sidebar shows the comments of the note that is open once its answers are in, but for
\* what others have said since.
SidebarTrue ==
  \A p \in Writer : LET s == sidebars[p] IN
    s.note # None /\ Silent(p) /\ s.at # None
      /\ (\A w \in (Writer \cup {Program}) \ {p} : remarkAt[s.note][w] = s.at[w]) /\ rewrite = {} =>
    s.shows = Active(s.note)

RemarksRight == SaidKept /\ ThreadsFit /\ SidebarTrue
=============================================================================
