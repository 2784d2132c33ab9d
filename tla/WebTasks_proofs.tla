--------------------------- MODULE WebTasks_proofs ---------------------------
(***************************************************************************)
(* Proofs about what people and agents say and do about a note: its        *)
(* comments, and the tasks in it.  For any notes, people, comments and     *)
(* tasks; a step of another part leaves a part alone (RemarkSteps,         *)
(* DeskSteps).                                                             *)
(***************************************************************************)
EXTENDS WebRequests_proofs


LEMMA RemarkSteps == ASSUME [Next]_vars PROVE RemarksNext \/ UNCHANGED remarkVars
  BY DEF Next, PageNext, ToolNext, RestNext, vars, restVars

-----------------------------------------------------------------------------
(* Sequences.                                                              *)

IsSeq(s) == \E S : s \in Seq(S)

LEMMA SeqAppend ==
  ASSUME NEW s, IsSeq(s), NEW x
  PROVE  /\ IsSeq(Append(s, x)) /\ Len(s) \in Nat /\ DOMAIN s = 1 .. Len(s)
         /\ DOMAIN Append(s, x) = 1 .. (Len(s) + 1)
         /\ Append(s, x)[Len(s) + 1] = x /\ \A i \in DOMAIN s : Append(s, x)[i] = s[i]
  <1>1. PICK S : s \in Seq(S)
    BY DEF IsSeq
  <1>2. Seq(S) \subseteq Seq(S \cup {x})
    OBVIOUS
  <1>3. s \in Seq(S \cup {x}) /\ x \in S \cup {x}
    BY <1>1, <1>2
  <1> QED BY <1>3 DEF IsSeq

LEMMA SeqExcept ==
  ASSUME NEW s, IsSeq(s), NEW i \in DOMAIN s, NEW x
  PROVE  /\ IsSeq([s EXCEPT ![i] = x]) /\ DOMAIN [s EXCEPT ![i] = x] = DOMAIN s
         /\ [s EXCEPT ![i] = x][i] = x /\ \A j \in DOMAIN s : j # i => [s EXCEPT ![i] = x][j] = s[j]
  <1>1. PICK S : s \in Seq(S)
    BY DEF IsSeq
  <1>2. s \in Seq(S \cup {x}) /\ x \in S \cup {x}
    BY <1>1
  <1>3. [s EXCEPT ![i] = x] \in Seq(S \cup {x})
    BY <1>2
  <1> QED BY <1>1, <1>3 DEF IsSeq

-----------------------------------------------------------------------------
(* The comments.                                                           *)

Speaker == Writer \cup {Program}

IsRemark(c) ==
  c = [id |-> c.id, by |-> c.by, parent |-> c.parent, text |-> c.text, about |-> c.about, done |-> c.done, gone |-> c.gone]
IsSaid(s) == s = [note |-> s.note, by |-> s.by, text |-> s.text, gone |-> s.gone]

\* A comment is what somebody said about the note it is in, and a reply has its thread there.
RemarkRight(n, c) ==
  /\ IsRemark(c) /\ c.id \in DOMAIN spoken
  /\ spoken[c.id].note = n /\ spoken[c.id].by = c.by /\ spoken[c.id].text = c.text /\ spoken[c.id].gone = c.gone
  /\ c.about = n
  /\ c.parent # 0 => \E t \in remarks[n] : t.id = c.parent /\ t.parent = 0

FilesRight ==
  /\ IsSeq(spoken) /\ \A i \in DOMAIN spoken : IsSaid(spoken[i]) /\ spoken[i].note \in Leaf
  /\ DOMAIN remarks = Leaf /\ remarkAt \in [Leaf -> [Speaker -> Nat]]
  /\ \A n \in Leaf : \A c \in remarks[n] : RemarkRight(n, c)
  /\ \A i \in DOMAIN spoken : \E c \in remarks[spoken[i].note] : c.id = i

\* What is being written again is what is there.
RewriteRight(w) ==
  /\ w.note \in Leaf /\ w.read = remarks[w.note] /\ w.who \in Writer
  /\ w.op.do \in {"edit", "done", "delete"} /\ w.kind \in {Program, "page"}
  /\ w.kind = "page" => \E q \in asking : q.by = w.who /\ q.kind = "rewriting"
  /\ \A v \in rewrite : v.note = w.note \/ (v.who = w.who /\ v.kind = "page" /\ w.kind = "page") => v = w

AtRight(n, at) == at \in [Speaker -> Nat] /\ \A o \in Speaker : at[o] <= remarkAt[n][o]
OthersSame(p, n, at) == \A o \in Speaker \ {p} : remarkAt[n][o] = at[o]
ListFits(p, n, shows, at) == OthersSame(p, n, at) => shows = Active(n)

\* A comment that is shown belongs to the note.
Belongs(n, c) == c.about = n /\ \E t \in remarks[n] : t.id = c.id /\ t.parent = c.parent

ListDue(p) == \E q \in asking : q.by = p /\ q.kind = "list"
OwnDue(p) == \E q \in asking : q.by = p /\ q.kind \in {"added", "done"} /\ q.ok

SideRight(p) ==
  LET s == sidebars[p]
  IN  /\ s = [note |-> s.note, shows |-> s.shows, at |-> s.at, words |-> s.words]
      /\ s.note \in Leaf \cup {None} /\ s.words \in {None, s.note}
      /\ s.note # None =>
           /\ ListDue(p) \/ \A c \in s.shows : Belongs(s.note, c)
           /\ s.at # None =>
                AtRight(s.note, s.at) /\ (ListDue(p) \/ OwnDue(p) \/ ListFits(p, s.note, s.shows, s.at))

AskRight(q) ==
  /\ q.by \in Writer /\ q.note \in Leaf /\ q.note = sidebars[q.by].note /\ q.note # None
  /\ q.kind \in {"list", "added", "done", "rewriting"}
  /\ q.kind = "list" =>
       /\ AtRight(q.note, q.at) /\ ListFits(q.by, q.note, q.shows, q.at)
       /\ \A c \in q.shows : Belongs(q.note, c)
  /\ q.kind # "list" => q = [by |-> q.by, kind |-> q.kind, note |-> q.note, ok |-> q.ok]
  /\ \A r \in asking : r.by = q.by => r = q

RemarksInv ==
  /\ FilesRight /\ DOMAIN sidebars = Writer
  /\ \A w \in rewrite : RewriteRight(w)
  /\ \A p \in Writer : SideRight(p)
  /\ \A q \in asking : AskRight(q)

\* What w's step leaves to everybody else.
RemarkAlone(w) ==
  /\ \/ \E n \in Leaf : /\ remarkAt' = [remarkAt EXCEPT ![n][w] = @ + 1]
                        /\ \A m \in Leaf : m # n => remarks'[m] = remarks[m]
     \/ remarks' = remarks /\ remarkAt' = remarkAt
  /\ \A n \in Leaf : \A t \in remarks[n] : \E u \in remarks'[n] : u.id = t.id /\ u.parent = t.parent
  /\ \A u \in Writer : u # w => sidebars'[u] = sidebars[u]
  /\ \A q : q.by # w => (q \in asking' <=> q \in asking)

LEMMA OthersKeep ==
  ASSUME RemarksInv, NEW w \in Speaker, RemarkAlone(w), NEW u \in Writer, u # w
  PROVE  SideRight(u)' /\ \A q \in asking' : q.by = u => AskRight(q)'
  <1>1. remarkAt \in [Leaf -> [Speaker -> Nat]]
    BY DEF RemarksInv, FilesRight
  <1>2. ASSUME NEW n \in Leaf, NEW c, Belongs(n, c) PROVE Belongs(n, c)'
    BY <1>2 DEF Belongs, RemarkAlone
  <1>3. ASSUME NEW n \in Leaf, NEW shows, NEW at, AtRight(n, at)
        PROVE  AtRight(n, at)' /\ (ListFits(u, n, shows, at) => ListFits(u, n, shows, at)')
    <2>1. CASE remarks' = remarks /\ remarkAt' = remarkAt
      BY <2>1, <1>3 DEF AtRight, ListFits, OthersSame, Active
    <2>2. ASSUME NEW m \in Leaf, remarkAt' = [remarkAt EXCEPT ![m][w] = @ + 1], \A o \in Leaf : o # m => remarks'[o] = remarks[o]
          PROVE  AtRight(n, at)' /\ (ListFits(u, n, shows, at) => ListFits(u, n, shows, at)')
      <3>1. \A k \in Leaf, o \in Speaker :
              /\ remarkAt[k][o] \in Nat
              /\ remarkAt'[k][o] = IF k = m /\ o = w THEN remarkAt[k][o] + 1 ELSE remarkAt[k][o]
        BY <1>1, <2>2
      <3>2. AtRight(n, at)'
        BY <3>1, <1>3 DEF AtRight
      <3>3. CASE n = m
        <4>1. ~OthersSame(u, n, at)'
          BY <3>1, <3>3, <1>3 DEF OthersSame, AtRight
        <4> QED BY <4>1, <3>2 DEF ListFits
      <3>4. CASE n # m
        <4>1. \A o \in Speaker : remarkAt'[n][o] = remarkAt[n][o]
          BY <3>1, <3>4
        <4>2. Active(n)' = Active(n)
          BY <2>2, <3>4 DEF Active
        <4> QED BY <3>2, <4>1, <4>2 DEF ListFits, OthersSame
      <3> QED BY <3>3, <3>4
    <2> QED BY <2>1, <2>2 DEF RemarkAlone
  <1>4. sidebars'[u] = sidebars[u] /\ SideRight(u)
    BY DEF RemarkAlone, RemarksInv
  <1>5. (ListDue(u) => ListDue(u)') /\ (OwnDue(u) => OwnDue(u)')
    BY DEF ListDue, OwnDue, RemarkAlone
  <1>6. SideRight(u)'
    BY <1>2, <1>3, <1>4, <1>5 DEF SideRight
  <1>7. ASSUME NEW q \in asking', q.by = u PROVE AskRight(q)'
    <2>1. q \in asking /\ AskRight(q) /\ \A r \in asking' : r.by = u => r \in asking
      BY <1>7 DEF RemarkAlone, RemarksInv
    <2> QED BY <2>1, <1>2, <1>3, <1>4, <1>7 DEF AskRight
  <1> QED BY <1>6, <1>7

\* What is read is what there is.
LEMMA ListIsRight ==
  ASSUME RemarksInv, NEW n \in Leaf, NEW p
  PROVE  AtRight(n, remarkAt[n]) /\ ListFits(p, n, Active(n), remarkAt[n]) /\ \A c \in Active(n) : Belongs(n, c)
  <1>1. remarkAt[n] \in [Speaker -> Nat]
    BY DEF RemarksInv, FilesRight
  <1>2. \A c \in Active(n) : c \in remarks[n] /\ RemarkRight(n, c)
    BY DEF Active, RemarksInv, FilesRight
  <1> QED BY <1>1, <1>2 DEF AtRight, ListFits, Belongs, RemarkRight

\* A step that says nothing new.
LEMMA FilesStay ==
  ASSUME RemarksInv, UNCHANGED <<remarks, spoken, remarkAt>>
  PROVE  FilesRight'
  BY DEF RemarksInv, FilesRight, RemarkRight

\* Something is said.
LEMMA SaysMore ==
  ASSUME RemarksInv, NEW p \in Writer, NEW n \in Leaf, NEW parent, Appended(p, n, parent, n),
         parent # 0 => \E t \in remarks[n] : t.id = parent /\ t.parent = 0
  PROVE  /\ FilesRight' /\ remarkAt' = [remarkAt EXCEPT ![n][p] = @ + 1]
         /\ \A m \in Leaf : remarks[m] \subseteq remarks'[m] /\ (m # n => remarks'[m] = remarks[m])
  <1>1. PICK c : c = [id |-> Len(spoken) + 1, by |-> p, parent |-> parent, text |-> 0, about |-> n, done |-> FALSE, gone |-> FALSE]
    OBVIOUS
  <1>2. PICK s : s = [note |-> n, by |-> p, text |-> 0, gone |-> FALSE]
    OBVIOUS
  <1>3. /\ remarks' = [remarks EXCEPT ![n] = @ \cup {c}] /\ spoken' = Append(spoken, s)
        /\ remarkAt' = [remarkAt EXCEPT ![n][p] = @ + 1]
    BY <1>1, <1>2 DEF Appended
  <1>4. IsSeq(spoken) /\ DOMAIN remarks = Leaf /\ remarkAt \in [Leaf -> [Speaker -> Nat]] /\ p \in Speaker
    BY DEF RemarksInv, FilesRight, Speaker
  <1>5. PICK k : k = Len(spoken) + 1
    OBVIOUS
  <1>6. /\ IsSeq(spoken') /\ k \in DOMAIN spoken' /\ spoken'[k] = s
        /\ \A i \in DOMAIN spoken : i \in DOMAIN spoken' /\ spoken'[i] = spoken[i]
        /\ \A i \in DOMAIN spoken' : i = k \/ i \in DOMAIN spoken
    BY <1>3, <1>4, <1>5, SeqAppend
  <1>7. \A m \in Leaf : remarks'[m] = IF m = n THEN remarks[m] \cup {c} ELSE remarks[m]
    BY <1>3, <1>4
  <1>8. RemarkRight(n, c)'
    <2>1. c.id = k /\ c.by = p /\ c.parent = parent /\ c.text = 0 /\ c.about = n /\ c.gone = FALSE /\ IsRemark(c)
      BY <1>1, <1>5 DEF IsRemark
    <2>2. spoken'[k].note = n /\ spoken'[k].by = p /\ spoken'[k].text = 0 /\ spoken'[k].gone = FALSE
      BY <1>2, <1>6
    <2>3. remarks[n] \subseteq remarks'[n]
      BY <1>7
    <2> QED BY <1>6, <2>1, <2>2, <2>3 DEF RemarkRight
  <1>9. ASSUME NEW m \in Leaf, NEW d \in remarks[m] PROVE RemarkRight(m, d)'
    <2>1. RemarkRight(m, d)
      BY DEF RemarksInv, FilesRight
    <2> QED BY <2>1, <1>6, <1>7 DEF RemarkRight
  <1>10. \A m \in Leaf : \A d \in remarks'[m] : RemarkRight(m, d)'
    BY <1>7, <1>8, <1>9
  <1>11. \A i \in DOMAIN spoken' : IsSaid(spoken'[i]) /\ spoken'[i].note \in Leaf /\ \E d \in remarks'[spoken'[i].note] : d.id = i
    <2>1. IsSaid(s) /\ s.note = n /\ c.id = k /\ c \in remarks'[n]
      BY <1>1, <1>2, <1>5, <1>7 DEF IsSaid
    <2>2. ASSUME NEW i \in DOMAIN spoken PROVE IsSaid(spoken[i]) /\ spoken[i].note \in Leaf /\ \E d \in remarks'[spoken[i].note] : d.id = i
      <3>1. IsSaid(spoken[i]) /\ spoken[i].note \in Leaf /\ \E d \in remarks[spoken[i].note] : d.id = i
        BY DEF RemarksInv, FilesRight
      <3> QED BY <3>1, <1>7
    <2> QED BY <1>6, <2>1, <2>2
  <1>12. remarkAt' \in [Leaf -> [Speaker -> Nat]]
    BY <1>3, <1>4
  <1> QED BY <1>3, <1>4, <1>6, <1>7, <1>10, <1>11, <1>12 DEF FilesRight

\* One comment as it is written again.
Touched(c, op) ==
  IF c.id # op.id THEN c
  ELSE CASE op.do = "edit" -> [c EXCEPT !.text = op.text] [] op.do = "done" -> [c EXCEPT !.done = op.done]
         [] OTHER -> [c EXCEPT !.gone = TRUE]

RevisedAs(c, op, d) ==
  /\ IsRemark(d) /\ d.id = c.id /\ d.by = c.by /\ d.parent = c.parent /\ d.about = c.about
  /\ c.id = op.id /\ op.do = "edit" => d.text = op.text
  /\ c.id # op.id \/ op.do # "edit" => d.text = c.text
  /\ c.id = op.id /\ op.do = "delete" => d.gone = TRUE
  /\ c.id # op.id \/ op.do # "delete" => d.gone = c.gone

LEMMA RevisedIs ==
  ASSUME NEW c, IsRemark(c), NEW op, op.do \in {"edit", "done", "delete"}
  PROVE  RevisedAs(c, op, Touched(c, op))
  <1> USE DEF RevisedAs
  <1>1. CASE c.id # op.id
    BY <1>1 DEF Touched
  <1>2. CASE c.id = op.id /\ op.do = "edit"
    <2>1. PICK d : d = [c EXCEPT !.text = op.text]
      OBVIOUS
    <2>2. Touched(c, op) = d
      BY <1>2, <2>1 DEF Touched
    <2>3. d = [id |-> c.id, by |-> c.by, parent |-> c.parent, text |-> op.text, about |-> c.about, done |-> c.done, gone |-> c.gone]
      BY <2>1 DEF IsRemark
    <2> QED BY <1>2, <2>2, <2>3 DEF IsRemark
  <1>3. CASE c.id = op.id /\ op.do = "done"
    <2>1. PICK d : d = [c EXCEPT !.done = op.done]
      OBVIOUS
    <2>2. Touched(c, op) = d
      BY <1>3, <2>1 DEF Touched
    <2>3. d = [id |-> c.id, by |-> c.by, parent |-> c.parent, text |-> c.text, about |-> c.about, done |-> op.done, gone |-> c.gone]
      BY <2>1 DEF IsRemark
    <2> QED BY <1>3, <2>2, <2>3 DEF IsRemark
  <1>4. CASE c.id = op.id /\ op.do = "delete"
    <2>1. PICK d : d = [c EXCEPT !.gone = TRUE]
      OBVIOUS
    <2>2. Touched(c, op) = d
      BY <1>4, <2>1 DEF Touched
    <2>3. d = [id |-> c.id, by |-> c.by, parent |-> c.parent, text |-> c.text, about |-> c.about, done |-> c.done, gone |-> TRUE]
      BY <2>1 DEF IsRemark
    <2> QED BY <1>4, <2>2, <2>3 DEF IsRemark
  <1> QED BY <1>1, <1>2, <1>3, <1>4

\* A file that was read is written again.
LEMMA WritesAgain ==
  ASSUME RemarksInv, NEW w \in rewrite, RewriteEnds(w), Accepted(w)
  PROVE  /\ FilesRight' /\ remarkAt' = [remarkAt EXCEPT ![w.note][IF w.kind = Program THEN Program ELSE w.who] = @ + 1]
         /\ \A m \in Leaf : m # w.note => remarks'[m] = remarks[m]
         /\ \A n \in Leaf : \A t \in remarks[n] : \E u \in remarks'[n] : u.id = t.id /\ u.parent = t.parent
  <1>1. RewriteRight(w) /\ FilesRight
    BY DEF RemarksInv
  <1>2. PICK n \in Leaf : n = w.note
    BY <1>1 DEF RewriteRight
  <1>3. PICK op : op = w.op
    OBVIOUS
  <1>4. op.do \in {"edit", "done", "delete"} /\ w.read = remarks[n] /\ w.who \in Writer
    BY <1>1, <1>2, <1>3 DEF RewriteRight
  <1>5. /\ remarks' = [remarks EXCEPT ![n] = Revision(remarks[n], op)]
        /\ remarkAt' = [remarkAt EXCEPT ![n][IF w.kind = Program THEN Program ELSE w.who] = @ + 1]
        /\ spoken' = CASE op.do = "edit" /\ spoken[op.id].by = w.who -> [spoken EXCEPT ![op.id].text = op.text]
                       [] op.do = "delete" -> [spoken EXCEPT ![op.id].gone = TRUE]
                       [] OTHER -> spoken
    BY <1>2, <1>3, <1>4 DEF RewriteEnds
  <1>6. PICK a \in remarks[n] : a.id = op.id /\ (op.do # "edit" \/ a.by = w.who)
    BY <1>3, <1>4 DEF Accepted, MayChange
  <1>7. RemarkRight(n, a) /\ DOMAIN remarks = Leaf /\ IsSeq(spoken)
    BY <1>1 DEF FilesRight
  <1>8. op.id \in DOMAIN spoken /\ spoken[op.id].note = n /\ (op.do = "edit" => spoken[op.id].by = w.who) /\ IsSaid(spoken[op.id])
    BY <1>1, <1>6, <1>7 DEF RemarkRight, FilesRight
  <1>9. Revision(remarks[n], op) = {Touched(c, op) : c \in remarks[n]}
    BY Zenon DEF Revision, Touched
  <1>10. \A m \in Leaf : remarks'[m] = IF m = n THEN {Touched(c, op) : c \in remarks[n]} ELSE remarks[m]
    BY <1>5, <1>7, <1>9
  <1>11. \A c \in remarks[n] : RemarkRight(n, c) /\ IsRemark(c)
    BY <1>1 DEF FilesRight, RemarkRight
  <1>12. PICK old : old = spoken[op.id]
    OBVIOUS
  <1>13. PICK new : /\ op.do = "edit" => new = [old EXCEPT !.text = op.text]
                    /\ op.do = "delete" => new = [old EXCEPT !.gone = TRUE]
                    /\ op.do = "done" => new = old
    OBVIOUS
  <1>13a. /\ IsSaid(new) /\ new.note = n /\ new.by = old.by
          /\ op.do = "edit" => new.text = op.text
          /\ op.do # "edit" => new.text = old.text
          /\ op.do = "delete" => new.gone = TRUE
          /\ op.do # "delete" => new.gone = old.gone
    <2>1. old = [note |-> n, by |-> old.by, text |-> old.text, gone |-> old.gone]
      BY <1>8, <1>12 DEF IsSaid
    <2>2. CASE op.do = "edit"
      <3>1. new = [note |-> n, by |-> old.by, text |-> op.text, gone |-> old.gone]
        BY <2>1, <2>2, <1>13
      <3> QED BY <3>1, <2>2 DEF IsSaid
    <2>3. CASE op.do = "delete"
      <3>1. new = [note |-> n, by |-> old.by, text |-> old.text, gone |-> TRUE]
        BY <2>1, <2>3, <1>13
      <3> QED BY <3>1, <2>3 DEF IsSaid
    <2>4. CASE op.do = "done"
      BY <2>1, <2>4, <1>13 DEF IsSaid
    <2> QED BY <1>4, <2>2, <2>3, <2>4
  <1>14. spoken' = [spoken EXCEPT ![op.id] = new]
    <2>1. CASE op.do = "edit"
      <3>1. spoken' = [spoken EXCEPT ![op.id].text = op.text]
        BY <1>5, <1>8, <2>1
      <3>2. new = [old EXCEPT !.text = op.text]
        BY <1>13, <2>1
      <3> QED BY <3>1, <3>2, <1>12
    <2>2. CASE op.do = "delete"
      <3>1. spoken' = [spoken EXCEPT ![op.id].gone = TRUE]
        BY <1>5, <1>8, <2>2
      <3>2. new = [old EXCEPT !.gone = TRUE]
        BY <1>13, <2>2
      <3> QED BY <3>1, <3>2, <1>12
    <2>3. CASE op.do = "done"
      <3>1. spoken' = spoken
        BY <1>5, <2>3
      <3>2. new = old
        BY <1>13, <2>3
      <3>3. [spoken EXCEPT ![op.id] = spoken[op.id]] = spoken
        BY <1>7 DEF IsSeq
      <3> QED BY <3>1, <3>2, <3>3, <1>12
    <2> QED BY <1>4, <2>1, <2>2, <2>3
  <1>15. /\ IsSeq(spoken') /\ DOMAIN spoken' = DOMAIN spoken /\ spoken'[op.id] = new
         /\ \A j \in DOMAIN spoken : j # op.id => spoken'[j] = spoken[j]
    BY <1>7, <1>8, <1>14, SeqExcept
  <1>16. \A m \in Leaf : \A t \in remarks[m] : \E u \in remarks'[m] : u.id = t.id /\ u.parent = t.parent
    <2> SUFFICES ASSUME NEW m \in Leaf, NEW t \in remarks[m] PROVE \E u \in remarks'[m] : u.id = t.id /\ u.parent = t.parent
      OBVIOUS
    <2>1. CASE m # n
      BY <2>1, <1>10
    <2>2. CASE m = n
      <3>1. Touched(t, op) \in remarks'[m]
        BY <2>2, <1>10
      <3>2. RevisedAs(t, op, Touched(t, op))
        BY <2>2, <1>4, <1>11, RevisedIs
      <3> QED BY <3>1, <3>2 DEF RevisedAs
    <2> QED BY <2>1, <2>2
  <1>17. ASSUME NEW m \in Leaf, m # n, NEW c \in remarks'[m] PROVE RemarkRight(m, c)'
    <2>1. c \in remarks[m] /\ RemarkRight(m, c)
      BY <1>17, <1>10, <1>1 DEF FilesRight
    <2>2. c.id # op.id
      BY <2>1, <1>8, <1>17 DEF RemarkRight
    <2> QED BY <2>1, <2>2, <1>10, <1>15, <1>17 DEF RemarkRight
  <1>18. ASSUME NEW d \in remarks'[n] PROVE RemarkRight(n, d)'
    <2>1. PICK c \in remarks[n] : d = Touched(c, op)
      BY <1>10
    <2>2. RemarkRight(n, c) /\ IsRemark(c)
      BY <1>11
    <2>3. RevisedAs(c, op, d)
      BY <2>1, <2>2, <1>4, RevisedIs
    <2>4. /\ spoken'[c.id].note = n /\ spoken'[c.id].by = d.by
          /\ spoken'[c.id].text = d.text /\ spoken'[c.id].gone = d.gone
      <3>1. CASE c.id = op.id
        BY <3>1, <2>2, <2>3, <1>8, <1>12, <1>13a, <1>15 DEF RemarkRight, RevisedAs
      <3>2. CASE c.id # op.id
        BY <3>2, <2>2, <2>3, <1>15 DEF RemarkRight, RevisedAs
      <3> QED BY <3>1, <3>2
    <2>5. d.parent # 0 => \E t \in remarks'[n] : t.id = d.parent /\ t.parent = 0
      <3>1. d.parent # 0 => \E t \in remarks[n] : t.id = d.parent /\ t.parent = 0
        BY <2>2, <2>3 DEF RemarkRight, RevisedAs
      <3> QED BY <3>1, <1>16
    <2> QED BY <2>2, <2>3, <2>4, <2>5, <1>15 DEF RemarkRight, RevisedAs
  <1>19. ASSUME NEW i \in DOMAIN spoken'
         PROVE  IsSaid(spoken'[i]) /\ spoken'[i].note \in Leaf /\ \E d \in remarks'[spoken'[i].note] : d.id = i
    <2>1. i \in DOMAIN spoken /\ IsSaid(spoken[i]) /\ spoken[i].note \in Leaf /\ \E d \in remarks[spoken[i].note] : d.id = i
      BY <1>1, <1>15 DEF FilesRight
    <2>2. IsSaid(spoken'[i]) /\ spoken'[i].note = spoken[i].note
      BY <2>1, <1>8, <1>13a, <1>15
    <2> QED BY <2>1, <2>2, <1>16
  <1>20. remarkAt' \in [Leaf -> [Speaker -> Nat]]
    <2>1. PICK o \in Speaker : o = IF w.kind = Program THEN Program ELSE w.who
      BY <1>4 DEF Speaker
    <2>2. remarkAt' = [remarkAt EXCEPT ![n][o] = @ + 1]
      BY <2>1, <1>5
    <2> QED BY <2>2, <1>1 DEF FilesRight
  <1>21. DOMAIN remarks' = Leaf
    BY <1>5, <1>7
  <1>22. FilesRight'
    BY <1>15, <1>17, <1>18, <1>19, <1>20, <1>21 DEF FilesRight
  <1> QED BY <1>2, <1>5, <1>10, <1>16, <1>22

-----------------------------------------------------------------------------
(* The steps.                                                              *)

LEMMA Noted ==
  ASSUME RemarksInv, NEW w \in Speaker, RemarkAlone(w)
  PROVE  /\ \A n \in Leaf : \A c : Belongs(n, c) => Belongs(n, c)'
         /\ \A n \in Leaf : \A at : AtRight(n, at) => AtRight(n, at)'
  <1>1. remarkAt \in [Leaf -> [Speaker -> Nat]]
    BY DEF RemarksInv, FilesRight
  <1>2. \A n \in Leaf : \A c : Belongs(n, c) => Belongs(n, c)'
    BY DEF Belongs, RemarkAlone
  <1>3. \A k \in Leaf, o \in Speaker : remarkAt[k][o] \in Nat /\ remarkAt'[k][o] \in Nat /\ remarkAt[k][o] <= remarkAt'[k][o]
    <2>1. CASE remarkAt' = remarkAt
      BY <2>1, <1>1
    <2>2. ASSUME NEW m \in Leaf, remarkAt' = [remarkAt EXCEPT ![m][w] = @ + 1]
          PROVE  \A k \in Leaf, o \in Speaker : remarkAt[k][o] \in Nat /\ remarkAt'[k][o] \in Nat /\ remarkAt[k][o] <= remarkAt'[k][o]
      BY <2>2, <1>1
    <2> QED BY <2>1, <2>2 DEF RemarkAlone
  <1>4. \A n \in Leaf : \A at : AtRight(n, at) => AtRight(n, at)'
    BY <1>3 DEF AtRight
  <1> QED BY <1>2, <1>4

LEMMA RemarkSum ==
  ASSUME RemarksInv, NEW w \in Speaker, RemarkAlone(w), FilesRight', DOMAIN sidebars' = Writer,
         \A v \in rewrite' : RewriteRight(v)', w \in Writer => SideRight(w)',
         \A q \in asking' : q.by = w => AskRight(q)'
  PROVE  RemarksInv'
  <1>1. \A u \in Writer : SideRight(u)'
    BY OthersKeep
  <1>2. ASSUME NEW q \in asking', q.by # w PROVE AskRight(q)'
    <2>1. q \in asking /\ q.by \in Writer
      BY <1>2 DEF RemarkAlone, RemarksInv, AskRight
    <2> QED BY <2>1, <1>2, OthersKeep
  <1> QED BY <1>1, <1>2 DEF RemarksInv

\* What is being written again stays.
LEMMA RewritesKept ==
  ASSUME RemarksInv, rewrite' = rewrite, \A q \in asking : q.kind = "rewriting" => q \in asking',
         \A w \in rewrite : remarks'[w.note] = remarks[w.note]
  PROVE  \A v \in rewrite' : RewriteRight(v)'
  BY DEF RemarksInv, RewriteRight

\* Somebody who waits for nothing.
LEMMA AskedNothing ==
  ASSUME RemarksInv, NEW p \in Writer, Silent(p)
  PROVE  /\ ~ListDue(p) /\ ~OwnDue(p) /\ \A q \in asking : q.by # p
         /\ \A w \in rewrite : w.kind = "page" => w.who # p
  BY DEF RemarksInv, Silent, ListDue, OwnDue, RewriteRight

LEMMA WriterSpeaks == Writer \subseteq Speaker /\ Program \in Speaker
  BY DEF Speaker

\* An answer that asks for the list.
LEMMA ListAsked ==
  ASSUME RemarksInv, NEW p \in Writer, NEW n \in Leaf, None \notin Leaf, UNCHANGED <<remarks, remarkAt>>,
         NEW q, q = ListOf(p, n), sidebars'[p].note = n, \A r \in asking' : r.by = p => r = q
  PROVE  q.by = p /\ q.kind = "list" /\ q.note = n /\ AskRight(q)'
  <1>1. q.by = p /\ q.kind = "list" /\ q.note = n /\ q.shows = Active(n) /\ q.at = remarkAt[n]
    BY DEF ListOf
  <1>2. /\ AtRight(n, q.at) /\ ListFits(p, n, q.shows, q.at) /\ \A c \in q.shows : Belongs(n, c)
    BY <1>1, ListIsRight
  <1>3. (AtRight(n, q.at) /\ ListFits(p, n, q.shows, q.at) /\ \A c \in q.shows : Belongs(n, c))'
    BY <1>2 DEF AtRight, ListFits, OthersSame, Active, Belongs
  <1> QED BY <1>1, <1>3 DEF AskRight

LEMMA LeafOpens ==
  ASSUME ~Hurried, None \notin Leaf, RemarksInv, NEW p \in Writer, NEW n \in Leaf, OpenLeaf(p, n)
  PROVE  RemarksInv'
  <1>1. Silent(p) /\ sidebars[p].words = None /\ SideRight(p) /\ DOMAIN sidebars = Writer
    BY DEF OpenLeaf, RemarksInv
  <1>2. PICK s : s = [sidebars[p] EXCEPT !.note = n, !.at = None]
    OBVIOUS
  <1>3. s = [note |-> n, shows |-> s.shows, at |-> None, words |-> None]
    BY <1>1, <1>2 DEF SideRight
  <1>4. PICK q : q = ListOf(p, n)
    OBVIOUS
  <1>5. sidebars' = [sidebars EXCEPT ![p] = s] /\ asking' = asking \cup {q} /\ UNCHANGED <<remarks, rewrite, spoken, remarkAt>>
    BY <1>1, <1>2, <1>4 DEF OpenLeaf
  <1>6. sidebars'[p] = s /\ DOMAIN sidebars' = Writer /\ \A u \in Writer : u # p => sidebars'[u] = sidebars[u]
    BY <1>1, <1>5
  <1>7. \A r \in asking' : r.by = p => r = q
    BY <1>1, <1>5 DEF Silent
  <1>8. sidebars'[p].note = n
    BY <1>3, <1>6
  <1>9. q.by = p /\ q.kind = "list" /\ q.note = n /\ AskRight(q)'
    BY <1>4, <1>5, <1>7, <1>8, ListAsked
  <1>10. RemarkAlone(p)
    BY <1>5, <1>6, <1>9 DEF RemarkAlone
  <1>11. ListDue(p)'
    BY <1>5, <1>9 DEF ListDue
  <1>12. SideRight(p)'
    BY <1>3, <1>6, <1>11 DEF SideRight
  <1>13. \A v \in rewrite' : RewriteRight(v)'
    BY <1>5, RewritesKept
  <1> QED BY <1>5, <1>6, <1>7, <1>9, <1>10, <1>12, <1>13, FilesStay, RemarkSum, WriterSpeaks

LEMMA ListComes ==
  ASSUME RemarksInv, NEW q \in asking, ListCame(q)
  PROVE  RemarksInv'
  <1>1. AskRight(q) /\ q.kind = "list"
    BY DEF ListCame, RemarksInv
  <1>2. PICK p \in Writer : p = q.by
    BY <1>1 DEF AskRight
  <1>3. SideRight(p) /\ DOMAIN sidebars = Writer
    BY DEF RemarksInv
  <1>4. PICK s : s = [sidebars[p] EXCEPT !.shows = q.shows, !.at = q.at]
    OBVIOUS
  <1>5. s = [note |-> s.note, shows |-> q.shows, at |-> q.at, words |-> s.words]
          /\ s.note = sidebars[p].note /\ s.words = sidebars[p].words
    BY <1>3, <1>4 DEF SideRight
  <1>6. sidebars' = [sidebars EXCEPT ![p] = s] /\ asking' = asking \ {q} /\ UNCHANGED <<remarks, rewrite, spoken, remarkAt>>
    BY <1>2, <1>3, <1>4 DEF ListCame
  <1>7. sidebars'[p] = s /\ DOMAIN sidebars' = Writer /\ \A u \in Writer : u # p => sidebars'[u] = sidebars[u]
    BY <1>3, <1>6
  <1>8. \A r \in asking' : r.by # p
    BY <1>1, <1>2, <1>6 DEF AskRight
  <1>9. RemarkAlone(p)
    BY <1>2, <1>6, <1>7 DEF RemarkAlone
  <1>10. q.note = s.note /\ s.note \in Leaf
    BY <1>1, <1>2, <1>5 DEF AskRight
  <1>11. AtRight(s.note, s.at) /\ ListFits(p, s.note, s.shows, s.at) /\ \A c \in s.shows : Belongs(s.note, c)
    BY <1>1, <1>2, <1>5, <1>10 DEF AskRight
  <1>12. (AtRight(s.note, s.at) /\ ListFits(p, s.note, s.shows, s.at) /\ \A c \in s.shows : Belongs(s.note, c))'
    BY <1>11, <1>6 DEF AtRight, ListFits, OthersSame, Active, Belongs
  <1>13. SideRight(p)'
    BY <1>3, <1>5, <1>7, <1>12 DEF SideRight
  <1>14. \A v \in rewrite' : RewriteRight(v)'
    BY <1>1, <1>6, RewritesKept
  <1> QED BY <1>6, <1>7, <1>8, <1>9, <1>13, <1>14, FilesStay, RemarkSum, WriterSpeaks

LEMMA WordsMarked ==
  ASSUME RemarksInv, NEW p \in Writer, MarkWords(p)
  PROVE  RemarksInv'
  <1>1. SideRight(p) /\ DOMAIN sidebars = Writer
    BY DEF RemarksInv
  <1>2. PICK s : s = [sidebars[p] EXCEPT !.words = sidebars[p].note]
    OBVIOUS
  <1>3. s = [note |-> s.note, shows |-> s.shows, at |-> s.at, words |-> s.note]
          /\ s.note = sidebars[p].note /\ s.shows = sidebars[p].shows /\ s.at = sidebars[p].at
    BY <1>1, <1>2 DEF SideRight
  <1>4. sidebars' = [sidebars EXCEPT ![p] = s] /\ UNCHANGED <<remarks, asking, rewrite, spoken, remarkAt>>
    BY <1>1, <1>2 DEF MarkWords
  <1>5. sidebars'[p] = s /\ DOMAIN sidebars' = Writer /\ \A u \in Writer : u # p => sidebars'[u] = sidebars[u]
    BY <1>1, <1>4
  <1>6. RemarkAlone(p)
    BY <1>4, <1>5 DEF RemarkAlone
  <1>7. SideRight(p)'
    BY <1>1, <1>3, <1>4, <1>5 DEF SideRight, AtRight, ListFits, OthersSame, Active, Belongs, ListDue, OwnDue
  <1>8. ASSUME NEW q \in asking', q.by = p PROVE AskRight(q)'
    BY <1>8, <1>3, <1>4, <1>5 DEF RemarksInv, AskRight, AtRight, ListFits, OthersSame, Active, Belongs
  <1>9. \A v \in rewrite' : RewriteRight(v)'
    BY <1>4, RewritesKept
  <1> QED BY <1>4, <1>5, <1>6, <1>7, <1>8, <1>9, FilesStay, RemarkSum, WriterSpeaks

\* Somebody says something about the note that is open.
LEMMA SaysOfNote ==
  ASSUME ~Hurried, RemarksInv, NEW p \in Writer, NEW n \in Leaf, n = sidebars[p].note, n # None, Silent(p), Alone(n),
         NEW parent, Appended(p, n, parent, n), parent # 0 => \E t \in remarks[n] : t.id = parent /\ t.parent = 0,
         NEW kind \in {"added", "done"}, asking' = asking \cup {Wait(p, kind)}, UNCHANGED <<sidebars, rewrite>>
  PROVE  RemarksInv'
  <1>1. PICK q : q = Wait(p, kind)
    OBVIOUS
  <1>2. q = [by |-> p, kind |-> kind, note |-> n, ok |-> TRUE] /\ q.by = p /\ q.kind = kind /\ q.note = n /\ q.ok
    BY <1>1 DEF Wait
  <1>3. asking' = asking \cup {q} /\ sidebars' = sidebars /\ rewrite' = rewrite
    BY <1>1
  <1>4. SideRight(p) /\ DOMAIN sidebars = Writer
    BY DEF RemarksInv
  <1>5. \A r \in asking' : r.by = p => r = q
    BY <1>3 DEF Silent
  <1>6. /\ FilesRight' /\ remarkAt' = [remarkAt EXCEPT ![n][p] = @ + 1]
        /\ \A m \in Leaf : remarks[m] \subseteq remarks'[m] /\ (m # n => remarks'[m] = remarks[m])
    BY SaysMore
  <1>7. RemarkAlone(p)
    BY <1>2, <1>3, <1>6 DEF RemarkAlone
  <1>8. OwnDue(p)'
    BY <1>2, <1>3 DEF OwnDue
  <1>9. SideRight(p)'
    <2>1. \A c \in sidebars[p].shows : Belongs(n, c)'
      BY <1>4, <1>7, AskedNothing, Noted, WriterSpeaks DEF SideRight
    <2>2. sidebars[p].at # None => AtRight(n, sidebars[p].at)'
      BY <1>4, <1>7, Noted, WriterSpeaks DEF SideRight
    <2> QED BY <1>3, <1>4, <1>8, <2>1, <2>2 DEF SideRight
  <1>10. AskRight(q)'
    BY <1>2, <1>3, <1>5 DEF AskRight
  <1>11. \A v \in rewrite' : RewriteRight(v)'
    <2>1. \A w \in rewrite : w.note \in Leaf /\ w.note # n
      BY DEF Alone, RemarksInv, RewriteRight
    <2> QED BY <2>1, <1>3, <1>6, RewritesKept
  <1> QED BY <1>3, <1>4, <1>5, <1>6, <1>7, <1>9, <1>10, <1>11, RemarkSum, WriterSpeaks

LEMMA RemarkAdded ==
  ASSUME ~Hurried, RemarksInv, NEW p \in Writer, AddRemark(p)
  PROVE  RemarksInv'
  <1>1. SideRight(p) /\ sidebars[p].note # None /\ Silent(p) /\ Alone(sidebars[p].note)
    BY DEF AddRemark, RemarksInv
  <1>2. PICK n \in Leaf : n = sidebars[p].note
    BY <1>1 DEF SideRight
  <1>3. Appended(p, n, 0, n)
    BY <1>1, <1>2 DEF AddRemark, SideRight
  <1>4. asking' = asking \cup {Wait(p, "added")} /\ UNCHANGED <<sidebars, rewrite>>
    BY DEF AddRemark
  <1> QED BY <1>1, <1>2, <1>3, <1>4, SaysOfNote

LEMMA Replied ==
  ASSUME ~Hurried, RemarksInv, NEW p \in Writer, ReplyTo(p)
  PROVE  RemarksInv'
  <1>1. SideRight(p) /\ sidebars[p].note # None /\ Silent(p) /\ Alone(sidebars[p].note)
    BY DEF ReplyTo, RemarksInv
  <1>2. PICK n \in Leaf : n = sidebars[p].note
    BY <1>1 DEF SideRight
  <1>3. PICK c \in sidebars[p].shows : c.parent = 0 /\ Appended(p, n, c.id, c.about)
    BY <1>2 DEF ReplyTo, Threads
  <1>4. Belongs(n, c)
    BY <1>1, <1>2, AskedNothing DEF SideRight
  <1>5. c.about = n /\ \E t \in remarks[n] : t.id = c.id /\ t.parent = 0
    BY <1>3, <1>4 DEF Belongs
  <1>6. asking' = asking \cup {Wait(p, "done")} /\ UNCHANGED <<sidebars, rewrite>>
    BY DEF ReplyTo
  <1> QED BY <1>1, <1>2, <1>3, <1>5, <1>6, SaysOfNote

\* A file is read, to be written again.
LEMMA ReadAgain ==
  ASSUME ~Hurried, RemarksInv, NEW p \in Writer, NEW n \in Leaf, Alone(n), NEW op, op.do \in {"edit", "done", "delete"},
         NEW kind \in {Program, "page"}, Rewrites(p, n, op, kind), kind = "page" => Silent(p),
         \A q \in asking : q \in asking', kind = "page" => \E q \in asking' : q.by = p /\ q.kind = "rewriting",
         remarks' = remarks
  PROVE  \A v \in rewrite' : RewriteRight(v)'
  <1>1. PICK w : w = [note |-> n, read |-> remarks[n], op |-> op, who |-> p, kind |-> kind]
    OBVIOUS
  <1>2. w.note = n /\ w.read = remarks[n] /\ w.op = op /\ w.who = p /\ w.kind = kind /\ rewrite' = rewrite \cup {w}
    BY <1>1 DEF Rewrites
  <1>3. \A v \in rewrite : RewriteRight(v) /\ v.note # n
    BY DEF Alone, RemarksInv
  <1>4. kind = "page" => \A v \in rewrite : v.kind = "page" => v.who # p
    BY AskedNothing
  <1>5. RewriteRight(w)'
    BY <1>2, <1>3, <1>4 DEF RewriteRight
  <1>6. ASSUME NEW v \in rewrite PROVE RewriteRight(v)'
    BY <1>2, <1>3, <1>4 DEF RewriteRight
  <1> QED BY <1>2, <1>5, <1>6

LEMMA RemarkChanges ==
  ASSUME ~Hurried, RemarksInv, NEW p \in Writer, ChangeRemark(p)
  PROVE  RemarksInv'
  <1>1. SideRight(p) /\ sidebars[p].note # None /\ Silent(p) /\ Alone(sidebars[p].note) /\ DOMAIN sidebars = Writer
    BY DEF ChangeRemark, RemarksInv
  <1>2. PICK n \in Leaf : n = sidebars[p].note
    BY <1>1 DEF SideRight
  <1>3. PICK op \in RemarkOps(p) : Rewrites(p, n, op, "page")
    BY <1>2 DEF ChangeRemark
  <1>4. op.do \in {"edit", "done", "delete"}
    BY <1>3 DEF RemarkOps
  <1>5. PICK q : q = Wait(p, "rewriting")
    OBVIOUS
  <1>6. q = [by |-> p, kind |-> "rewriting", note |-> n, ok |-> TRUE] /\ q.by = p /\ q.kind = "rewriting" /\ q.note = n
    BY <1>2, <1>5 DEF Wait
  <1>7. asking' = asking \cup {q} /\ UNCHANGED <<remarks, sidebars, spoken, remarkAt>>
    BY <1>5 DEF ChangeRemark
  <1>8. RemarkAlone(p)
    BY <1>6, <1>7 DEF RemarkAlone
  <1>9. SideRight(p)'
    BY <1>1, <1>7, AskedNothing DEF SideRight, AtRight, ListFits, OthersSame, Active, Belongs
  <1>10. \A r \in asking' : r.by = p => r = q
    BY <1>1, <1>7 DEF Silent
  <1>11. AskRight(q)'
    BY <1>1, <1>2, <1>6, <1>7, <1>10 DEF AskRight
  <1>12. \A v \in rewrite' : RewriteRight(v)'
    BY <1>1, <1>2, <1>3, <1>4, <1>6, <1>7, ReadAgain
  <1> QED BY <1>1, <1>7, <1>8, <1>9, <1>10, <1>11, <1>12, FilesStay, RemarkSum, WriterSpeaks

LEMMA ProgramChanges ==
  ASSUME ~Hurried, RemarksInv, NEW p \in Writer, Scripted(p)
  PROVE  RemarksInv'
  <1>1. PICK n \in Leaf : Alone(n) /\ \E c \in Active(n) :
               Rewrites(p, n, [do |-> "edit", id |-> c.id, text |-> -plan.scripts], Program)
    BY DEF Scripted
  <1>2. PICK op : op.do = "edit" /\ Rewrites(p, n, op, Program)
    BY <1>1
  <1>3. UNCHANGED <<remarks, sidebars, asking, spoken, remarkAt>>
    BY DEF Scripted
  <1>4. \A v \in rewrite' : RewriteRight(v)'
    BY <1>1, <1>2, <1>3, ReadAgain DEF Program
  <1>5. RemarkAlone(Program)
    BY <1>3 DEF RemarkAlone
  <1>6. \A q \in asking' : q.by # Program
    BY <1>3, WriterAssumption DEF RemarksInv, AskRight
  <1>7. DOMAIN sidebars' = Writer /\ Program \notin Writer
    BY <1>3, WriterAssumption DEF RemarksInv
  <1> QED BY <1>3, <1>4, <1>5, <1>6, <1>7, FilesStay, RemarkSum, WriterSpeaks

LEMMA AnswerComes ==
  ASSUME RemarksInv, NEW q \in asking, RemarkAnswered(q)
  PROVE  RemarksInv'
  <1>1. AskRight(q) /\ q.kind \in {"added", "done"}
    BY DEF RemarkAnswered, RemarksInv
  <1>2. PICK p \in Writer : p = q.by
    BY <1>1 DEF AskRight
  <1>3. PICK n \in Leaf : n = q.note /\ n = sidebars[p].note /\ n # None
    BY <1>1, <1>2 DEF AskRight
  <1>4. SideRight(p) /\ DOMAIN sidebars = Writer
    BY DEF RemarksInv
  <1>5. PICK s : s = [sidebars[p] EXCEPT !.words = IF q.kind = "added" THEN None ELSE sidebars[p].words]
    OBVIOUS
  <1>6. /\ s = [note |-> s.note, shows |-> s.shows, at |-> s.at, words |-> s.words]
        /\ s.note = n /\ s.words \in {None, n} /\ s.shows = sidebars[p].shows /\ s.at = sidebars[p].at
    BY <1>3, <1>4, <1>5 DEF SideRight
  <1>7. sidebars'[p] = s /\ DOMAIN sidebars' = Writer /\ \A u \in Writer : u # p => sidebars'[u] = sidebars[u]
    <2>1. CASE q.kind = "added"
      BY <2>1, <1>2, <1>4, <1>5 DEF RemarkAnswered
    <2>2. CASE q.kind = "done"
      <3>1. s = sidebars[p]
        BY <2>2, <1>4, <1>5 DEF SideRight
      <3> QED BY <2>2, <3>1, <1>4 DEF RemarkAnswered
    <2> QED BY <1>1, <2>1, <2>2
  <1>8. PICK more : asking' = (asking \ {q}) \cup more /\ more = RereadsNote(q)
    BY DEF RemarkAnswered
  <1>9. PICK r : r = ListOf(p, n)
    OBVIOUS
  <1>10. more = (IF q.ok THEN {r} ELSE {}) /\ r.by = p /\ r.kind = "list" /\ UNCHANGED <<remarks, rewrite, spoken, remarkAt>>
    BY <1>2, <1>3, <1>8, <1>9 DEF RereadsNote, RemarkAnswered, ListOf
  <1>11. \A x \in asking' : x.by = p => x = r /\ q.ok
    BY <1>1, <1>2, <1>8, <1>10 DEF AskRight
  <1>12. RemarkAlone(p)
    BY <1>2, <1>7, <1>8, <1>10 DEF RemarkAlone
  <1>13. AskRight(r)' \/ ~q.ok
    BY <1>3, <1>6, <1>7, <1>9, <1>10, <1>11, ListAsked, WriterAssumption
  <1>14. SideRight(p)'
    <2>1. ~ListDue(p)
      BY <1>1, <1>2 DEF ListDue, AskRight
    <2>2. \A c \in s.shows : Belongs(n, c)
      BY <1>3, <1>4, <1>6, <2>1 DEF SideRight
    <2>3. s.at # None => AtRight(n, s.at) /\ (OwnDue(p) \/ ListFits(p, n, s.shows, s.at))
      BY <1>3, <1>4, <1>6, <2>1 DEF SideRight
    <2>4. CASE q.ok
      <3>1. ListDue(p)'
        BY <2>4, <1>8, <1>10 DEF ListDue
      <3> QED BY <3>1, <2>3, <1>3, <1>6, <1>7, <1>10 DEF SideRight, AtRight
    <2>5. CASE ~q.ok
      <3>1. ~OwnDue(p)
        BY <2>5, <1>1, <1>2 DEF OwnDue, AskRight
      <3>2. (AtRight(n, s.at) => AtRight(n, s.at)') /\ (ListFits(p, n, s.shows, s.at) => ListFits(p, n, s.shows, s.at)')
            /\ \A c \in s.shows : Belongs(n, c)'
        BY <2>2, <1>10 DEF AtRight, ListFits, OthersSame, Active, Belongs
      <3> QED BY <2>3, <3>1, <3>2, <1>3, <1>6, <1>7 DEF SideRight
    <2> QED BY <2>4, <2>5
  <1>15. \A v \in rewrite' : RewriteRight(v)'
    BY <1>1, <1>8, <1>10, RewritesKept
  <1> QED BY <1>7, <1>10, <1>11, <1>12, <1>13, <1>14, <1>15, FilesStay, RemarkSum, WriterSpeaks

\* What was being written again, after one of it is written.
LEMMA RewritesLeft ==
  ASSUME RemarksInv, NEW w \in rewrite, rewrite' = rewrite \ {w}, \A m \in Leaf : m # w.note => remarks'[m] = remarks[m],
         \A q \in asking : (w.kind = "page" /\ q.by = w.who) \/ q \in asking'
  PROVE  \A v \in rewrite' : RewriteRight(v)'
  <1> SUFFICES ASSUME NEW v \in rewrite, v # w PROVE RewriteRight(v)'
    OBVIOUS
  <1>1. RewriteRight(v) /\ RewriteRight(w)
    BY DEF RemarksInv
  <1>2. v.note \in Leaf /\ v.note # w.note /\ (v.kind = "page" /\ w.kind = "page" => v.who # w.who)
    BY <1>1 DEF RewriteRight
  <1>3. remarks'[v.note] = remarks[v.note]
    BY <1>2
  <1>4. v.kind = "page" => \E q \in asking' : q.by = v.who /\ q.kind = "rewriting"
    BY <1>1, <1>2 DEF RewriteRight
  <1> QED BY <1>1, <1>3, <1>4 DEF RewriteRight

LEMMA RewriteDone ==
  ASSUME RemarksInv, NEW w \in rewrite, RewriteEnds(w)
  PROVE  RemarksInv'
  <1>1. RewriteRight(w) /\ w.note \in Leaf /\ DOMAIN sidebars = Writer
    BY DEF RemarksInv, RewriteRight
  <1>2. rewrite' = rewrite \ {w} /\ sidebars' = sidebars
    BY DEF RewriteEnds
  <1>3. PICK o \in Speaker : o = IF w.kind = Program THEN Program ELSE w.who
    BY <1>1 DEF RewriteRight, Speaker
  <1>4. /\ FilesRight' /\ \A m \in Leaf : m # w.note => remarks'[m] = remarks[m]
        /\ \A n \in Leaf : \A t \in remarks[n] : \E u \in remarks'[n] : u.id = t.id /\ u.parent = t.parent
        /\ \/ Accepted(w) /\ remarkAt' = [remarkAt EXCEPT ![w.note][o] = @ + 1]
           \/ ~Accepted(w) /\ remarks' = remarks /\ remarkAt' = remarkAt /\ spoken' = spoken
    <2>1. CASE Accepted(w)
      BY <2>1, <1>3, WritesAgain
    <2>2. CASE ~Accepted(w)
      <3>1. remarks' = remarks /\ remarkAt' = remarkAt /\ spoken' = spoken
        BY <2>2 DEF RewriteEnds
      <3> QED BY <2>2, <3>1, FilesStay
    <2> QED BY <2>1, <2>2
  <1>5. CASE w.kind = Program
    <2>1. asking' = asking
      BY <1>5 DEF RewriteEnds
    <2>2. o = Program /\ Program \notin Writer
      BY <1>3, <1>5, WriterAssumption
    <2>3. RemarkAlone(o)
      BY <1>1, <1>2, <1>4, <2>1 DEF RemarkAlone
    <2>4. \A q \in asking' : q.by # o
      BY <2>1, <2>2 DEF RemarksInv, AskRight
    <2>5. \A v \in rewrite' : RewriteRight(v)'
      BY <1>2, <1>4, <2>1, RewritesLeft
    <2> QED BY <1>1, <1>2, <1>4, <2>2, <2>3, <2>4, <2>5, RemarkSum
  <1>6. CASE w.kind # Program
    <2>1. w.kind = "page" /\ o = w.who /\ o \in Writer
      BY <1>1, <1>3, <1>6 DEF RewriteRight
    <2>2. PICK q \in asking : q.by = o /\ q.kind = "rewriting"
      BY <1>1, <2>1 DEF RewriteRight
    <2>3. AskRight(q) /\ \A x \in asking : x.by = o => x = q
      BY <2>2 DEF RemarksInv, AskRight
    <2>4. PICK ok : ok = Accepted(w)
      OBVIOUS
    <2>5. PICK r : r = [q EXCEPT !.kind = "done", !.ok = ok]
      OBVIOUS
    <2>6. r = [by |-> o, kind |-> "done", note |-> q.note, ok |-> ok]
      BY <2>2, <2>3, <2>5 DEF AskRight
    <2>7. asking' = {IF x.by # o THEN x ELSE [x EXCEPT !.kind = "done", !.ok = ok] : x \in asking}
      BY <1>6, <2>1, <2>4 DEF RewriteEnds
    <2>8. asking' = (asking \ {q}) \cup {r}
      BY <2>2, <2>3, <2>5, <2>7
    <2>9. RemarkAlone(o)
      BY <1>1, <1>2, <1>4, <2>2, <2>6, <2>8 DEF RemarkAlone
    <2>10. \A x \in asking' : x.by = o => x = r
      BY <2>2, <2>3, <2>8
    <2>11. AskRight(r)'
      BY <1>2, <2>1, <2>2, <2>3, <2>6, <2>10 DEF AskRight
    <2>12. SideRight(o)'
      <3>1. SideRight(o) /\ ~ListDue(o) /\ ~OwnDue(o) /\ q.note = sidebars[o].note /\ q.note \in Leaf /\ q.note # None
        BY <2>1, <2>2, <2>3 DEF RemarksInv, ListDue, OwnDue, AskRight
      <3>2. PICK s : s = sidebars[o]
        OBVIOUS
      <3>3. /\ \A c \in s.shows : Belongs(q.note, c)
            /\ s.at # None => AtRight(q.note, s.at) /\ ListFits(o, q.note, s.shows, s.at)
        BY <3>1, <3>2 DEF SideRight
      <3>4. /\ \A c \in s.shows : Belongs(q.note, c)'
            /\ s.at # None => AtRight(q.note, s.at)'
        BY <2>9, <3>1, <3>3, Noted
      <3>5. CASE Accepted(w)
        <4>1. OwnDue(o)'
          BY <3>5, <2>4, <2>6, <2>8 DEF OwnDue
        <4> QED BY <1>2, <3>1, <3>2, <3>4, <4>1 DEF SideRight
      <3>6. CASE ~Accepted(w)
        <4>1. remarks' = remarks /\ remarkAt' = remarkAt
          BY <3>6, <1>4
        <4>2. s.at # None => ListFits(o, q.note, s.shows, s.at)'
          BY <4>1, <3>3 DEF ListFits, OthersSame, Active
        <4> QED BY <1>2, <3>1, <3>2, <3>4, <4>2 DEF SideRight
      <3> QED BY <3>5, <3>6
    <2>13. \A v \in rewrite' : RewriteRight(v)'
      BY <1>2, <1>4, <2>1, <2>2, <2>8, RewritesLeft
    <2> QED BY <1>1, <1>2, <1>4, <2>9, <2>10, <2>11, <2>12, <2>13, RemarkSum
  <1> QED BY <1>5, <1>6

LEMMA RemarksStep == ASSUME ~Hurried, RemarksInv, [Next]_vars PROVE RemarksInv'
  <1>1. None \notin Leaf
    BY WriterAssumption
  <1>2. CASE RemarksNext
    BY <1>1, <1>2, WordsMarked, RemarkAdded, Replied, RemarkChanges, ProgramChanges, LeafOpens, ListComes, AnswerComes, RewriteDone
       DEF RemarksNext
  <1>3. CASE UNCHANGED remarkVars
    BY <1>3 DEF remarkVars, RemarksInv, FilesRight, RemarkRight, RewriteRight, SideRight, AskRight, AtRight, ListFits, OthersSame,
         Active, Belongs, ListDue, OwnDue
  <1> QED BY <1>2, <1>3, RemarkSteps

LEMMA RemarksStart == ASSUME Init PROVE RemarksInv
  <1> SUFFICES ASSUME RemarksInit PROVE RemarksInv
    BY DEF Init
  <1>1. IsSeq(<<>>) /\ DOMAIN <<>> = {}
    <2>1. <<>> \in Seq({})
      OBVIOUS
    <2> QED BY <2>1 DEF IsSeq
  <1>2. FilesRight
    BY <1>1 DEF RemarksInit, FilesRight, Speaker
  <1>3. \A p \in Writer : SideRight(p)
    BY DEF RemarksInit, SideRight
  <1> QED BY <1>2, <1>3 DEF RemarksInit, RemarksInv

LEMMA RemarksMean == ASSUME RemarksInv PROVE RemarksRight
  <1>1. SaidKept
    <2> SUFFICES ASSUME NEW i \in DOMAIN spoken
                 PROVE  \E c \in remarks[spoken[i].note] :
                          c.id = i /\ c.by = spoken[i].by /\ c.text = spoken[i].text /\ c.gone = spoken[i].gone
      BY DEF SaidKept
    <2>1. PICK c \in remarks[spoken[i].note] : c.id = i
      BY DEF RemarksInv, FilesRight
    <2>2. RemarkRight(spoken[i].note, c)
      BY DEF RemarksInv, FilesRight
    <2> QED BY <2>1, <2>2 DEF RemarkRight
  <1>2. ThreadsFit
    BY DEF ThreadsFit, RemarksInv, FilesRight, RemarkRight
  <1>3. SidebarTrue
    <2> SUFFICES ASSUME NEW p \in Writer, sidebars[p].note # None, Silent(p), sidebars[p].at # None,
                        \A w \in (Writer \cup {Program}) \ {p} : remarkAt[sidebars[p].note][w] = sidebars[p].at[w]
                 PROVE  sidebars[p].shows = Active(sidebars[p].note)
      BY DEF SidebarTrue
    <2>1. SideRight(p) /\ ~ListDue(p) /\ ~OwnDue(p)
      BY AskedNothing DEF RemarksInv
    <2>2. OthersSame(p, sidebars[p].note, sidebars[p].at)
      BY DEF OthersSame, Speaker
    <2> QED BY <2>1, <2>2 DEF SideRight, ListFits
  <1> QED BY <1>1, <1>2, <1>3 DEF RemarksRight

\* RemarksRight for any notes, people and comments (comments.go, CommentSidebar.jsx), as long
\* as no comment is added while the file is being rewritten: what is said stays with its
\* note in its author's words, a reply in its thread, and the sidebar shows what there is.
THEOREM RemarksHold == ASSUME ~Hurried PROVE Spec => []RemarksRight
  <1>1. Init => RemarksInv
    BY RemarksStart
  <1>2. RemarksInv /\ [Next]_vars => RemarksInv'
    BY RemarksStep
  <1>3. RemarksInv => RemarksRight
    BY RemarksMean
  <1> QED BY <1>1, <1>2, <1>3, PTL DEF Spec

-----------------------------------------------------------------------------
LEMMA DeskSteps == ASSUME [Next]_vars PROVE DeskNext \/ UNCHANGED deskVars
  BY DEF Next, PageNext, ToolNext, RestNext, vars, restVars

-----------------------------------------------------------------------------
(* The desk: tasks, cards and what is sent.                                *)

\* What is left of a sequence without one of its elements.
LessOne(s, i) == [j \in 1 .. Len(s) - 1 |-> s[IF j < i THEN j ELSE j + 1]]

LEMMA SeqWithout ==
  ASSUME NEW s, IsSeq(s), NEW i \in DOMAIN s
  PROVE  /\ IsSeq(LessOne(s, i)) /\ Len(s) \in Nat /\ DOMAIN s = 1 .. Len(s)
         /\ DOMAIN LessOne(s, i) = 1 .. Len(s) - 1
         /\ \A j \in DOMAIN LessOne(s, i) : LessOne(s, i)[j] = s[IF j < i THEN j ELSE j + 1]
         /\ \A j \in DOMAIN LessOne(s, i) : (IF j < i THEN j ELSE j + 1) \in DOMAIN s \ {i}
         /\ \A j \in DOMAIN s \ {i} : (IF j < i THEN j ELSE j - 1) \in DOMAIN LessOne(s, i)
                                      /\ LessOne(s, i)[IF j < i THEN j ELSE j - 1] = s[j]
  <1>1. PICK S : s \in Seq(S)
    BY DEF IsSeq
  <1>2. Len(s) \in Nat /\ DOMAIN s = 1 .. Len(s) /\ i \in 1 .. Len(s) /\ Len(s) - 1 \in Nat
    BY <1>1
  <1>3. DOMAIN LessOne(s, i) = 1 .. Len(s) - 1
    BY DEF LessOne
  <1>4. \A j \in 1 .. Len(s) - 1 : /\ LessOne(s, i)[j] = s[IF j < i THEN j ELSE j + 1]
                                   /\ (IF j < i THEN j ELSE j + 1) \in DOMAIN s \ {i}
    BY <1>2 DEF LessOne
  <1>5. LessOne(s, i) \in [1 .. Len(s) - 1 -> S]
    BY <1>1, <1>2, <1>4 DEF LessOne
  <1>6. LessOne(s, i) \in Seq(S)
    BY <1>2, <1>5
  <1>7. ASSUME NEW j \in DOMAIN s \ {i}
        PROVE  /\ (IF j < i THEN j ELSE j - 1) \in DOMAIN LessOne(s, i)
               /\ LessOne(s, i)[IF j < i THEN j ELSE j - 1] = s[j]
    <2>1. CASE j < i
      BY <2>1, <1>2, <1>3, <1>4
    <2>2. CASE ~(j < i)
      <3>1. j - 1 \in 1 .. Len(s) - 1 /\ ~(j - 1 < i) /\ (j - 1) + 1 = j
        BY <2>2, <1>2
      <3> QED BY <2>2, <3>1, <1>3, <1>4
    <2> QED BY <2>1, <2>2
  <1> QED BY <1>2, <1>3, <1>4, <1>6, <1>7 DEF IsSeq

-----------------------------------------------------------------------------
(* Tasks and cards.                                                        *)

TitleOf(id, text) == \E n \in Nat \ {0} : text = Title(id, n)

\* The steps of a task: at most one.
IsStep(s) == s = [text |-> s.text, ticked |-> s.ticked]
StepsOf(id, s) ==
  /\ s = [k \in DOMAIN s |-> s[k]] /\ DOMAIN s \subseteq {1}
  /\ \A k \in DOMAIN s : IsStep(s[k]) /\ s[k].text = StepText(id) /\ s[k].ticked \in BOOLEAN

IsTask(t) == t = [id |-> t.id, title |-> t.title, done |-> t.done, goal |-> t.goal, steps |-> t.steps]
TaskRight(t, upto) ==
  IsTask(t) /\ t.id \in 1 .. upto /\ t.done \in BOOLEAN /\ TitleOf(t.id, t.title) /\ StepsOf(t.id, t.steps)

IsBox(b) == b = [line |-> b.line, text |-> b.text, ticked |-> b.ticked] /\ b.ticked \in BOOLEAN
IsStepCard(s) == s = [shows |-> s.shows, box |-> s.box]
StepCards(id, s) ==
  /\ s = [k \in DOMAIN s |-> s[k]] /\ DOMAIN s \subseteq {1}
  /\ \A k \in DOMAIN s : /\ IsStepCard(s[k]) /\ s[k].shows \in BOOLEAN
                         /\ IsBox(s[k].box) /\ s[k].box.text = StepText(id)
IsCard(c) == c = [id |-> c.id, key |-> c.key, goal |-> c.goal, box |-> c.box, steps |-> c.steps]
CardRight(c, upto) ==
  IsCard(c) /\ c.id \in 1 .. upto /\ IsBox(c.box) /\ TitleOf(c.id, c.box.text) /\ StepCards(c.id, c.steps)

\* A text is one the task has or had.
NotNewer(id, text, stock) == \A j \in DOMAIN stock : stock[j].id = id => text[2] <= stock[j].title[2]

TasksRight(stock, upto) ==
  /\ IsSeq(stock) /\ upto \in Nat /\ \A j \in DOMAIN stock : TaskRight(stock[j], upto)
  /\ \A i, j \in DOMAIN stock : stock[i].id = stock[j].id => i = j

WorkRight == TasksRight(work, ledger.made)

\* Cards read at one moment: at most one for each task, and none newer.
CardsRight(s, upto, stock) ==
  /\ IsSeq(s) /\ \A i \in DOMAIN s : CardRight(s[i], upto) /\ NotNewer(s[i].id, s[i].box.text, stock)
  /\ \A i, j \in DOMAIN s : s[i].id = s[j].id => i = j

\* What a card shows is what the task is.
ShowsTask(c, t) ==
  /\ c.id = t.id /\ c.goal = t.goal /\ c.box.text = t.title /\ c.box.ticked = t.done
  /\ DOMAIN c.steps = DOMAIN t.steps /\ \A k \in DOMAIN t.steps : c.steps[k].shows = t.steps[k].ticked

LEMMA TitleIs ==
  ASSUME NEW id, NEW text, TitleOf(id, text)
  PROVE  /\ text[1] = id /\ text[2] \in Nat \ {0} /\ text = Title(id, text[2]) /\ text # StepText(id)
         /\ TitleOf(id, Retitled(text)) /\ Retitled(text)[2] = text[2] + 1
  <1>1. PICK n \in Nat \ {0} : text = <<id, n>>
    BY DEF TitleOf, Title
  <1>2. text[1] = id /\ text[2] = n /\ text # <<id, 0>>
    BY <1>1
  <1>3. Retitled(text) = <<id, n + 1>> /\ n + 1 \in Nat \ {0}
    BY <1>2 DEF Retitled, Title
  <1>4. TitleOf(id, Retitled(text)) /\ Retitled(text)[2] = n + 1
    BY <1>3 DEF TitleOf, Title
  <1> QED BY <1>1, <1>2, <1>4 DEF Title, StepText

LEMMA ReadIs ==
  ASSUME NEW upto, NEW t, TaskRight(t, upto), NEW line
  PROVE  /\ CardRight(ReadTask(t, line), upto) /\ ReadTask(t, line).id = t.id /\ ShowsTask(ReadTask(t, line), t)
         /\ \A k \in DOMAIN t.steps : ReadTask(t, line).steps[k].box.ticked = t.steps[k].ticked
  <1>1. \A k \in DOMAIN t.steps : t.steps[k].text = StepText(t.id) /\ t.steps[k].ticked \in BOOLEAN
    BY DEF TaskRight, StepsOf
  <1>2. PICK c : c = ReadTask(t, line)
    OBVIOUS
  <1>3. PICK b : b = [line |-> line, text |-> t.title, ticked |-> t.done]
    OBVIOUS
  <1>4. c.id = t.id /\ c.key = None /\ c.goal = t.goal /\ c.box = b /\ DOMAIN c.steps = DOMAIN t.steps /\ IsCard(c)
        /\ c.steps = [k \in DOMAIN c.steps |-> c.steps[k]]
    BY <1>2, <1>3 DEF ReadTask, IsCard
  <1>5. ASSUME NEW k \in DOMAIN t.steps
        PROVE  /\ c.steps[k].shows = t.steps[k].ticked /\ c.steps[k].box.ticked = t.steps[k].ticked
               /\ IsStepCard(c.steps[k])
               /\ IsBox(c.steps[k].box) /\ c.steps[k].box.text = StepText(t.id)
    <2>1. PICK d : d = [line |-> line + Fields(t) + k, text |-> t.steps[k].text, ticked |-> t.steps[k].ticked]
      OBVIOUS
    <2>2. c.steps[k] = [shows |-> t.steps[k].ticked, box |-> d]
      BY <1>2, <2>1 DEF ReadTask
    <2>3. IsBox(d) /\ d.text = t.steps[k].text /\ d.ticked = t.steps[k].ticked
      BY <2>1, <1>1 DEF IsBox
    <2>4. IsStepCard(c.steps[k]) /\ c.steps[k].shows = t.steps[k].ticked /\ c.steps[k].box = d
      BY <2>2 DEF IsStepCard
    <2> QED BY <2>4, <2>3, <1>1
  <1>6. StepCards(c.id, c.steps)
    BY <1>1, <1>4, <1>5 DEF StepCards, TaskRight, StepsOf
  <1>7. IsBox(b) /\ b.text = t.title /\ b.ticked = t.done
    BY <1>3 DEF IsBox, TaskRight
  <1>8. CardRight(c, upto)
    BY <1>4, <1>6, <1>7 DEF CardRight, TaskRight
  <1>9. ShowsTask(c, t)
    BY <1>4, <1>5, <1>7 DEF ShowsTask
  <1> QED BY <1>2, <1>4, <1>5, <1>8, <1>9

LEMMA TasksAre ==
  ASSUME WorkRight
  PROVE  /\ CardsRight(Tasks, ledger.made, work) /\ DOMAIN Tasks = DOMAIN work
         /\ \A i \in DOMAIN work : Tasks[i].id = work[i].id /\ ShowsTask(Tasks[i], work[i])
         /\ \A i \in DOMAIN work : Tasks[i].key = None
  <1>1. DOMAIN Tasks = DOMAIN work /\ Tasks = [i \in DOMAIN work |-> Tasks[i]]
    BY DEF Tasks
  <1>2. ASSUME NEW i \in DOMAIN work
        PROVE  CardRight(Tasks[i], ledger.made) /\ Tasks[i].id = work[i].id /\ ShowsTask(Tasks[i], work[i]) /\ Tasks[i].key = None
    <2>1. PICK line : line = TaskLine[i]
      OBVIOUS
    <2>2. Tasks[i] = ReadTask(work[i], line)
      BY <2>1 DEF Tasks
    <2>3. ReadTask(work[i], line).key = None
      BY DEF ReadTask
    <2> QED BY <2>2, <2>3, ReadIs DEF WorkRight, TasksRight
  <1>3. IsSeq(Tasks)
    <2>1. PICK S : work \in Seq(S)
      BY DEF WorkRight, TasksRight, IsSeq
    <2>2. DOMAIN work = 1 .. Len(work) /\ Len(work) \in Nat
      BY <2>1
    <2>3. PICK T : T = {Tasks[i] : i \in DOMAIN work}
      OBVIOUS
    <2>4. Tasks \in [1 .. Len(work) -> T]
      BY <1>1, <2>2, <2>3
    <2>5. Tasks \in Seq(T)
      BY <2>2, <2>4
    <2> QED BY <2>5 DEF IsSeq
  <1>4. \A i \in DOMAIN Tasks : NotNewer(Tasks[i].id, Tasks[i].box.text, work)
    <2> SUFFICES ASSUME NEW i \in DOMAIN work, NEW j \in DOMAIN work, work[j].id = Tasks[i].id
                 PROVE  Tasks[i].box.text[2] <= work[j].title[2]
      BY <1>1 DEF NotNewer
    <2>1. j = i /\ Tasks[i].box.text = work[i].title
      BY <1>2 DEF WorkRight, TasksRight, ShowsTask
    <2>2. work[i].title[2] \in Nat
      BY TitleIs DEF WorkRight, TasksRight, TaskRight
    <2> QED BY <2>1, <2>2
  <1> QED BY <1>1, <1>2, <1>3, <1>4 DEF CardsRight, WorkRight, TasksRight

-----------------------------------------------------------------------------
(* What a write does to the note.                                          *)

IsSpec(w) ==
  IsTask(w.value) /\ w.value.title = Retitled(w.box.text) /\ w.value.done \in BOOLEAN /\ StepsOf(w.id, w.value.steps)

WriteRight(w) ==
  /\ IsBox(w.box) /\ w.kind \in {"check", "move", "delete", "field", "replace"}
  /\ w.kind = "check" => TitleOf(w.id, w.box.text) \/ w.box.text = StepText(w.id)
  /\ w.kind # "check" => TitleOf(w.id, w.box.text)
  /\ w.kind \in {"check", "move"} => w.value \in BOOLEAN
  /\ w.kind = "replace" => IsSpec(w)

\* The box of a task, and of its step.
OnTitle(w, t) == w.box.text = t.title /\ w.box.ticked = t.done
OnStep(w, t) == w.box.text = StepText(w.id) /\ 1 \in DOMAIN t.steps /\ w.box.ticked = t.steps[1].ticked

Turned(w, t, c) ==
  /\ t.id = w.id
  /\ \/ w.kind \in {"check", "move"} /\ OnTitle(w, t) /\ c = [t EXCEPT !.done = w.value]
          /\ (w.value => AllTicked(t.steps))
     \/ w.kind = "check" /\ OnStep(w, t) /\ c = [t EXCEPT !.steps[1].ticked = w.value]
     \/ w.kind = "field" /\ OnTitle(w, t) /\ c = [t EXCEPT !.goal = w.value]
     \/ w.kind = "replace" /\ OnTitle(w, t) /\ c = [w.value EXCEPT !.id = t.id]
          /\ (w.value.done => AllTicked(w.value.steps))
     \/ w.kind = "delete" /\ OnTitle(w, t)

LEMMA BoxesAre ==
  ASSUME WorkRight, NEW p \in Boxes
  PROVE  /\ p[1] \in DOMAIN work
         /\ p[2] = 0 => BoxAt(p).text = work[p[1]].title /\ BoxAt(p).ticked = work[p[1]].done
         /\ p[2] # 0 => /\ p[2] = 1 /\ 1 \in DOMAIN work[p[1]].steps
                        /\ BoxAt(p).text = StepText(work[p[1]].id) /\ BoxAt(p).ticked = work[p[1]].steps[1].ticked
  <1>1. CASE \E i \in DOMAIN work : p = <<i, 0>>
    <2>1. PICK i \in DOMAIN work : p = <<i, 0>>
      BY <1>1
    <2>2. p[1] = i /\ p[2] = 0 /\ BoxAt(p) = Tasks[i].box
      BY <2>1 DEF BoxAt
    <2>3. Tasks[i].box.text = work[i].title /\ Tasks[i].box.ticked = work[i].done
      BY TasksAre DEF ShowsTask
    <2> QED BY <2>2, <2>3
  <1>2. CASE \E i \in DOMAIN work : \E k \in DOMAIN work[i].steps : p = <<i, k>>
    <2>1. PICK i \in DOMAIN work : \E k \in DOMAIN work[i].steps : p = <<i, k>>
      BY <1>2
    <2>2. PICK k \in DOMAIN work[i].steps : p = <<i, k>>
      BY <2>1
    <2>3. k = 1 /\ TaskRight(work[i], ledger.made)
      BY DEF WorkRight, TasksRight, TaskRight, StepsOf
    <2>4. p[1] = i /\ p[2] = 1 /\ BoxAt(p) = Tasks[i].steps[1].box
      BY <2>2, <2>3 DEF BoxAt
    <2>5. PICK line : line = TaskLine[i]
      OBVIOUS
    <2>6. Tasks[i] = ReadTask(work[i], line)
      BY <2>5 DEF Tasks
    <2>7. Tasks[i].steps[1].box.ticked = work[i].steps[1].ticked
      BY <2>2, <2>3, <2>6, ReadIs
    <2>8. CardRight(Tasks[i], ledger.made) /\ Tasks[i].id = work[i].id /\ DOMAIN Tasks[i].steps = DOMAIN work[i].steps
      BY TasksAre DEF CardsRight, ShowsTask
    <2>9. Tasks[i].steps[1].box.text = StepText(work[i].id)
      BY <2>2, <2>3, <2>8 DEF CardRight, StepCards
    <2> QED BY <2>2, <2>3, <2>4, <2>7, <2>9
  <1> QED BY <1>1, <1>2 DEF Boxes

LEMMA TextsDiffer ==
  ASSUME NEW id, NEW other, NEW text, TitleOf(id, text) \/ text = StepText(id)
  PROVE  /\ TitleOf(other, text) => id = other /\ text # StepText(id)
         /\ text = StepText(other) => id = other
  BY DEF TitleOf, StepText, Title

LEMMA OutcomeIs ==
  ASSUME WorkRight, NEW w, WriteRight(w), NEW o, o = Outcome(w)
  PROVE  \/ o.reply \in {"stale", "blocked"}
         \/ o.reply = "ok" /\ o.at[1] \in DOMAIN work /\ Turned(w, work[o.at[1]], o.card)
  <1>1. CASE MeantBy(w) = {}
    BY <1>1 DEF Outcome
  <1>2. CASE MeantBy(w) # {}
    <2>1. PICK p : p = CHOOSE q \in MeantBy(w) : TRUE
      OBVIOUS
    <2>2. p \in Boxes /\ BoxAt(p) = w.box
      BY <1>2, <2>1 DEF MeantBy
    <2>3. PICK i : i = p[1]
      OBVIOUS
    <2>4. PICK t : t = work[i]
      OBVIOUS
    <2>5. o = IF Blocked(t, p, w) THEN [reply |-> "blocked", card |-> None, at |-> p]
              ELSE [reply |-> "ok", card |-> Written(t, p, w), at |-> p]
      BY <1>2, <2>1, <2>3, <2>4 DEF Outcome
    <2>6. /\ i \in DOMAIN work /\ TaskRight(t, ledger.made)
          /\ p[2] = 0 => w.box.text = t.title /\ w.box.ticked = t.done
          /\ p[2] # 0 => p[2] = 1 /\ 1 \in DOMAIN t.steps /\ w.box.text = StepText(t.id) /\ w.box.ticked = t.steps[1].ticked
      BY <2>2, <2>3, <2>4, BoxesAre DEF WorkRight, TasksRight
    <2>7. TitleOf(w.id, w.box.text) \/ w.box.text = StepText(w.id)
      BY DEF WriteRight
    <2>8. t.id = w.id
      BY <2>6, <2>7, TextsDiffer DEF TaskRight
    <2>9. w.kind # "check" => p[2] = 0
      BY <2>6, <2>8, TextsDiffer DEF WriteRight
    <2>10. p[2] = 0 => OnTitle(w, work[i])
      BY <2>4, <2>6 DEF OnTitle
    <2>11. p[2] # 0 => OnStep(w, work[i]) /\ p[2] = 1
      BY <2>4, <2>6, <2>8 DEF OnStep
    <2>12. CASE ~Blocked(t, p, w)
      <3>1. o.reply = "ok" /\ o.card = Written(t, p, w) /\ o.at[1] = i
        BY <2>5, <2>12, <2>3
      <3>2. CASE w.kind = "replace"
        <4>1. Written(t, p, w) = [w.value EXCEPT !.id = t.id]
          BY <3>2 DEF Written
        <4>2. w.value.done => AllTicked(w.value.steps)
          BY <2>12, <3>2 DEF Blocked
        <4> QED BY <3>1, <3>2, <4>1, <4>2, <2>4, <2>6, <2>8, <2>9, <2>10 DEF Turned
      <3>3. CASE w.kind = "field"
        <4>1. Written(t, p, w) = [t EXCEPT !.goal = w.value]
          BY <3>3 DEF Written
        <4> QED BY <3>1, <3>3, <4>1, <2>4, <2>6, <2>8, <2>9, <2>10 DEF Turned
      <3>4. CASE w.kind = "delete"
        BY <3>1, <3>4, <2>4, <2>6, <2>8, <2>9, <2>10 DEF Turned
      <3>5. CASE w.kind \in {"check", "move"}
        <4>1. CASE p[2] = 0
          <5>1. Written(t, p, w) = [t EXCEPT !.done = w.value]
            BY <3>5, <4>1 DEF Written
          <5>2. w.value => AllTicked(t.steps)
            BY <2>12, <3>5, <4>1 DEF Blocked
          <5> QED BY <3>1, <3>5, <4>1, <5>1, <5>2, <2>4, <2>6, <2>8, <2>10 DEF Turned
        <4>2. CASE p[2] # 0
          <5>1. Written(t, p, w) = [t EXCEPT !.steps[1].ticked = w.value] /\ w.kind = "check"
            BY <3>5, <4>2, <2>9, <2>11 DEF Written
          <5> QED BY <3>1, <4>2, <5>1, <2>4, <2>6, <2>8, <2>11 DEF Turned
        <4> QED BY <4>1, <4>2
      <3> QED BY <3>2, <3>3, <3>4, <3>5 DEF WriteRight
    <2> QED BY <2>5, <2>12
  <1> QED BY <1>1, <1>2

\* What a task may become is a task, and no older.
LEMMA TurnedTask ==
  ASSUME WorkRight, NEW w, WriteRight(w), NEW i \in DOMAIN work, NEW c, Turned(w, work[i], c), w.kind # "delete"
  PROVE  /\ TaskRight(c, ledger.made) /\ c.id = w.id /\ c.title[2] \in Nat /\ work[i].title[2] \in Nat /\ work[i].title[2] <= c.title[2]
         /\ w.kind = "replace" => c.title[2] = work[i].title[2] + 1
         /\ w.kind # "replace" => c.title = work[i].title
         /\ c.done /\ ~work[i].done => AllTicked(c.steps)
  <1>1. PICK t : t = work[i]
    OBVIOUS
  <1>2. TaskRight(t, ledger.made) /\ t.id = w.id /\ t.title[2] \in Nat
    BY <1>1, TitleIs DEF WorkRight, TasksRight, Turned, TaskRight
  <1>3. CASE w.kind \in {"check", "move"} /\ c = [t EXCEPT !.done = w.value] /\ (w.value => AllTicked(t.steps))
    <2>1. c.id = t.id /\ c.title = t.title /\ c.done = w.value /\ c.goal = t.goal /\ c.steps = t.steps /\ IsTask(c)
      BY <1>2, <1>3 DEF TaskRight, IsTask
    <2> QED BY <1>1, <1>2, <1>3, <2>1 DEF TaskRight, WriteRight
  <1>4. CASE w.kind = "check" /\ c = [t EXCEPT !.steps[1].ticked = w.value] /\ 1 \in DOMAIN t.steps
    <2>1. PICK s : s = [t.steps EXCEPT ![1].ticked = w.value]
      OBVIOUS
    <2>2. c.id = t.id /\ c.title = t.title /\ c.done = t.done /\ c.goal = t.goal /\ c.steps = s /\ IsTask(c)
      BY <1>2, <1>4, <2>1 DEF TaskRight, IsTask
    <2>3. t.steps = [k \in DOMAIN t.steps |-> t.steps[k]] /\ DOMAIN t.steps = {1} /\ IsStep(t.steps[1])
          /\ t.steps[1].text = StepText(t.id)
      BY <1>2, <1>4 DEF TaskRight, StepsOf
    <2>4. DOMAIN s = {1} /\ s = [k \in DOMAIN s |-> s[k]] /\ s[1] = [t.steps[1] EXCEPT !.ticked = w.value]
      BY <2>1, <2>3
    <2>5. IsStep(s[1]) /\ s[1].text = StepText(t.id) /\ s[1].ticked = w.value
      BY <2>3, <2>4 DEF IsStep
    <2>6. StepsOf(t.id, s)
      BY <1>4, <2>4, <2>5 DEF StepsOf, WriteRight
    <2> QED BY <1>1, <1>2, <1>4, <2>2, <2>6 DEF TaskRight, WriteRight
  <1>5. CASE w.kind = "field" /\ c = [t EXCEPT !.goal = w.value]
    <2>1. c.id = t.id /\ c.title = t.title /\ c.done = t.done /\ c.goal = w.value /\ c.steps = t.steps /\ IsTask(c)
      BY <1>2, <1>5 DEF TaskRight, IsTask
    <2> QED BY <1>1, <1>2, <1>5, <2>1 DEF TaskRight, WriteRight
  <1>6. CASE w.kind = "replace" /\ OnTitle(w, work[i]) /\ c = [w.value EXCEPT !.id = t.id] /\ (w.value.done => AllTicked(w.value.steps))
    <2>1. IsTask(w.value) /\ w.value.title = Retitled(t.title) /\ w.value.done \in BOOLEAN /\ StepsOf(t.id, w.value.steps)
      BY <1>1, <1>2, <1>6 DEF WriteRight, IsSpec, OnTitle
    <2>2. c.id = t.id /\ c.title = w.value.title /\ c.done = w.value.done /\ c.steps = w.value.steps /\ IsTask(c)
      BY <1>6, <2>1 DEF IsTask
    <2>3. TitleOf(t.id, c.title) /\ c.title[2] = t.title[2] + 1
      BY <1>2, <2>1, <2>2, TitleIs DEF TaskRight
    <2> QED BY <1>1, <1>2, <1>6, <2>1, <2>2, <2>3 DEF TaskRight
  <1> QED BY <1>1, <1>3, <1>4, <1>5, <1>6 DEF Turned, OnStep

-----------------------------------------------------------------------------
(* The note and the ledger through a write.                                *)

IsLedger(l) ==
  l = [others |-> l.others, wanted |-> l.wanted, made |-> l.made, strayed |-> FALSE, rash |-> FALSE]
LedgerRight == IsLedger(ledger) /\ ledger.others \in Nat

LEMMA LedgerIs ==
  ASSUME NEW l, IsLedger(l)
  PROVE  \E a, b, c : /\ l = [others |-> a, wanted |-> b, made |-> c, strayed |-> FALSE, rash |-> FALSE]
                      /\ a = l.others /\ b = l.wanted /\ c = l.made
  BY Zenon DEF IsLedger

IsTold(m, l, n) == m = [l EXCEPT !.others = n]
IsTried(m, l, n) == m = [l EXCEPT !.others = n, !.strayed = FALSE, !.rash = FALSE]

LEMMA LedgerTold ==
  ASSUME NEW l, IsLedger(l), NEW m, NEW n, IsTried(m, l, n) \/ IsTold(m, l, n)
  PROVE  /\ IsLedger(m) /\ m.others = n /\ m.made = l.made /\ m.wanted = l.wanted
         /\ IsTold(m, l, n) /\ (n = l.others => m = l)
         /\ l.strayed = FALSE /\ l.rash = FALSE
  <1>1. PICK a, b, c : /\ l = [others |-> a, wanted |-> b, made |-> c, strayed |-> FALSE, rash |-> FALSE]
                       /\ a = l.others /\ b = l.wanted /\ c = l.made
    BY LedgerIs
  <1>2. l = [others |-> a, wanted |-> b, made |-> c, strayed |-> FALSE, rash |-> FALSE]
    BY <1>1
  <1>3. m = [others |-> n, wanted |-> b, made |-> c, strayed |-> FALSE, rash |-> FALSE]
    BY <1>2 DEF IsTried, IsTold
  <1>4. m.others = n /\ m.wanted = b /\ m.made = c /\ IsLedger(m)
    BY <1>3 DEF IsLedger
  <1>5. IsTold(m, l, n)
    <2>1. PICK e : IsTold(e, l, n)
      BY DEF IsTold
    <2>2. e = [others |-> n, wanted |-> b, made |-> c, strayed |-> FALSE, rash |-> FALSE]
      BY <1>2, <2>1 DEF IsTold
    <2> QED BY <1>3, <2>1, <2>2
  <1>6. n = a => m = l
    BY <1>2, <1>3
  <1>7. l.strayed = FALSE /\ l.rash = FALSE
    BY <1>2
  <1> QED BY <1>1, <1>4, <1>5, <1>6, <1>7

IsMade(m, l, n, i) == m = [l EXCEPT !.others = n, !.made = i]

LEMMA LedgerMade ==
  ASSUME NEW l, IsLedger(l), NEW m, NEW n, NEW i, IsMade(m, l, n, i)
  PROVE  IsLedger(m) /\ m.others = n /\ m.made = i /\ m.wanted = l.wanted
  <1>1. PICK a, b, c : /\ l = [others |-> a, wanted |-> b, made |-> c, strayed |-> FALSE, rash |-> FALSE]
                       /\ a = l.others /\ b = l.wanted /\ c = l.made
    BY LedgerIs
  <1>2. m = [others |-> n, wanted |-> b, made |-> i, strayed |-> FALSE, rash |-> FALSE]
    BY <1>1 DEF IsMade
  <1> QED BY <1>1, <1>2 DEF IsLedger

\* Tasks come with new ids, stay as they are or get a newer title, or go.
Grows(stock, upto, later, more) ==
  /\ upto \in Nat /\ more \in Nat /\ upto <= more
  /\ \A j \in DOMAIN later :
       \/ later[j].id \in Nat /\ later[j].id > upto
       \/ \E i \in DOMAIN stock : /\ stock[i].id = later[j].id
                                  /\ stock[i].title[2] \in Nat /\ later[j].title[2] \in Nat
                                  /\ stock[i].title[2] <= later[j].title[2]

LEMMA CardStays ==
  ASSUME NEW upto \in Nat, NEW more \in Nat, upto <= more, NEW c, CardRight(c, upto)
  PROVE  CardRight(c, more)
  BY DEF CardRight

LEMMA CardsStay ==
  ASSUME NEW upto, NEW more, NEW stock, NEW later, Grows(stock, upto, later, more), NEW s, CardsRight(s, upto, stock)
  PROVE  CardsRight(s, more, later)
  <1>1. \A i \in DOMAIN s : CardRight(s[i], more)
    BY CardStays DEF Grows, CardsRight
  <1>2. ASSUME NEW i \in DOMAIN s, NEW j \in DOMAIN later, later[j].id = s[i].id
        PROVE  s[i].box.text[2] <= later[j].title[2]
    <2>1. PICK c : c = s[i]
      OBVIOUS
    <2>2. CardRight(c, upto) /\ NotNewer(c.id, c.box.text, stock)
      BY <2>1 DEF CardsRight
    <2>3. c.id \in 1 .. upto /\ c.box.text[2] \in Nat
      BY <2>2, TitleIs DEF CardRight
    <2>4. PICK k \in DOMAIN stock : /\ stock[k].id = later[j].id
                                    /\ stock[k].title[2] \in Nat /\ later[j].title[2] \in Nat
                                    /\ stock[k].title[2] <= later[j].title[2]
      BY <1>2, <2>1, <2>3 DEF Grows
    <2>5. c.box.text[2] <= stock[k].title[2]
      BY <1>2, <2>1, <2>2, <2>4 DEF NotNewer
    <2> QED BY <2>1, <2>3, <2>4, <2>5
  <1>3. \A i \in DOMAIN s : NotNewer(s[i].id, s[i].box.text, later)
    BY <1>2 DEF NotNewer
  <1> QED BY <1>1, <1>3 DEF CardsRight

LEMMA SameGrows ==
  ASSUME WorkRight
  PROVE  Grows(work, ledger.made, work, ledger.made)
  BY TitleIs DEF WorkRight, TasksRight, TaskRight, Grows

\* The outcome of a write: refused, or one task is replaced or gone.
TaskTurned(w, o, others) ==
  \/ o.reply \in {"stale", "blocked"} /\ work' = work /\ ledger' = ledger
  \/ /\ o.reply = "ok" /\ IsTold(ledger', ledger, ledger.others + others)
     /\ \E i \in DOMAIN work :
          /\ Turned(w, work[i], o.card)
          /\ work' = IF w.kind = "delete" THEN LessOne(work, i) ELSE [work EXCEPT ![i] = o.card]

LEMMA MutatedIs ==
  ASSUME WorkRight, LedgerRight, NEW w, WriteRight(w), NEW o, o = Outcome(w), NEW n \in Nat, Mutated(w, o, n)
  PROVE  TaskTurned(w, o, n) /\ LedgerRight'
  <1>0. PICK l, m : l = ledger /\ m = ledger'
    OBVIOUS
  <1>1. IsLedger(l) /\ l.others \in Nat /\ l.strayed = FALSE /\ l.rash = FALSE
    <2>1. IsLedger(l) /\ l.others \in Nat
      BY <1>0 DEF LedgerRight
    <2>2. IsTold([l EXCEPT !.others = 0], l, 0)
      BY DEF IsTold
    <2> QED BY <2>1, <2>2, LedgerTold
  <1>2. CASE o.reply \in {"stale", "blocked"}
    <2>1. work' = work
      BY <1>2 DEF Mutated
    <2>2. IsTried(m, l, l.others)
      <3>1. l.others + 0 = l.others
        BY <1>1
      <3> QED BY <1>0, <1>1, <1>2, <3>1 DEF Mutated, IsTried
    <2>3. m = l
      BY <1>1, <2>2, LedgerTold
    <2> QED BY <1>0, <1>1, <1>2, <2>1, <2>3 DEF TaskTurned, LedgerRight
  <1>3. CASE o.reply = "ok"
    <2>1. PICK i : i = o.at[1]
      OBVIOUS
    <2>2. i \in DOMAIN work /\ Turned(w, work[i], o.card)
      BY <1>3, <2>1, OutcomeIs
    <2>3. work' = IF w.kind = "delete" THEN LessOne(work, i) ELSE [work EXCEPT ![i] = o.card]
      BY <1>3, <2>1 DEF Mutated, Removed, LessOne
    <2>4. w.kind # "delete" /\ o.card.done /\ ~work[i].done => AllTicked(o.card.steps)
      BY <2>2, TurnedTask
    <2>5. work[i].id = w.id
      BY <2>2 DEF Turned
    <2>6. IsTried(m, l, l.others + n)
      BY <1>0, <1>1, <1>3, <2>1, <2>4, <2>5 DEF Mutated, IsTried
    <2>7. IsTold(m, l, l.others + n) /\ IsLedger(m) /\ m.others = l.others + n
      <3>1. PICK k : k = l.others + n
        OBVIOUS
      <3>2. IsTried(m, l, k)
        BY <2>6, <3>1
      <3>3. IsTold(m, l, k) /\ IsLedger(m) /\ m.others = k
        BY <1>1, <3>2, LedgerTold
      <3> QED BY <3>1, <3>3
    <2> QED BY <1>0, <1>1, <1>3, <2>2, <2>3, <2>7 DEF TaskTurned, LedgerRight
  <1> QED BY <1>2, <1>3, OutcomeIs

LEMMA TurnedWork ==
  ASSUME WorkRight, LedgerRight, NEW w, WriteRight(w), NEW o, NEW n \in Nat, TaskTurned(w, o, n)
  PROVE  WorkRight' /\ Grows(work, ledger.made, work', ledger'.made)
  <1> USE DEF WorkRight
  <1>1. CASE work' = work /\ ledger' = ledger
    BY <1>1, SameGrows
  <1>2. CASE /\ o.reply = "ok" /\ IsTold(ledger', ledger, ledger.others + n)
             /\ \E i \in DOMAIN work :
                  /\ Turned(w, work[i], o.card)
                  /\ work' = IF w.kind = "delete" THEN LessOne(work, i) ELSE [work EXCEPT ![i] = o.card]
    <2>0. PICK l, m : l = ledger /\ m = ledger'
      OBVIOUS
    <2>1. ledger'.made = ledger.made
      BY <2>0, <1>2, LedgerTold DEF LedgerRight
    <2>2. PICK i \in DOMAIN work :
                  /\ Turned(w, work[i], o.card)
                  /\ work' = IF w.kind = "delete" THEN LessOne(work, i) ELSE [work EXCEPT ![i] = o.card]
      BY <1>2
    <2>3. IsSeq(work) /\ \A j \in DOMAIN work : TaskRight(work[j], ledger.made) /\ work[j].title[2] \in Nat
      BY TitleIs DEF TasksRight, TaskRight
    <2>4. CASE w.kind = "delete"
      <3>1. work' = LessOne(work, i)
        BY <2>2, <2>4
      <3>2. /\ IsSeq(work')
            /\ \A j \in DOMAIN work' : work'[j] = work[IF j < i THEN j ELSE j + 1]
            /\ \A j \in DOMAIN work' : (IF j < i THEN j ELSE j + 1) \in DOMAIN work /\ j \in Nat
            /\ i \in Nat
        BY <2>3, <3>1, SeqWithout
      <3>3. \A j, k \in DOMAIN work' : work'[j].id = work'[k].id => j = k
        <4> SUFFICES ASSUME NEW j \in DOMAIN work', NEW k \in DOMAIN work', work'[j].id = work'[k].id PROVE j = k
          OBVIOUS
        <4>1. (IF j < i THEN j ELSE j + 1) = (IF k < i THEN k ELSE k + 1)
          BY <3>2 DEF TasksRight
        <4> QED BY <3>2, <4>1
      <3>4. TasksRight(work', ledger'.made)
        BY <2>1, <2>3, <3>2, <3>3 DEF TasksRight
      <3> QED BY <2>1, <2>3, <3>2, <3>4 DEF Grows, TasksRight
    <2>5. CASE w.kind # "delete"
      <3>1. PICK c : c = o.card
        OBVIOUS
      <3>2. work' = [work EXCEPT ![i] = c]
        BY <2>2, <2>5, <3>1
      <3>3. /\ TaskRight(c, ledger.made) /\ c.id = w.id /\ c.title[2] \in Nat /\ work[i].title[2] <= c.title[2]
            /\ work[i].id = w.id
        BY <2>2, <2>5, <3>1, TurnedTask DEF Turned
      <3>4. IsSeq(work') /\ DOMAIN work' = DOMAIN work /\ work'[i] = c /\ \A j \in DOMAIN work : j # i => work'[j] = work[j]
        BY <2>3, <3>2, SeqExcept
      <3>5. TasksRight(work', ledger'.made)
        BY <2>1, <2>3, <3>3, <3>4 DEF TasksRight
      <3>6. \A j \in DOMAIN work' : work[j].id = work'[j].id /\ work'[j].title[2] \in Nat /\ work[j].title[2] <= work'[j].title[2]
        BY <2>3, <3>3, <3>4
      <3>7. Grows(work, ledger.made, work', ledger'.made)
        BY <2>1, <2>3, <3>4, <3>6 DEF Grows, TasksRight
      <3> QED BY <3>5, <3>7
    <2> QED BY <2>4, <2>5
  <1> QED BY <1>1, <1>2 DEF TaskTurned

LEMMA CreatedWork ==
  ASSUME WorkRight, LedgerRight, NEW done \in BOOLEAN, NEW n \in Nat, TaskCreated(done, n)
  PROVE  /\ WorkRight' /\ LedgerRight' /\ Grows(work, ledger.made, work', ledger'.made)
         /\ ledger'.others = ledger.others + n /\ ledger'.wanted = ledger.wanted
  <1>1. PICK id : id = ledger.made + 1
    OBVIOUS
  <1>2. PICK t : t = Task(id, Title(id, 1), done, None, <<>>)
    OBVIOUS
  <1>3. ledger.made \in Nat /\ id \in Nat /\ IsSeq(work)
    BY <1>1 DEF WorkRight, TasksRight
  <1>0. PICK l, m : l = ledger /\ m = ledger'
    OBVIOUS
  <1>p. PICK k : k = l.others + n
    OBVIOUS
  <1>4. work' = Append(work, t) /\ IsMade(m, l, k, id)
    BY <1>0, <1>p, <1>1, <1>2 DEF TaskCreated, IsMade
  <1>5. ledger'.made = id /\ ledger'.others = ledger.others + n /\ LedgerRight' /\ ledger'.wanted = ledger.wanted
    <2>1. IsLedger(l) /\ l.others \in Nat
      BY <1>0 DEF LedgerRight
    <2>2. IsLedger(m) /\ m.made = id /\ m.others = k /\ m.wanted = l.wanted
      BY <1>4, <2>1, LedgerMade
    <2> QED BY <1>0, <1>p, <2>1, <2>2 DEF LedgerRight
  <1>6. TaskRight(t, id) /\ t.id = id
    <2>1. IsTask(t) /\ t.id = id /\ t.done = done /\ t.title = Title(id, 1) /\ t.steps = <<>>
      BY <1>2 DEF Task, IsTask
    <2>2. StepsOf(id, <<>>)
      BY DEF StepsOf
    <2>3. TitleOf(id, Title(id, 1))
      BY DEF TitleOf
    <2> QED BY <1>1, <1>3, <2>1, <2>2, <2>3 DEF TaskRight
  <1>7. /\ IsSeq(work') /\ DOMAIN work = 1 .. Len(work) /\ Len(work) \in Nat /\ DOMAIN work' = 1 .. Len(work) + 1
        /\ work'[Len(work) + 1] = t /\ \A i \in DOMAIN work : work'[i] = work[i]
    BY <1>3, <1>4, SeqAppend
  <1>8. \A i \in DOMAIN work : /\ TaskRight(work[i], id) /\ work[i].id < id /\ work[i].id \in Nat /\ work[i].title[2] \in Nat
    BY <1>1, <1>3, TitleIs DEF WorkRight, TasksRight, TaskRight
  <1>9. \A i \in DOMAIN work' : i \in DOMAIN work \/ i = Len(work) + 1
    BY <1>7
  <1>10. TasksRight(work', id)
    <2>1. \A i \in DOMAIN work' : TaskRight(work'[i], id)
      BY <1>6, <1>7, <1>8, <1>9
    <2>2. ASSUME NEW i \in DOMAIN work', NEW j \in DOMAIN work', work'[i].id = work'[j].id PROVE i = j
      BY <2>2, <1>3, <1>6, <1>7, <1>8, <1>9 DEF WorkRight, TasksRight
    <2> QED BY <1>3, <1>7, <2>1, <2>2 DEF TasksRight
  <1>11. Grows(work, ledger.made, work', id)
    BY <1>1, <1>3, <1>6, <1>7, <1>8, <1>9 DEF Grows
  <1> QED BY <1>5, <1>10, <1>11 DEF WorkRight

-----------------------------------------------------------------------------
(* Keys.                                                                   *)

KeysRight(s, used) ==
  /\ used \in Nat /\ \A i \in DOMAIN s : s[i].key \in 1 .. used
  /\ \A i, j \in DOMAIN s : s[i].key = s[j].key => i = j

SameCard(c, d) == c.id = d.id /\ c.goal = d.goal /\ c.box = d.box /\ c.steps = d.steps

IsKeyed(d, c, x) == d = [c EXCEPT !.key = x]

LEMMA CardKeyed ==
  ASSUME NEW c, IsCard(c), NEW x, NEW d, IsKeyed(d, c, x)
  PROVE  IsCard(d) /\ SameCard(d, c) /\ d.key = x
  <1>1. PICK i, k, g, b, s : c = [id |-> i, key |-> k, goal |-> g, box |-> b, steps |-> s]
    BY Zenon DEF IsCard
  <1>2. d = [id |-> i, key |-> x, goal |-> g, box |-> b, steps |-> s]
    BY <1>1 DEF IsKeyed
  <1> QED BY <1>1, <1>2 DEF IsCard, SameCard

LEMMA SameRight ==
  ASSUME NEW c, NEW d, NEW upto, CardRight(c, upto), IsCard(d), SameCard(d, c)
  PROVE  CardRight(d, upto)
  BY DEF CardRight, SameCard

\* Cards that are the same but for their keys.
LEMMA SameCards ==
  ASSUME NEW s, NEW upto, NEW stock, CardsRight(s, upto, stock), NEW r, r = [i \in DOMAIN s |-> r[i]],
         \A i \in DOMAIN s : IsCard(r[i]) /\ SameCard(r[i], s[i])
  PROVE  CardsRight(r, upto, stock) /\ DOMAIN r = DOMAIN s
  <1>1. DOMAIN r = DOMAIN s
    OBVIOUS
  <1>2. IsSeq(r)
    <2>1. PICK S : s \in Seq(S)
      BY DEF CardsRight, IsSeq
    <2>2. DOMAIN s = 1 .. Len(s) /\ Len(s) \in Nat
      BY <2>1
    <2>3. PICK T : T = {r[i] : i \in DOMAIN s}
      OBVIOUS
    <2>4. r \in [1 .. Len(s) -> T]
      BY <2>2, <2>3
    <2>5. r \in Seq(T)
      BY <2>2, <2>4
    <2> QED BY <2>5 DEF IsSeq
  <1>3. \A i \in DOMAIN r : CardRight(r[i], upto)
    BY <1>1, SameRight DEF CardsRight
  <1>4. \A i \in DOMAIN r : r[i].id = s[i].id /\ r[i].box = s[i].box /\ NotNewer(s[i].id, s[i].box.text, stock)
    BY <1>1 DEF SameCard, CardsRight
  <1>5. \A i \in DOMAIN r : NotNewer(r[i].id, r[i].box.text, stock)
    BY <1>4
  <1>6. \A i, j \in DOMAIN r : r[i].id = r[j].id => i = j
    BY <1>1, <1>4 DEF CardsRight
  <1> QED BY <1>1, <1>2, <1>3, <1>5, <1>6 DEF CardsRight

LEMMA RawTells ==
  ASSUME NEW upto, NEW c, NEW d, CardRight(c, upto), CardRight(d, upto), Raw(c) = Raw(d)
  PROVE  c.box.text = d.box.text /\ c.box.ticked = d.box.ticked /\ c.id = d.id
  <1>1. c.box.text = d.box.text /\ c.box.ticked = d.box.ticked
    BY DEF Raw
  <1> QED BY <1>1, TitleIs DEF CardRight

Rekeyed(prev, read, used, k, u) ==
  /\ DOMAIN k = DOMAIN read /\ KeysRight(k, u) /\ used <= u
  /\ \A i \in DOMAIN k : SameCard(k[i], read[i])
  /\ \A i \in DOMAIN k : \/ k[i].key > used
                         \/ \E j \in DOMAIN prev : k[i].key = prev[j].key /\ Raw(prev[j]) = Raw(read[i])

LEMMA KeyedIs ==
  ASSUME NEW upto, NEW stock, NEW prev, NEW used, KeysRight(prev, used), CardsRight(prev, upto, stock),
         NEW read, CardsRight(read, upto, stock)
  PROVE  /\ CardsRight(Keyed(prev, read, used), upto, stock)
         /\ Rekeyed(prev, read, used, Keyed(prev, read, used), KeysUsed(prev, read, used))
  <1> DEFINE K(i) == IF Counterparts(prev, read, i) = {} THEN used + i
                     ELSE prev[CHOOSE j \in Counterparts(prev, read, i) : TRUE].key
  <1>1. PICK k : k = Keyed(prev, read, used)
    OBVIOUS
  <1>2. PICK u : u = KeysUsed(prev, read, used)
    OBVIOUS
  <1>3. k = [i \in DOMAIN read |-> [read[i] EXCEPT !.key = K(i)]]
    BY <1>1 DEF Keyed
  <1>4. DOMAIN read = 1 .. Len(read) /\ Len(read) \in Nat /\ used \in Nat
    BY DEF CardsRight, IsSeq, KeysRight
  <1>5. \A i \in DOMAIN read : \A j \in Counterparts(prev, read, i) : j \in DOMAIN prev /\ Raw(prev[j]) = Raw(read[i])
    BY DEF Counterparts
  <1>6. \A i \in DOMAIN read : \/ Counterparts(prev, read, i) = {} /\ K(i) = used + i
                               \/ \E j \in DOMAIN prev : K(i) = prev[j].key /\ Raw(prev[j]) = Raw(read[i])
    <2> SUFFICES ASSUME NEW i \in DOMAIN read
                 PROVE  \/ Counterparts(prev, read, i) = {} /\ K(i) = used + i
                        \/ \E j \in DOMAIN prev : K(i) = prev[j].key /\ Raw(prev[j]) = Raw(read[i])
      OBVIOUS
    <2>1. CASE Counterparts(prev, read, i) # {}
      <3>1. PICK j : j = CHOOSE n \in Counterparts(prev, read, i) : TRUE
        OBVIOUS
      <3>2. j \in Counterparts(prev, read, i) /\ K(i) = prev[j].key
        BY <2>1, <3>1
      <3> QED BY <1>5, <3>2
    <2> QED BY <2>1
  <1>7. u \in Nat /\ used <= u /\ \A i \in DOMAIN read : Counterparts(prev, read, i) = {} => used + i <= u
    BY <1>2, <1>4 DEF KeysUsed
  <1> HIDE DEF K
  <1>8. \A i \in DOMAIN read : IsKeyed(k[i], read[i], K(i))
    BY <1>3 DEF IsKeyed
  <1>9. \A i \in DOMAIN read : IsCard(k[i]) /\ SameCard(k[i], read[i]) /\ k[i].key = K(i)
    BY <1>8, CardKeyed DEF CardsRight, CardRight
  <1>10. DOMAIN k = DOMAIN read /\ k = [i \in DOMAIN read |-> k[i]]
    BY <1>3
  <1>11. CardsRight(k, upto, stock)
    BY <1>9, <1>10, SameCards
  <1>12. \A j \in DOMAIN prev : prev[j].key \in 1 .. used
    BY DEF KeysRight
  <1>13. \A i \in DOMAIN k : k[i].key \in 1 .. u
    BY <1>4, <1>6, <1>7, <1>9, <1>10, <1>12
  <1>14. ASSUME NEW i \in DOMAIN k, NEW j \in DOMAIN k, k[i].key = k[j].key PROVE i = j
    <2>1. K(i) = K(j)
      BY <1>9, <1>10, <1>14
    <2>2. CASE Counterparts(prev, read, i) = {} /\ K(i) = used + i /\ Counterparts(prev, read, j) = {} /\ K(j) = used + j
      <3>1. i \in Nat /\ j \in Nat
        BY <1>4, <1>10
      <3>2. used + i = used + j
        BY <2>1, <2>2, Zenon
      <3> QED BY <1>4, <3>1, <3>2
    <2>3. CASE /\ \E m \in DOMAIN prev : K(i) = prev[m].key /\ Raw(prev[m]) = Raw(read[i])
               /\ \E m \in DOMAIN prev : K(j) = prev[m].key /\ Raw(prev[m]) = Raw(read[j])
      <3>1. Raw(read[i]) = Raw(read[j])
        BY <2>1, <2>3 DEF KeysRight
      <3>2. read[i].id = read[j].id
        BY <1>10, <3>1, RawTells DEF CardsRight
      <3> QED BY <1>10, <3>2 DEF CardsRight
    <2> QED BY <2>1, <2>2, <2>3, <1>4, <1>6, <1>10, <1>12
  <1>15. KeysRight(k, u)
    BY <1>7, <1>13, <1>14 DEF KeysRight
  <1>16. \A i \in DOMAIN k : \/ k[i].key > used
                             \/ \E j \in DOMAIN prev : k[i].key = prev[j].key /\ Raw(prev[j]) = Raw(read[i])
    BY <1>4, <1>6, <1>9, <1>10
  <1>17. \A i \in DOMAIN k : SameCard(k[i], read[i])
    BY <1>9, <1>10
  <1> QED BY <1>1, <1>2, <1>7, <1>10, <1>11, <1>15, <1>16, <1>17 DEF Rekeyed

-----------------------------------------------------------------------------
(* Boards.                                                                 *)

IsMile(m) == m = [id |-> m.id, closed |-> m.closed]
IsBoard(b) == b = [cols |-> b.cols, miles |-> b.miles]
MilesRight(miles) ==
  /\ IsFiniteSet(miles) /\ \A m \in miles : IsMile(m)
  /\ \A m, n \in miles : m.id = n.id => m = n
BoardRight(b) == IsBoard(b) /\ MilesRight(b.miles)

LEMMA MilestoneIsNew ==
  ASSUME NEW inUse, IsFiniteSet(inUse), NEW title
  PROVE  MilestoneId(title, inUse) \notin inUse
  <1> DEFINE c == Cardinality(inUse)
             FreeAt == {n \in 1 .. c + 1 : <<title, n>> \notin inUse}
  <1>1. c \in Nat
    BY FS_CardinalityType
  <1>2. FreeAt # {}
    <2> SUFFICES ASSUME FreeAt = {} PROVE FALSE
      OBVIOUS
    <2>1. \A n \in 1 .. c + 1 : <<title, n>> \in inUse
      OBVIOUS
    <2>2. IsFiniteSet(1 .. c + 1) /\ Cardinality(1 .. c + 1) = c + 1
      BY <1>1, FS_Interval
    <2>3. PICK f : f = [n \in 1 .. c + 1 |-> <<title, n>>]
      OBVIOUS
    <2>4. f \in [1 .. c + 1 -> inUse]
      BY <2>1, <2>3
    <2>5. PICK m \in 1 .. c + 1, n \in 1 .. c + 1 : m # n /\ f[m] = f[n]
      BY <2>2, <2>4, <1>1, FS_PigeonHole
    <2>6. <<title, m>> = <<title, n>>
      BY <2>3, <2>5
    <2> QED BY <2>5, <2>6
  <1>3. PICK n \in FreeAt : \A k \in 1 .. n - 1 : k \notin FreeAt
    <2> DEFINE R == {ss \in Nat \X Nat : ss[1] < ss[2]}
    <2>1. IsWellFoundedOn(R, Nat)
      BY NatLessThanWellFounded DEF OpToRel
    <2>2. FreeAt \subseteq Nat
      BY <1>1
    <2> HIDE DEF R
    <2>3. PICK x \in FreeAt : \A y \in FreeAt : ~(<<y, x>> \in R)
      <3> HIDE DEF FreeAt
      <3> QED BY <1>2, <2>1, <2>2, WFMin, Zenon
    <2>4. \A y \in FreeAt : ~(y < x)
      BY <2>2, <2>3 DEF R
    <2> QED BY <2>2, <2>4
  <1>4. n \in 1 .. c + 1 /\ <<title, n>> \notin inUse /\ \A k \in 1 .. n - 1 : <<title, k>> \in inUse
    BY <1>1, <1>3
  <1>5. PICK m : m = CHOOSE i \in 1 .. c + 1 : <<title, i>> \notin inUse /\ \A k \in 1 .. i - 1 : <<title, k>> \in inUse
    OBVIOUS
  <1>6. <<title, m>> \notin inUse
    BY <1>4, <1>5
  <1> QED BY <1>5, <1>6 DEF MilestoneId

LEMMA RevisedRight ==
  ASSUME NEW miles, MilesRight(miles), NEW later \in Revised(miles)
  PROVE  MilesRight(later)
  <1>1. CASE \E title \in Goal : later = miles \cup {[id |-> MilestoneId(title, Ids(miles)), closed |-> FALSE]}
    <2>1. PICK title \in Goal : later = miles \cup {[id |-> MilestoneId(title, Ids(miles)), closed |-> FALSE]}
      BY <1>1
    <2>2. IsFiniteSet(Ids(miles))
      <3>1. PICK f : f = [m \in miles |-> m.id]
        OBVIOUS
      <3>2. f \in Surjection(miles, Ids(miles))
        BY <3>1 DEF Surjection, Ids
      <3> QED BY <3>2, FS_Surjection DEF MilesRight
    <2>3. PICK n : n = [id |-> MilestoneId(title, Ids(miles)), closed |-> FALSE]
      OBVIOUS
    <2>4. n.id \notin Ids(miles) /\ IsMile(n)
      BY <2>2, <2>3, MilestoneIsNew DEF IsMile
    <2>5. later = miles \cup {n} /\ IsFiniteSet(later)
      BY <2>1, <2>3, FS_AddElement DEF MilesRight
    <2> QED BY <2>4, <2>5 DEF MilesRight, Ids
  <1>2. CASE \E m \in miles : later = (miles \ {m}) \cup {[m EXCEPT !.closed = ~@]}
    <2>1. PICK m \in miles : later = (miles \ {m}) \cup {[m EXCEPT !.closed = ~@]}
      BY <1>2
    <2>2. PICK n : n = [m EXCEPT !.closed = ~@]
      OBVIOUS
    <2>3. IsMile(m)
      BY DEF MilesRight
    <2>4. PICK i, c : m = [id |-> i, closed |-> c]
      BY <2>3, Zenon DEF IsMile
    <2>5. n = [id |-> i, closed |-> ~c]
      BY <2>2, <2>4
    <2>6. n.id = m.id /\ IsMile(n)
      BY <2>4, <2>5 DEF IsMile
    <2>7. IsFiniteSet(miles \ {m})
      BY FS_Difference DEF MilesRight
    <2>8. later = (miles \ {m}) \cup {n} /\ IsFiniteSet(later)
      BY <2>1, <2>2, <2>7, FS_AddElement
    <2> QED BY <2>6, <2>8 DEF MilesRight
  <1>3. CASE \E m \in miles : later = miles \ {m}
    <2>1. PICK m \in miles : later = miles \ {m}
      BY <1>3
    <2>2. IsFiniteSet(later)
      BY <2>1, FS_Difference DEF MilesRight
    <2> QED BY <2>1, <2>2 DEF MilesRight
  <1> QED BY <1>1, <1>2, <1>3 DEF Revised

-----------------------------------------------------------------------------
(* What holds between the page, its requests and the note.                 *)

IsDesk(d) == d = [tasks |-> d.tasks, keys |-> d.keys, board |-> d.board, at |-> d.at, goal |-> d.goal, done |-> d.done]
OnDesk ==
  /\ IsDesk(desk) /\ desk.at \in Nat /\ desk.at <= ledger.others
  /\ CardsRight(desk.tasks, ledger.made, work) /\ KeysRight(desk.tasks, desk.keys)

OnPage(k) == \E i \in DOMAIN desk.tasks : desk.tasks[i].key = k
NoneSince == desk.at = ledger.others

\* A read is of the note as it was: as it is, when nobody else has written since.
ReadDue(r) ==
  /\ r.at \in Nat /\ desk.at <= r.at /\ r.at <= ledger.others
  /\ CardsRight(r.tasks, ledger.made, work)
  /\ r.at = ledger.others => r.tasks = Tasks /\ r.board = boardFile

\* A click is on a card, and no other card ever has its key.
ClickRight(q) ==
  /\ WriteRight(q.w) /\ q.w.key \in Nat /\ q.w.key <= desk.keys
  /\ q.kind = "step" => q.w.kind = "check" /\ q.w.box.text = StepText(q.w.id)
  /\ \A i \in DOMAIN desk.tasks : desk.tasks[i].key = q.w.key => desk.tasks[i].id = q.w.id

AskedRaw(q) == <<q.w.box.text, q.w.box.ticked>>

\* A card that was ticked is still shown as it was, and in the note as the answer has it.
ToggleRight(q) ==
  /\ TaskRight(q.o.card, ledger.made) /\ q.o.card.id = q.w.id /\ q.o.card.title = q.w.box.text
  /\ q.o.card.done \in BOOLEAN /\ q.o.card.done # q.w.box.ticked
  /\ NotNewer(q.w.id, q.w.box.text, work)
  /\ \A i \in DOMAIN desk.tasks : desk.tasks[i].key = q.w.key => Raw(desk.tasks[i]) = AskedRaw(q)
  /\ NoneSince /\ OnPage(q.w.key) => \E j \in DOMAIN work : work[j] = q.o.card

\* A step that was ticked is shown so, and is so in the note unless its task was written anew.
StepRight(q) ==
  NoneSince =>
    \A i \in DOMAIN desk.tasks : desk.tasks[i].key = q.w.key =>
      /\ \A k \in DOMAIN desk.tasks[i].steps : desk.tasks[i].steps[k].shows = q.w.value
      /\ \A j \in DOMAIN work : work[j].id = q.w.id =>
           \/ desk.tasks[i].box.text[2] < work[j].title[2]
           \/ \A k \in DOMAIN work[j].steps : work[j].steps[k].ticked = q.w.value

AskedBoard(q) == NoneSince => q.board = boardFile

Click == {"toggle", "step", "delete"}
BoardKind == {"columns", "miles"}
Answers(q) == q.o.reply = "ok"
RequestRight(q) ==
  /\ q.kind \in Click \cup BoardKind \cup {"read", "save"}
  /\ q.kind = "read" => ReadDue(q)
  /\ q.kind \in Click => ClickRight(q)
  /\ q.kind = "toggle" /\ Answers(q) => ToggleRight(q)
  /\ q.kind = "step" /\ Answers(q) => StepRight(q)
  /\ q.kind \in BoardKind => AskedBoard(q)

OneClick == \A p, q \in sent : p.kind \in Click /\ q.kind \in Click /\ p.w.key = q.w.key => p = q

\* The form is of a task, as the page has it as long as that waits for an answer.
FormOpen == sheet # None /\ sheet.kind = "task" /\ sheet.task # None
FormTold(q) == sheet.task.id = q.w.id /\ OnPage(q.w.key) => Raw(sheet.task) = AskedRaw(q)
FormRight ==
  FormOpen => /\ CardRight(sheet.task, ledger.made)
              /\ \A q \in sent : q.kind = "toggle" /\ Answers(q) => FormTold(q)

IsListed(l) == l = [tasks |-> l.tasks, board |-> l.board]
ListedRight == IsListed(listed) /\ \A t \in listed.tasks : CardRight(t, ledger.made)

BoardOut == \E q \in sent : q.kind \in BoardKind
BoardsRight ==
  /\ BoardRight(boardFile) /\ boardFile = ledger.wanted
  /\ NoneSince /\ ~BoardOut => desk.board = boardFile

\* A request whose answer makes the page read again, or is what it read.
Owes(q) ==
  \/ q.kind = "read"
  \/ q.kind = "save" /\ q.o.reply \in {"ok", "stale"}
  \/ q.kind = "toggle" /\ q.o.reply = "stale"
  \/ q.kind \in {"step", "delete"} /\ ~Answers(q)
Due == \E q \in sent : Owes(q)

\* Unless more is to come, a card shows its task or waits for its tick.
TickOut(k) == \E q \in sent : q.kind = "toggle" /\ Answers(q) /\ q.w.key = k
TaskCard(c, t) == c.id = t.id /\ (ShowsTask(c, t) \/ TickOut(c.key))
TasksShown ==
  NoneSince /\ ~Due =>
    DOMAIN desk.tasks = DOMAIN work /\ \A i \in DOMAIN work : TaskCard(desk.tasks[i], work[i])

DeskInv ==
  /\ WorkRight /\ LedgerRight /\ OnDesk
  /\ \A q \in sent : RequestRight(q)
  /\ OneClick /\ FormRight /\ ListedRight /\ BoardsRight /\ TasksShown

\* The page's tasks and the note are what they were.
PageSame ==
  /\ desk'.tasks = desk.tasks /\ desk'.keys = desk.keys /\ desk'.at = desk.at /\ IsDesk(desk')
  /\ work' = work /\ ledger'.others = ledger.others /\ ledger'.made = ledger.made /\ LedgerRight'

LEMMA SameRequest ==
  ASSUME PageSame, NEW q
  PROVE  /\ ClickRight(q) => ClickRight(q)'
         /\ ToggleRight(q) => ToggleRight(q)'
         /\ StepRight(q) => StepRight(q)'
         /\ (FormTold(q) /\ sheet' = sheet => FormTold(q)')
         /\ boardFile' = boardFile => (ReadDue(q) => ReadDue(q)')
         /\ boardFile' = boardFile => (AskedBoard(q) => AskedBoard(q)')
  <1>1. ClickRight(q) => ClickRight(q)'
    BY DEF PageSame, ClickRight
  <1>2. ToggleRight(q) => ToggleRight(q)'
    BY DEF PageSame, ToggleRight, NoneSince, OnPage
  <1>3. StepRight(q) => StepRight(q)'
    BY DEF PageSame, StepRight, NoneSince
  <1>4. FormTold(q) /\ sheet' = sheet => FormTold(q)'
    BY DEF PageSame, FormTold, OnPage
  <1>5. boardFile' = boardFile => (ReadDue(q) => ReadDue(q)')
    <2>1. Tasks' = Tasks
      BY DEF PageSame, Tasks, TaskLine
    <2> QED BY <2>1 DEF PageSame, ReadDue
  <1>6. boardFile' = boardFile => (AskedBoard(q) => AskedBoard(q)')
    BY DEF PageSame, AskedBoard, NoneSince
  <1> QED BY <1>1, <1>2, <1>3, <1>4, <1>5, <1>6

LEMMA SameDesk ==
  ASSUME PageSame, OnDesk, WorkRight
  PROVE  OnDesk' /\ WorkRight' /\ LedgerRight' /\ (NoneSince' <=> NoneSince)
  BY DEF PageSame, OnDesk, WorkRight, NoneSince

\* The new request, next to what stays on the page and in the note.
LEMMA ReadNowRight ==
  ASSUME DeskInv
  PROVE  /\ ReadNow.kind = "read" /\ ReadDue(ReadNow) /\ RequestRight(ReadNow) /\ Owes(ReadNow)
  <1>1. PICK r : r = ReadNow
    OBVIOUS
  <1>2. r.kind = "read" /\ r.tasks = Tasks /\ r.board = boardFile /\ r.at = ledger.others
    BY <1>1 DEF ReadNow
  <1>3. ReadDue(r)
    BY <1>2, TasksAre DEF ReadDue, DeskInv, OnDesk, LedgerRight
  <1>4. RequestRight(r) /\ Owes(r)
    BY <1>2, <1>3 DEF RequestRight, Owes, Click, BoardKind
  <1> QED BY <1>1, <1>2, <1>3, <1>4

LEMMA DeskIs ==
  ASSUME NEW d, IsDesk(d)
  PROVE  \E t, k, b, a, g, x : d = [tasks |-> t, keys |-> k, board |-> b, at |-> a, goal |-> g, done |-> x]
  BY Zenon DEF IsDesk

\* A step that touches neither what is shown of tasks and board nor what is stored.
LEMMA QuietDesk ==
  ASSUME DeskInv, IsDesk(desk'), desk'.tasks = desk.tasks, desk'.keys = desk.keys, desk'.at = desk.at,
         desk'.board = desk.board, UNCHANGED <<work, boardFile, sent, ledger>>, FormRight', ListedRight'
  PROVE  DeskInv'
  <1>1. PageSame
    BY DEF PageSame, DeskInv, LedgerRight
  <1>2. OnDesk' /\ WorkRight' /\ LedgerRight' /\ (NoneSince' <=> NoneSince)
    BY <1>1, SameDesk DEF DeskInv
  <1>3. \A q \in sent' : RequestRight(q)'
    BY <1>1, SameRequest DEF DeskInv, RequestRight
  <1>4. OneClick'
    BY DEF DeskInv, OneClick
  <1>5. BoardsRight'
    BY <1>2 DEF DeskInv, BoardsRight, BoardOut
  <1>6. TasksShown'
    BY <1>2 DEF DeskInv, TasksShown, Due, TaskCard, TickOut
  <1> QED BY <1>2, <1>3, <1>4, <1>5, <1>6 DEF DeskInv

\* Somebody else writes: the page is behind.
LEMMA OthersStep ==
  ASSUME DeskInv, WorkRight', LedgerRight', Grows(work, ledger.made, work', ledger'.made),
         ledger'.others > ledger.others, BoardRight(boardFile'), boardFile' = ledger'.wanted,
         UNCHANGED <<desk, sheet, sent>>, IsListed(listed'), listed'.tasks = listed.tasks
  PROVE  DeskInv'
  <1>1. /\ ledger.others \in Nat /\ ledger'.others \in Nat /\ desk.at \in Nat /\ desk.at < ledger'.others
        /\ ledger.made \in Nat /\ ledger'.made \in Nat /\ ledger.made <= ledger'.made
    BY DEF DeskInv, LedgerRight, OnDesk, Grows
  <1>2. ~NoneSince'
    BY <1>1 DEF NoneSince
  <1>3. OnDesk'
    BY <1>1, CardsStay DEF DeskInv, OnDesk
  <1>4. ASSUME NEW q \in sent PROVE RequestRight(q)'
    <2>1. RequestRight(q)
      BY DEF DeskInv
    <2>2. ReadDue(q) => ReadDue(q)'
      BY <1>1, CardsStay DEF ReadDue
    <2>3. ClickRight(q) => ClickRight(q)'
      BY DEF ClickRight
    <2>4. ToggleRight(q) => ToggleRight(q)'
      <3> SUFFICES ASSUME ToggleRight(q) PROVE ToggleRight(q)'
        OBVIOUS
      <3>1. TaskRight(q.o.card, ledger'.made)
        BY <1>1 DEF ToggleRight, TaskRight
      <3>2. NotNewer(q.w.id, q.w.box.text, work')
        <4> SUFFICES ASSUME NEW j \in DOMAIN work', work'[j].id = q.w.id PROVE q.w.box.text[2] <= work'[j].title[2]
          BY DEF NotNewer
        <4>1. q.w.id \in 1 .. ledger.made /\ q.w.box.text[2] \in Nat
          BY TitleIs DEF ToggleRight, TaskRight
        <4>2. PICK k \in DOMAIN work : /\ work[k].id = work'[j].id
                                       /\ work[k].title[2] \in Nat /\ work'[j].title[2] \in Nat
                                       /\ work[k].title[2] <= work'[j].title[2]
          BY <4>1 DEF Grows
        <4>3. q.w.box.text[2] <= work[k].title[2]
          BY <4>2 DEF ToggleRight, NotNewer
        <4> QED BY <4>1, <4>2, <4>3
      <3> QED BY <1>2, <3>1, <3>2 DEF ToggleRight
    <2>5. StepRight(q)' /\ AskedBoard(q)'
      BY <1>2 DEF StepRight, AskedBoard
    <2> QED BY <2>1, <2>2, <2>3, <2>4, <2>5 DEF RequestRight
  <1>5. OneClick'
    BY DEF DeskInv, OneClick
  <1>6. FormRight'
    BY <1>1, CardStays DEF DeskInv, FormRight, FormOpen, FormTold, OnPage
  <1>7. ListedRight'
    BY <1>1, CardStays DEF DeskInv, ListedRight
  <1>8. BoardsRight' /\ TasksShown'
    BY <1>2 DEF BoardsRight, TasksShown
  <1> QED BY <1>3, <1>4, <1>5, <1>6, <1>7, <1>8 DEF DeskInv

\* The board file is saved by the page.
LEMMA BoardStep ==
  ASSUME DeskInv, NotReading, ~BoardOut, UNCHANGED <<work, desk, sheet, listed>>, LedgerRight',
         ledger'.others = ledger.others, ledger'.made = ledger.made,
         BoardRight(boardFile'), boardFile' = ledger'.wanted,
         NEW q, q.kind \in BoardKind, q.board = boardFile', sent' = sent \cup {q}
  PROVE  DeskInv'
  <1>1. PageSame
    BY DEF PageSame, DeskInv, OnDesk
  <1>2. OnDesk' /\ WorkRight' /\ LedgerRight' /\ (NoneSince' <=> NoneSince)
    BY <1>1, SameDesk DEF DeskInv
  <1>3. ASSUME NEW p \in sent PROVE RequestRight(p)'
    <2>1. p.kind # "read" /\ p.kind \notin BoardKind
      BY DEF NotReading, BoardOut
    <2> QED BY <1>1, <2>1, SameRequest DEF DeskInv, RequestRight
  <1>4. RequestRight(q)'
    BY DEF RequestRight, BoardKind, Click, AskedBoard
  <1>5. OneClick'
    BY DEF DeskInv, OneClick, Click, BoardKind
  <1>6. FormRight'
    <2>1. \A p \in sent' : p.kind = "toggle" => p \in sent
      BY DEF BoardKind
    <2>2. \A p : FormTold(p) => FormTold(p)'
      BY <1>1, SameRequest
    <2> QED BY <1>1, <2>1, <2>2 DEF DeskInv, FormRight, FormOpen, PageSame
  <1>7. ListedRight'
    BY DEF DeskInv, ListedRight
  <1>8. BoardsRight'
    BY DEF BoardsRight, BoardOut
  <1>9. TasksShown'
    <2> SUFFICES ASSUME NoneSince, ~Due' PROVE TasksShown'
      BY <1>2 DEF TasksShown
    <2>1. ~Due
      BY DEF Due
    <2>2. \A k : TickOut(k) => TickOut(k)'
      BY DEF TickOut
    <2>3. DOMAIN desk'.tasks = DOMAIN work' /\ \A i \in DOMAIN work' : TaskCard(desk.tasks[i], work[i])
      BY <2>1 DEF DeskInv, TasksShown
    <2> QED BY <2>2, <2>3 DEF TasksShown, TaskCard
  <1> QED BY <1>2, <1>3, <1>4, <1>5, <1>6, <1>7, <1>8, <1>9 DEF DeskInv

-----------------------------------------------------------------------------
(* Steps that only look.                                                   *)

LEMMA ClosedForm ==
  ASSUME DeskInv, IsDesk(desk'), desk'.tasks = desk.tasks, desk'.keys = desk.keys, desk'.at = desk.at,
         desk'.board = desk.board, UNCHANGED <<work, boardFile, sent, ledger, listed>>, sheet' = sheet \/ ~FormOpen'
  PROVE  DeskInv'
  <1>1. PageSame
    BY DEF PageSame, DeskInv, LedgerRight
  <1>2. FormRight'
    <2>1. CASE sheet' = sheet
      <3>1. \A q : FormTold(q) => FormTold(q)'
        BY <1>1, <2>1, SameRequest
      <3> QED BY <2>1, <3>1 DEF DeskInv, FormRight, FormOpen
    <2>2. CASE ~FormOpen'
      BY <2>2 DEF FormRight
    <2> QED BY <2>1, <2>2
  <1>3. ListedRight'
    BY DEF DeskInv, ListedRight
  <1> QED BY <1>2, <1>3, QuietDesk

LEMMA FormOpens ==
  ASSUME DeskInv, NEW t, t = None \/ \E i \in DOMAIN desk.tasks : t = desk.tasks[i], OpenForm(t)
  PROVE  DeskInv'
  <1>1. PICK s : s = [kind |-> "task", task |-> t, cols |-> 0]
    OBVIOUS
  <1>2. sheet' = s /\ UNCHANGED <<work, boardFile, desk, sent, listed, ledger>> /\ s.task = t /\ s.kind = "task"
    BY <1>1 DEF OpenForm
  <1>3. CASE t = None
    BY <1>2, <1>3, ClosedForm DEF FormOpen, DeskInv, OnDesk
  <1>4. CASE \E i \in DOMAIN desk.tasks : t = desk.tasks[i]
    <2>1. PICK i \in DOMAIN desk.tasks : t = desk.tasks[i]
      BY <1>4
    <2>2. CardRight(t, ledger.made)
      BY <2>1 DEF DeskInv, OnDesk, CardsRight
    <2>3. ASSUME NEW q \in sent, q.kind = "toggle", Answers(q), t.id = q.w.id, OnPage(q.w.key) PROVE Raw(t) = AskedRaw(q)
      <3>1. ClickRight(q) /\ ToggleRight(q)
        BY <2>3 DEF DeskInv, RequestRight, Click
      <3>2. PICK j \in DOMAIN desk.tasks : desk.tasks[j].key = q.w.key
        BY <2>3 DEF OnPage
      <3>3. desk.tasks[j].id = t.id /\ Raw(desk.tasks[j]) = AskedRaw(q)
        BY <2>3, <3>1, <3>2 DEF ClickRight, ToggleRight
      <3>4. j = i
        BY <2>1, <3>3 DEF DeskInv, OnDesk, CardsRight
      <3> QED BY <2>1, <3>3, <3>4
    <2>4. FormRight'
      BY <1>2, <2>2, <2>3 DEF FormRight, FormTold, OnPage
    <2> QED BY <1>2, <2>4, QuietDesk DEF DeskInv, OnDesk, ListedRight
  <1> QED BY <1>3, <1>4

LEMMA ListedIs ==
  ASSUME NEW l, IsListed(l), NEW x
  PROVE  /\ IsListed([l EXCEPT !.tasks = x]) /\ [l EXCEPT !.tasks = x].tasks = x
         /\ IsListed([l EXCEPT !.board = x]) /\ [l EXCEPT !.board = x].tasks = l.tasks
  <1>1. PICK t, b : l = [tasks |-> t, board |-> b]
    BY Zenon DEF IsListed
  <1>2. PICK m : m = [l EXCEPT !.tasks = x]
    OBVIOUS
  <1>3. PICK n : n = [l EXCEPT !.board = x]
    OBVIOUS
  <1>4. m = [tasks |-> x, board |-> b] /\ n = [tasks |-> t, board |-> x]
    BY <1>1, <1>2, <1>3
  <1>5. IsListed(m) /\ m.tasks = x /\ IsListed(n) /\ n.tasks = l.tasks
    BY <1>1, <1>4 DEF IsListed
  <1> QED BY <1>2, <1>3, <1>5

LEMMA AgentLooks ==
  ASSUME DeskInv, UNCHANGED <<work, boardFile, desk, sheet, sent, ledger>>, IsListed(listed'),
         listed'.tasks \subseteq listed.tasks \cup AllTasks
  PROVE  DeskInv'
  <1>1. \A t \in AllTasks : CardRight(t, ledger.made)
    BY TasksAre DEF AllTasks, DeskInv, CardsRight
  <1>2. ListedRight'
    BY <1>1 DEF DeskInv, ListedRight
  <1>3. FormRight'
    BY DEF DeskInv, FormRight, FormOpen, FormTold, OnPage
  <1> QED BY <1>2, <1>3, QuietDesk DEF DeskInv, OnDesk

LEMMA LookSteps ==
  ASSUME DeskInv,
         \/ CloseForm \/ OpenColumns \/ ListTasks \/ FetchBoard \/ FetchAgain
         \/ \E goal, done : Look(goal, done) \/ SearchTasks(goal, done)
  PROVE  DeskInv'
  <1>0. IsDesk(desk) /\ IsListed(listed)
    BY DEF DeskInv, OnDesk, ListedRight
  <1>1. CASE CloseForm
    BY <1>0, <1>1, ClosedForm DEF CloseForm, FormOpen
  <1>2. CASE OpenColumns
    <2>1. PICK s : s = [kind |-> "columns", task |-> None, cols |-> desk.board.cols]
      OBVIOUS
    <2>2. sheet' = s /\ s.task = None
      BY <1>2, <2>1 DEF OpenColumns
    <2> QED BY <1>0, <1>2, <2>2, ClosedForm DEF OpenColumns, FormOpen
  <1>3. CASE ListTasks
    <2>1. listed'.tasks = AllTasks /\ IsListed(listed')
      BY <1>0, <1>3, ListedIs DEF ListTasks
    <2> QED BY <1>3, <2>1, AgentLooks DEF ListTasks
  <1>4. CASE FetchBoard
    <2>1. listed'.tasks = listed.tasks /\ IsListed(listed')
      BY <1>0, <1>4, ListedIs DEF FetchBoard
    <2> QED BY <1>4, <2>1, AgentLooks DEF FetchBoard
  <1>5. CASE FetchAgain
    <2>1. listed'.tasks = listed.tasks /\ IsListed(listed')
      BY <1>0, <1>5, ListedIs DEF FetchAgain
    <2> QED BY <1>5, <2>1, AgentLooks DEF FetchAgain
  <1>6. ASSUME NEW goal, NEW done, SearchTasks(goal, done) PROVE DeskInv'
    <2>1. PICK found : found = {t \in AllTasks : t.goal = goal /\ t.box.ticked = done}
      OBVIOUS
    <2>2. listed' = [listed EXCEPT !.tasks = found] /\ UNCHANGED <<work, boardFile, desk, sheet, sent, ledger>>
      BY <1>6, <2>1 DEF SearchTasks
    <2>3. listed'.tasks = found /\ IsListed(listed')
      BY <1>0, <2>2, ListedIs
    <2> QED BY <2>1, <2>2, <2>3, AgentLooks
  <1>7. ASSUME NEW goal, NEW done, Look(goal, done) PROVE DeskInv'
    <2>1. PICK t, k, b, a, g, x : desk = [tasks |-> t, keys |-> k, board |-> b, at |-> a, goal |-> g, done |-> x]
      BY <1>0, DeskIs
    <2>2. PICK d : d = desk'
      OBVIOUS
    <2>3. d = [tasks |-> t, keys |-> k, board |-> b, at |-> a, goal |-> goal, done |-> done]
      BY <1>7, <2>1, <2>2 DEF Look
    <2>4. /\ IsDesk(d) /\ d.tasks = t /\ d.keys = k /\ d.at = a /\ d.board = b
          /\ desk.tasks = t /\ desk.keys = k /\ desk.at = a /\ desk.board = b
      BY <2>1, <2>3 DEF IsDesk
    <2> QED BY <1>7, <2>2, <2>4, ClosedForm DEF Look
  <1> QED BY <1>1, <1>2, <1>3, <1>4, <1>5, <1>6, <1>7

LEMMA PollStep ==
  ASSUME DeskInv, ~Hurried, PollTasks
  PROVE  DeskInv'
  <1>1. PICK r : r = ReadNow
    OBVIOUS
  <1>2. sent = {} /\ sent' = {r} /\ UNCHANGED <<work, boardFile, desk, sheet, listed, ledger>>
    BY <1>1 DEF PollTasks, SendOff
  <1>3. PageSame
    BY <1>2 DEF PageSame, DeskInv, LedgerRight, OnDesk
  <1>4. OnDesk' /\ WorkRight' /\ LedgerRight' /\ (NoneSince' <=> NoneSince)
    BY <1>3, SameDesk DEF DeskInv
  <1>5. r.kind = "read" /\ ReadDue(r) /\ Owes(r)
    BY <1>1, ReadNowRight
  <1>6. RequestRight(r)'
    BY <1>2, <1>3, <1>5, SameRequest DEF RequestRight, Click, BoardKind
  <1>7. OneClick' /\ FormRight' /\ ListedRight'
    BY <1>2, <1>5 DEF OneClick, FormRight, FormOpen, FormTold, Click, DeskInv, ListedRight
  <1>8. BoardsRight' /\ TasksShown'
    BY <1>2, <1>4, <1>5 DEF DeskInv, BoardsRight, BoardOut, TasksShown, Due, BoardKind
  <1> QED BY <1>2, <1>4, <1>6, <1>7, <1>8 DEF DeskInv

-----------------------------------------------------------------------------
(* The agent's writes.                                                     *)

LEMMA SpecIs ==
  ASSUME NEW upto, NEW c, CardRight(c, upto), NEW spec \in Specs(c)
  PROVE  /\ IsTask(spec) /\ spec.title = Retitled(c.box.text) /\ spec.done \in BOOLEAN
         /\ StepsOf(c.id, spec.steps)
  <1>1. PICK done \in BOOLEAN, all \in BOOLEAN :
          spec = Task(c.id, Retitled(c.box.text), done, c.goal,
                      [k \in DOMAIN c.steps |-> [text |-> c.steps[k].box.text, ticked |-> all \/ c.steps[k].shows]])
    BY DEF Specs
  <1>2. PICK s : s = [k \in DOMAIN c.steps |-> [text |-> c.steps[k].box.text, ticked |-> all \/ c.steps[k].shows]]
    OBVIOUS
  <1>3. /\ spec = [id |-> c.id, title |-> Retitled(c.box.text), done |-> done, goal |-> c.goal, steps |-> s]
    BY <1>1, <1>2 DEF Task
  <1>4. ASSUME NEW k \in DOMAIN s PROVE IsStep(s[k]) /\ s[k].text = StepText(c.id) /\ s[k].ticked \in BOOLEAN
    <2>1. PICK b : b = (all \/ c.steps[k].shows)
      OBVIOUS
    <2>2. b \in BOOLEAN
      BY <2>1
    <2>3. s[k] = [text |-> c.steps[k].box.text, ticked |-> b]
      BY <1>2, <2>1
    <2>4. c.steps[k].box.text = StepText(c.id)
      BY <1>2 DEF CardRight, StepCards
    <2> QED BY <2>2, <2>3, <2>4 DEF IsStep
  <1>5. StepsOf(c.id, s)
    BY <1>2, <1>4 DEF StepsOf, CardRight, StepCards
  <1> QED BY <1>3, <1>5 DEF IsTask

LEMMA WriteIs ==
  ASSUME NEW kind, NEW c, NEW box, NEW v, NEW w, w = Write(kind, c, box, v)
  PROVE  w.kind = kind /\ w.id = c.id /\ w.key = c.key /\ w.box = box /\ w.value = v
  BY DEF Write

\* What is made of a card, or of its step, is a write of it.
LEMMA CardWrites ==
  ASSUME NEW upto, NEW c, CardRight(c, upto)
  PROVE  /\ \A b \in BOOLEAN : WriteRight(Write("check", c, c.box, b)) /\ WriteRight(Write("move", c, c.box, b))
         /\ \A k \in DOMAIN c.steps, b \in BOOLEAN : WriteRight(Write("check", c, c.steps[k].box, b))
         /\ \A v : WriteRight(Write("field", c, c.box, v)) /\ WriteRight(Write("delete", c, c.box, v))
         /\ \A spec \in Specs(c) : WriteRight(Write("replace", c, c.box, spec))
  <1>1. IsBox(c.box) /\ TitleOf(c.id, c.box.text)
    BY DEF CardRight
  <1>2. ASSUME NEW b \in BOOLEAN
        PROVE  WriteRight(Write("check", c, c.box, b)) /\ WriteRight(Write("move", c, c.box, b))
    BY <1>1, WriteIs DEF WriteRight
  <1>3. ASSUME NEW k \in DOMAIN c.steps, NEW b \in BOOLEAN PROVE WriteRight(Write("check", c, c.steps[k].box, b))
    <2>1. IsBox(c.steps[k].box) /\ c.steps[k].box.text = StepText(c.id)
      BY DEF CardRight, StepCards
    <2>2. PICK x : x = c.steps[k].box
      OBVIOUS
    <2> QED BY <2>1, <2>2, WriteIs DEF WriteRight
  <1>4. ASSUME NEW v PROVE WriteRight(Write("field", c, c.box, v)) /\ WriteRight(Write("delete", c, c.box, v))
    BY <1>1, WriteIs DEF WriteRight
  <1>5. ASSUME NEW spec \in Specs(c) PROVE WriteRight(Write("replace", c, c.box, spec))
    <2>1. PICK w : w = Write("replace", c, c.box, spec)
      OBVIOUS
    <2>2. w.kind = "replace" /\ w.id = c.id /\ w.box = c.box /\ w.value = spec
      BY <2>1, WriteIs
    <2>3. IsSpec(w)
      BY <2>2, SpecIs DEF IsSpec
    <2> QED BY <1>1, <2>1, <2>2, <2>3 DEF WriteRight
  <1> QED BY <1>2, <1>3, <1>4, <1>5

LEMMA AgentWrite ==
  ASSUME DeskInv, NEW w, WriteRight(w), AgentWrites(w)
  PROVE  DeskInv'
  <1>1. PICK o : o = Outcome(w)
    OBVIOUS
  <1>2. TaskTurned(w, o, 1) /\ LedgerRight'
    BY <1>1, MutatedIs DEF AgentWrites, DeskInv
  <1>3. UNCHANGED <<boardFile, desk, sheet, sent, listed>>
    BY DEF AgentWrites
  <1>4. IsListed(listed)
    BY DEF DeskInv, ListedRight
  <1>5. CASE work' = work /\ ledger' = ledger
    BY <1>3, <1>4, <1>5, AgentLooks
  <1>6. CASE IsTold(ledger', ledger, ledger.others + 1)
    <2>1. WorkRight' /\ Grows(work, ledger.made, work', ledger'.made)
      BY <1>2, TurnedWork DEF DeskInv
    <2>2. PICK l, m, n : l = ledger /\ m = ledger' /\ n = ledger.others + 1
      OBVIOUS
    <2>3. IsLedger(l) /\ IsTold(m, l, n)
      BY <1>6, <2>2 DEF DeskInv, LedgerRight
    <2>4. m.others = n /\ m.wanted = l.wanted
      BY <2>3, LedgerTold
    <2>5. ledger'.others > ledger.others /\ ledger'.wanted = ledger.wanted
      BY <2>2, <2>4 DEF DeskInv, LedgerRight
    <2>6. BoardRight(boardFile') /\ boardFile' = ledger'.wanted
      BY <1>3, <2>5 DEF DeskInv, BoardsRight
    <2> QED BY <1>2, <1>3, <1>4, <2>1, <2>5, <2>6, OthersStep
  <1> QED BY <1>2, <1>5, <1>6 DEF TaskTurned

LEMMA AgentSteps ==
  ASSUME DeskInv, NEW t \in listed.tasks,
         \/ ToggleTask(t) \/ EditTask(t) \/ DeleteListed(t)
         \/ \E k \in DOMAIN t.steps : ToggleTaskStep(t, k)
         \/ \E done \in BOOLEAN : MoveTask(t, done)
         \/ \E goal : SetTaskField(t, goal)
  PROVE  DeskInv'
  <1>1. CardRight(t, ledger.made)
    BY DEF DeskInv, ListedRight
  <1>2. CASE ToggleTask(t)
    <2>1. PICK b \in BOOLEAN : b = ~t.box.ticked
      OBVIOUS
    <2> QED BY <1>1, <1>2, <2>1, CardWrites, AgentWrite DEF ToggleTask
  <1>3. CASE EditTask(t)
    BY <1>1, <1>3, CardWrites, AgentWrite DEF EditTask
  <1>4. CASE DeleteListed(t)
    BY <1>1, <1>4, CardWrites, AgentWrite DEF DeleteListed
  <1>5. ASSUME NEW k \in DOMAIN t.steps, ToggleTaskStep(t, k) PROVE DeskInv'
    <2>1. PICK b \in BOOLEAN : b = ~t.steps[k].box.ticked
      OBVIOUS
    <2>2. AgentWrites(Write("check", t, t.steps[k].box, b))
      BY <1>5, <2>1 DEF ToggleTaskStep
    <2> QED BY <1>1, <2>2, CardWrites, AgentWrite
  <1>6. ASSUME NEW done \in BOOLEAN, MoveTask(t, done) PROVE DeskInv'
    BY <1>1, <1>6, CardWrites, AgentWrite DEF MoveTask
  <1>7. ASSUME NEW goal, SetTaskField(t, goal) PROVE DeskInv'
    BY <1>1, <1>7, CardWrites, AgentWrite DEF SetTaskField
  <1> QED BY <1>2, <1>3, <1>4, <1>5, <1>6, <1>7

LEMMA CreateStep ==
  ASSUME DeskInv, CreateTask
  PROVE  DeskInv'
  <1>1. PICK done \in BOOLEAN : TaskCreated(done, 1)
    BY DEF CreateTask
  <1>2. /\ WorkRight' /\ LedgerRight' /\ Grows(work, ledger.made, work', ledger'.made)
        /\ ledger'.others = ledger.others + 1 /\ ledger'.wanted = ledger.wanted
    BY <1>1, CreatedWork DEF DeskInv
  <1>3. UNCHANGED <<boardFile, desk, sheet, sent, listed>>
    BY DEF CreateTask
  <1>4. BoardRight(boardFile') /\ boardFile' = ledger'.wanted /\ ledger'.others > ledger.others /\ IsListed(listed')
    BY <1>2, <1>3 DEF DeskInv, BoardsRight, LedgerRight, ListedRight
  <1> QED BY <1>2, <1>3, <1>4, OthersStep

-----------------------------------------------------------------------------
(* Boards that are saved.                                                  *)

LEMMA BoardMade ==
  ASSUME NEW b, BoardRight(b), NEW miles, MilesRight(miles), NEW x
  PROVE  /\ [b EXCEPT !.miles = miles] = [cols |-> b.cols, miles |-> miles] /\ [b EXCEPT !.cols = x] = [cols |-> x, miles |-> b.miles]
         /\ BoardRight([cols |-> x, miles |-> miles])
  <1>1. PICK c, m : b = [cols |-> c, miles |-> m]
    BY Zenon DEF BoardRight, IsBoard
  <1>2. [b EXCEPT !.miles = miles] = [cols |-> b.cols, miles |-> miles] /\ [b EXCEPT !.cols = x] = [cols |-> x, miles |-> b.miles]
    BY <1>1
  <1>3. PICK d : d = [cols |-> x, miles |-> miles]
    OBVIOUS
  <1>4. BoardRight(d)
    BY <1>3 DEF BoardRight, IsBoard
  <1> QED BY <1>2, <1>3, <1>4

\* A board with right milestones is what is stored.
LEMMA KeptIs ==
  ASSUME NEW x, NEW miles, MilesRight(miles)
  PROVE  Kept([cols |-> x, miles |-> miles]) = [cols |-> x, miles |-> miles]
  <1>1. PICK b : b = [cols |-> x, miles |-> miles]
    OBVIOUS
  <1>2. "miles" \in DOMAIN b /\ b.miles = miles
    BY <1>1
  <1>3. BoardFrom(b) = b
    BY <1>2 DEF BoardFrom
  <1>4. BoardValid(b)
    BY <1>2 DEF BoardValid, MilesRight
  <1> QED BY <1>1, <1>3, <1>4 DEF Kept

IsWanted(m, l, n, b) == m = [l EXCEPT !.others = n, !.wanted = b]

LEMMA LedgerWanted ==
  ASSUME NEW l, IsLedger(l), NEW m, NEW n, NEW b, IsWanted(m, l, n, b)
  PROVE  IsLedger(m) /\ m.others = n /\ m.made = l.made /\ m.wanted = b
  <1>1. PICK a, w, c : /\ l = [others |-> a, wanted |-> w, made |-> c, strayed |-> FALSE, rash |-> FALSE]
                       /\ a = l.others /\ w = l.wanted /\ c = l.made
    BY LedgerIs
  <1>2. m = [others |-> n, wanted |-> b, made |-> c, strayed |-> FALSE, rash |-> FALSE]
    BY <1>1 DEF IsWanted
  <1> QED BY <1>1, <1>2 DEF IsLedger

LEMMA WantedPart ==
  ASSUME NEW l, IsLedger(l), NEW m, NEW x, NEW b,
         \/ m = [l EXCEPT !.wanted.cols = x] /\ [l.wanted EXCEPT !.cols = x] = b
         \/ m = [l EXCEPT !.wanted.miles = x] /\ [l.wanted EXCEPT !.miles = x] = b
  PROVE  IsWanted(m, l, l.others, b)
  <1>1. PICK a, w, c : /\ l = [others |-> a, wanted |-> w, made |-> c, strayed |-> FALSE, rash |-> FALSE]
                       /\ a = l.others /\ w = l.wanted /\ c = l.made
    BY LedgerIs
  <1>2. l = [others |-> a, wanted |-> w, made |-> c, strayed |-> FALSE, rash |-> FALSE]
    BY <1>1
  <1>4. m = [others |-> a, wanted |-> b, made |-> c, strayed |-> FALSE, rash |-> FALSE]
    <2>1. CASE m = [l EXCEPT !.wanted.cols = x] /\ [l.wanted EXCEPT !.cols = x] = b
      <3>1. [w EXCEPT !.cols = x] = b
        BY <1>1, <2>1
      <3> QED BY <1>2, <2>1, <3>1
    <2>2. CASE m = [l EXCEPT !.wanted.miles = x] /\ [l.wanted EXCEPT !.miles = x] = b
      <3>1. [w EXCEPT !.miles = x] = b
        BY <1>1, <2>2
      <3> QED BY <1>2, <2>2, <3>1
    <2> QED BY <2>1, <2>2
  <1>5. PICK e : IsWanted(e, l, a, b)
    BY DEF IsWanted
  <1>6. e = [others |-> a, wanted |-> b, made |-> c, strayed |-> FALSE, rash |-> FALSE]
    BY <1>2, <1>5 DEF IsWanted
  <1> QED BY <1>1, <1>4, <1>5, <1>6

LEMMA UpdateStep ==
  ASSUME DeskInv, ~Hurried, UpdateMilestones
  PROVE  DeskInv'
  <1>1. PICK miles \in Revised(listed.board.miles) :
          /\ boardFile' = Kept([listed.board EXCEPT !.miles = miles])
          /\ ledger' = [ledger EXCEPT !.others = @ + 1, !.wanted.miles = miles]
    BY DEF UpdateMilestones
  <1>2. PICK b : b = boardFile
    OBVIOUS
  <1>3. listed.board = b /\ BoardRight(b) /\ ledger.wanted = b
    BY <1>2 DEF UpdateMilestones, StillStored, DeskInv, BoardsRight
  <1>4. MilesRight(miles)
    BY <1>1, <1>3, RevisedRight DEF BoardRight
  <1>5. PICK d : d = [cols |-> b.cols, miles |-> miles]
    OBVIOUS
  <1>6. [b EXCEPT !.miles = miles] = d /\ BoardRight(d)
    BY <1>3, <1>4, <1>5, BoardMade
  <1>7. boardFile' = d
    BY <1>1, <1>3, <1>4, <1>5, <1>6, KeptIs
  <1>8. PICK l, m, n : l = ledger /\ m = ledger' /\ n = ledger.others + 1
    OBVIOUS
  <1>9. IsWanted(m, l, n, d)
    BY <1>1, <1>3, <1>6, <1>8 DEF IsWanted
  <1>10. IsLedger(m) /\ m.others = n /\ m.made = l.made /\ m.wanted = d
    BY <1>8, <1>9, LedgerWanted DEF DeskInv, LedgerRight
  <1>11. LedgerRight' /\ ledger'.others > ledger.others /\ ledger'.made = ledger.made /\ ledger'.wanted = d
    BY <1>8, <1>10 DEF DeskInv, LedgerRight
  <1>12. UNCHANGED <<work, desk, sheet, sent>> /\ listed' = [listed EXCEPT !.board = None]
    BY DEF UpdateMilestones
  <1>13. WorkRight' /\ Grows(work, ledger.made, work', ledger'.made)
    BY <1>11, <1>12, SameGrows DEF WorkRight, DeskInv
  <1>14. IsListed(listed') /\ listed'.tasks = listed.tasks
    BY <1>12, ListedIs DEF DeskInv, ListedRight
  <1> QED BY <1>6, <1>7, <1>11, <1>12, <1>13, <1>14, OthersStep

LEMMA ColumnsStep ==
  ASSUME DeskInv, ~Hurried, SaveColumns
  PROVE  DeskInv'
  <1>1. PICK f : f = boardFile
    OBVIOUS
  <1>2. BoardRight(f) /\ ledger.wanted = f
    BY <1>1 DEF DeskInv, BoardsRight
  <1>3. PICK x : x = sheet.cols + 1
    OBVIOUS
  <1>4. PICK b : b = ColumnsSent(x)
    OBVIOUS
  <1>5. b.cols = x /\ "miles" \notin DOMAIN b
    BY <1>4 DEF ColumnsSent
  <1>6. PICK d : d = [cols |-> x, miles |-> f.miles]
    OBVIOUS
  <1>7. BoardFrom(b) = d
    BY <1>1, <1>5, <1>6 DEF BoardFrom
  <1>8. BoardRight(d) /\ d.miles = f.miles /\ [f EXCEPT !.cols = x] = d
    BY <1>2, <1>6, BoardMade DEF BoardRight
  <1>9. Kept(b) = d
    BY <1>7, <1>8 DEF Kept, BoardValid, BoardRight, MilesRight
  <1>10. boardFile' = d /\ ledger' = [ledger EXCEPT !.wanted.cols = x]
    BY <1>3, <1>4, <1>5, <1>9 DEF SaveColumns
  <1>11. PICK l, m, n : l = ledger /\ m = ledger' /\ n = ledger.others
    OBVIOUS
  <1>12. IsLedger(l) /\ l.wanted = f
    BY <1>2, <1>11 DEF DeskInv, LedgerRight
  <1>13. IsWanted(m, l, n, d)
    <2>1. m = [l EXCEPT !.wanted.cols = x]
      BY <1>10, <1>11
    <2>2. [l.wanted EXCEPT !.cols = x] = d
      BY <1>8, <1>12
    <2> QED BY <1>11, <1>12, <2>1, <2>2, WantedPart
  <1>14. IsLedger(m) /\ m.others = n /\ m.made = l.made /\ m.wanted = d
    BY <1>12, <1>13, LedgerWanted
  <1>15. LedgerRight' /\ ledger'.others = ledger.others /\ ledger'.made = ledger.made /\ ledger'.wanted = d
    BY <1>11, <1>14 DEF DeskInv, LedgerRight
  <1>16. PICK q : q = [kind |-> "columns", board |-> d]
    OBVIOUS
  <1>17. q.kind \in BoardKind /\ q.board = d /\ sent' = sent \cup {q}
    BY <1>3, <1>4, <1>9, <1>16 DEF BoardKind, SaveColumns, SendOff
  <1>18. NotReading /\ ~BoardOut /\ UNCHANGED <<work, desk, sheet, listed>>
    BY DEF SaveColumns, Ready, BoardOut, BoardKind
  <1> QED BY <1>8, <1>10, <1>15, <1>17, <1>18, BoardStep

LEMMA MilestonesStep ==
  ASSUME DeskInv, ~Hurried, SaveMilestones
  PROVE  DeskInv'
  <1>1. NotReading /\ ~BoardOut /\ UNCHANGED <<work, desk, sheet, listed>>
    BY DEF SaveMilestones, MayAct, Ready, BoardOut, BoardKind
  <1>2. PICK miles \in Revised(desk.board.miles) :
          /\ desk.at = ledger.others
          /\ boardFile' = Kept([desk.board EXCEPT !.miles = miles])
          /\ ledger' = [ledger EXCEPT !.wanted.miles = miles]
          /\ SendOff([kind |-> "miles", board |-> Kept([desk.board EXCEPT !.miles = miles])])
    BY DEF SaveMilestones
  <1>3. PICK f : f = boardFile
    OBVIOUS
  <1>4. BoardRight(f) /\ ledger.wanted = f /\ desk.board = f
    BY <1>1, <1>2, <1>3 DEF DeskInv, BoardsRight, NoneSince
  <1>5. MilesRight(miles)
    BY <1>2, <1>4, RevisedRight DEF BoardRight
  <1>6. PICK d : d = [cols |-> f.cols, miles |-> miles]
    OBVIOUS
  <1>7. [f EXCEPT !.miles = miles] = d /\ BoardRight(d)
    BY <1>4, <1>5, <1>6, BoardMade
  <1>8. Kept(d) = d
    BY <1>5, <1>6, KeptIs
  <1>9. boardFile' = d
    BY <1>2, <1>4, <1>7, <1>8
  <1>11. PICK l, m, n : l = ledger /\ m = ledger' /\ n = ledger.others
    OBVIOUS
  <1>12. IsLedger(l) /\ l.wanted = f
    BY <1>4, <1>11 DEF DeskInv, LedgerRight
  <1>13. IsWanted(m, l, n, d)
    <2>1. m = [l EXCEPT !.wanted.miles = miles]
      BY <1>2, <1>11
    <2>2. [l.wanted EXCEPT !.miles = miles] = d
      BY <1>7, <1>12
    <2> QED BY <1>11, <1>12, <2>1, <2>2, WantedPart
  <1>14. IsLedger(m) /\ m.others = n /\ m.made = l.made /\ m.wanted = d
    BY <1>12, <1>13, LedgerWanted
  <1>15. LedgerRight' /\ ledger'.others = ledger.others /\ ledger'.made = ledger.made /\ ledger'.wanted = d
    BY <1>11, <1>14 DEF DeskInv, LedgerRight
  <1>16. PICK q : q = [kind |-> "miles", board |-> d]
    OBVIOUS
  <1>17. q.kind \in BoardKind /\ q.board = d /\ sent' = sent \cup {q}
    BY <1>2, <1>4, <1>7, <1>8, <1>16 DEF BoardKind, SendOff
  <1> QED BY <1>1, <1>7, <1>9, <1>15, <1>17, BoardStep

-----------------------------------------------------------------------------
(* What the page writes.                                                   *)

\* What comes of a write of the page's: one task is replaced or gone, one is new, or
\* nothing is.
Taken(q) ==
  \/ q.o.reply # "ok" /\ work' = work /\ ledger' = ledger
  \/ /\ q.o.reply = "ok"
     /\ \E i \in DOMAIN work :
          /\ Turned(q.w, work[i], q.o.card)
          /\ work' = IF q.w.kind = "delete" THEN LessOne(work, i) ELSE [work EXCEPT ![i] = q.o.card]

SameCounts == ledger'.others = ledger.others /\ ledger'.wanted = ledger.wanted

LEMMA TriedIs ==
  ASSUME DeskInv, NEW kind, NEW w, WriteRight(w), NEW f, Tried(kind, w, f)
  PROVE  \E q : /\ q.kind = kind /\ q.w = w /\ sent' = sent \cup {q} /\ Taken(q)
                /\ q.o.reply \in {"ok", "stale", "blocked", "failed"}
                /\ WorkRight' /\ LedgerRight' /\ Grows(work, ledger.made, work', ledger'.made) /\ SameCounts
                /\ ledger'.made = ledger.made
  <1>0. WorkRight /\ LedgerRight /\ ledger.others \in Nat
    BY DEF DeskInv, LedgerRight
  <1>1. CASE Mutated(w, Outcome(w), 0) /\ Await(kind, w, Outcome(w))
    <2>1. PICK o : o = Outcome(w)
      OBVIOUS
    <2>2. TaskTurned(w, o, 0) /\ LedgerRight' /\ o.reply \in {"ok", "stale", "blocked"}
      BY <1>0, <1>1, <2>1, MutatedIs DEF TaskTurned
    <2>3. WorkRight' /\ Grows(work, ledger.made, work', ledger'.made)
      BY <1>0, <2>2, TurnedWork
    <2>4. PICK q : q = [kind |-> kind, w |-> w, o |-> o]
      OBVIOUS
    <2>5. q.kind = kind /\ q.w = w /\ q.o = o /\ sent' = sent \cup {q}
      BY <1>1, <2>1, <2>4 DEF Await, SendOff
    <2>6. Taken(q)
      BY <2>2, <2>5 DEF Taken, TaskTurned
    <2>7. SameCounts /\ ledger'.made = ledger.made
      <3>1. CASE ledger' = ledger
        BY <3>1 DEF SameCounts
      <3>2. CASE IsTold(ledger', ledger, ledger.others + 0)
        <4>1. PICK l, m, n : l = ledger /\ m = ledger' /\ n = ledger.others
          OBVIOUS
        <4>2. IsLedger(l) /\ IsTold(m, l, n)
          <5>1. ledger.others + 0 = ledger.others
            BY <1>0
          <5> QED BY <3>2, <4>1, <5>1 DEF DeskInv, LedgerRight
        <4>3. m = l
          BY <4>1, <4>2, LedgerTold
        <4> QED BY <4>1, <4>3 DEF SameCounts
      <3> QED BY <2>2, <3>1, <3>2 DEF TaskTurned
    <2> QED BY <2>2, <2>3, <2>5, <2>6, <2>7
  <1>2. CASE Await(kind, w, NoReply) /\ UNCHANGED <<work, ledger>>
    <2>1. PICK o : o = NoReply
      OBVIOUS
    <2>2. o.reply = "failed"
      BY <2>1 DEF NoReply
    <2>4. PICK q : q = [kind |-> kind, w |-> w, o |-> o]
      OBVIOUS
    <2>5. q.kind = kind /\ q.w = w /\ q.o = o /\ sent' = sent \cup {q}
      BY <1>2, <2>1, <2>4 DEF Await, SendOff
    <2>6. WorkRight' /\ LedgerRight' /\ Grows(work, ledger.made, work', ledger'.made) /\ SameCounts /\ Taken(q)
      BY <1>0, <1>2, <2>2, <2>5, SameGrows DEF WorkRight, LedgerRight, SameCounts, Taken
    <2> QED BY <1>2, <2>2, <2>5, <2>6
  <1> QED BY <1>1, <1>2 DEF Tried

\* The task of an earlier click is still in the note as it was, or under a newer title.
KeepsTask(p) ==
  /\ p.kind = "toggle" /\ Answers(p) /\ ToggleRight(p) =>
       \A j \in DOMAIN work : work[j] = p.o.card => \E k \in DOMAIN work' : work'[k] = work[j]
  /\ \A k \in DOMAIN work' : work'[k].id = p.w.id =>
       \/ \E j \in DOMAIN work : work[j] = work'[k]
       \/ \A i \in DOMAIN desk.tasks : desk.tasks[i].key = p.w.key => desk.tasks[i].box.text[2] < work'[k].title[2]

\* The cards are what they were, but for that of this key.
OldCards(key) ==
  \A i \in DOMAIN desk'.tasks : \E j \in DOMAIN desk.tasks :
    \/ desk'.tasks[i] = desk.tasks[j]
    \/ desk'.tasks[i].key = key /\ desk.tasks[j].key = key

\* A click or a save of the page's: what was asked before keeps its answer.
PageWrite(q, key) ==
  /\ NotReading /\ WorkRight' /\ LedgerRight' /\ Grows(work, ledger.made, work', ledger'.made) /\ SameCounts
  /\ UNCHANGED <<boardFile, sheet, listed>> /\ sent' = sent \cup {q} /\ q.kind \in Click \cup {"save"}
  /\ IsDesk(desk') /\ desk'.keys = desk.keys /\ desk'.at = desk.at /\ desk'.board = desk.board
  /\ CardsRight(desk'.tasks, ledger.made, work) /\ KeysRight(desk'.tasks, desk.keys)
  /\ \A p \in sent : p.kind \in Click =>
       /\ (OldCards(key) /\ p.w.key # key) \/ desk' = desk
       /\ OnPage(p.w.key) => KeepsTask(p)
       /\ q.kind \in Click => p.w.key # q.w.key
  /\ q.kind \in Click => sheet = None

LEMMA OldClicks ==
  ASSUME DeskInv, NEW q, NEW key, PageWrite(q, key), NEW p \in sent, p.kind \in Click, RequestRight(p)
  PROVE  RequestRight(p)'
  <1>1. ASSUME NEW i \in DOMAIN desk'.tasks, desk'.tasks[i].key = p.w.key
        PROVE  \E j \in DOMAIN desk.tasks : desk'.tasks[i] = desk.tasks[j]
    BY <1>1 DEF PageWrite, OldCards
  <1>2. OnPage(p.w.key)' => OnPage(p.w.key)
    BY <1>1 DEF OnPage
  <1>3. NoneSince' <=> NoneSince
    BY DEF NoneSince, PageWrite, SameCounts
  <1>4. ClickRight(p)'
    <2>1. ClickRight(p)
      BY DEF RequestRight
    <2> QED BY <1>1, <2>1 DEF ClickRight, PageWrite
  <1>5. p.kind = "toggle" /\ Answers(p) => ToggleRight(p)'
    <2> SUFFICES ASSUME p.kind = "toggle", Answers(p) PROVE ToggleRight(p)'
      OBVIOUS
    <2>1. ToggleRight(p)
      BY DEF RequestRight
    <2>2. ledger.made \in Nat /\ ledger'.made \in Nat /\ ledger.made <= ledger'.made
      BY DEF PageWrite, Grows
    <2>3. TaskRight(p.o.card, ledger'.made)
      BY <2>1, <2>2 DEF ToggleRight, TaskRight
    <2>4. NotNewer(p.w.id, p.w.box.text, work')
      <3> SUFFICES ASSUME NEW j \in DOMAIN work', work'[j].id = p.w.id PROVE p.w.box.text[2] <= work'[j].title[2]
        BY DEF NotNewer
      <3>1. p.w.id \in 1 .. ledger.made /\ p.w.box.text[2] \in Nat
        BY <2>1, TitleIs DEF ToggleRight, TaskRight
      <3>2. PICK k \in DOMAIN work : /\ work[k].id = work'[j].id
                                     /\ work[k].title[2] \in Nat /\ work'[j].title[2] \in Nat
                                     /\ work[k].title[2] <= work'[j].title[2]
        BY <3>1, <2>2 DEF PageWrite, Grows
      <3>3. p.w.box.text[2] <= work[k].title[2]
        BY <2>1, <3>2 DEF ToggleRight, NotNewer
      <3> QED BY <3>1, <3>2, <3>3
    <2>5. \A i \in DOMAIN desk'.tasks : desk'.tasks[i].key = p.w.key => Raw(desk'.tasks[i]) = AskedRaw(p)
      BY <2>1, <1>1 DEF ToggleRight
    <2>6. NoneSince' /\ OnPage(p.w.key)' => \E j \in DOMAIN work' : work'[j] = p.o.card
      BY <2>1, <1>2, <1>3 DEF ToggleRight, PageWrite, KeepsTask
    <2> QED BY <2>1, <2>3, <2>4, <2>5, <2>6 DEF ToggleRight
  <1>6. p.kind = "step" /\ Answers(p) => StepRight(p)'
    <2> SUFFICES ASSUME StepRight(p), NoneSince,
                        NEW i \in DOMAIN desk'.tasks, desk'.tasks[i].key = p.w.key
                 PROVE  /\ \A k \in DOMAIN desk'.tasks[i].steps : desk'.tasks[i].steps[k].shows = p.w.value
                        /\ \A j \in DOMAIN work' : work'[j].id = p.w.id =>
                             \/ desk'.tasks[i].box.text[2] < work'[j].title[2]
                             \/ \A k \in DOMAIN work'[j].steps : work'[j].steps[k].ticked = p.w.value
      BY <1>3 DEF StepRight, RequestRight
    <2>1. PICK c \in DOMAIN desk.tasks : desk'.tasks[i] = desk.tasks[c]
      BY <1>1
    <2>2. desk.tasks[c].key = p.w.key /\ OnPage(p.w.key)
      BY <2>1 DEF OnPage
    <2>3. KeepsTask(p)
      BY <2>2 DEF PageWrite
    <2>4. /\ \A k \in DOMAIN desk.tasks[c].steps : desk.tasks[c].steps[k].shows = p.w.value
          /\ \A j \in DOMAIN work : work[j].id = p.w.id =>
               \/ desk.tasks[c].box.text[2] < work[j].title[2]
               \/ \A k \in DOMAIN work[j].steps : work[j].steps[k].ticked = p.w.value
      BY <2>2 DEF StepRight
    <2> QED BY <2>1, <2>2, <2>3, <2>4 DEF KeepsTask
  <1> QED BY <1>4, <1>5, <1>6 DEF RequestRight, Click, BoardKind

\* All but the new request and what the page then shows.
LEMMA WriteStep ==
  ASSUME DeskInv, NEW q, NEW key, PageWrite(q, key), RequestRight(q)', TasksShown'
  PROVE  DeskInv'
  <1>1. NoneSince' <=> NoneSince
    BY DEF NoneSince, PageWrite, SameCounts
  <1>2. OnDesk'
    <2>1. CardsRight(desk'.tasks, ledger'.made, work')
      BY CardsStay DEF PageWrite
    <2> QED BY <2>1 DEF OnDesk, DeskInv, PageWrite, SameCounts
  <1>3. ASSUME NEW p \in sent PROVE RequestRight(p)'
    <2>0. RequestRight(p) /\ p.kind # "read"
      BY DEF DeskInv, PageWrite, NotReading
    <2>1. CASE p.kind \in Click
      BY <2>0, <2>1, OldClicks
    <2>2. CASE p.kind \in BoardKind
      BY <1>1, <2>0, <2>2 DEF RequestRight, AskedBoard, PageWrite, Click, BoardKind
    <2>3. CASE p.kind = "save"
      BY <2>3 DEF RequestRight, Click, BoardKind
    <2> QED BY <2>0, <2>1, <2>2, <2>3 DEF RequestRight
  <1>4. \A p \in sent' : RequestRight(p)'
    BY <1>3 DEF PageWrite
  <1>5. OneClick'
    BY DEF PageWrite, DeskInv, OneClick
  <1>6. FormRight'
    <2>1. CASE q.kind \in Click
      BY <2>1 DEF PageWrite, FormRight, FormOpen
    <2>2. CASE q.kind = "save"
      <3>0. FormRight
        BY DEF DeskInv
      <3>1. sheet' = sheet /\ (FormOpen' <=> FormOpen)
        BY DEF PageWrite, FormOpen
      <3>2. ledger.made \in Nat /\ ledger'.made \in Nat /\ ledger.made <= ledger'.made
        BY DEF PageWrite, Grows
      <3>3. FormOpen => CardRight(sheet'.task, ledger'.made)
        BY <3>0, <3>1, <3>2, CardStays DEF FormRight
      <3>4. ASSUME NEW p \in sent', p.kind = "toggle", Answers(p), FormOpen PROVE FormTold(p)'
        <4>1. p \in sent /\ FormTold(p) /\ p.kind \in Click
          BY <2>2, <3>0, <3>4 DEF PageWrite, FormRight, Click
        <4>2. OnPage(p.w.key)' => OnPage(p.w.key)
          <5>1. ASSUME NEW i \in DOMAIN desk'.tasks, desk'.tasks[i].key = p.w.key
                PROVE  \E j \in DOMAIN desk.tasks : desk'.tasks[i] = desk.tasks[j]
            BY <4>1, <5>1 DEF PageWrite, OldCards
          <5> QED BY <5>1 DEF OnPage
        <4> QED BY <3>1, <4>1, <4>2 DEF FormTold
      <3> QED BY <3>1, <3>3, <3>4 DEF FormRight
    <2> QED BY <2>1, <2>2 DEF PageWrite
  <1>7. ListedRight'
    BY CardStays DEF DeskInv, ListedRight, PageWrite, Grows
  <1>8. BoardsRight'
    <2>1. BoardOut' <=> BoardOut
      BY DEF BoardOut, PageWrite, Click, BoardKind
    <2> QED BY <1>1, <2>1 DEF BoardsRight, DeskInv, PageWrite, SameCounts
  <1> QED BY <1>2, <1>4, <1>5, <1>6, <1>7, <1>8 DEF DeskInv, PageWrite

\* The task a click is not for.
LEMMA OtherTasks ==
  ASSUME WorkRight, NEW q, Taken(q), WriteRight(q.w), NEW p, p.w.id # q.w.id
  PROVE  KeepsTask(p)
  <1>1. CASE work' = work
    BY <1>1 DEF KeepsTask
  <1>2. ASSUME NEW i \in DOMAIN work, Turned(q.w, work[i], q.o.card), q.w.kind = "delete", work' = LessOne(work, i)
        PROVE  KeepsTask(p)
    <2>1. IsSeq(work) /\ work[i].id = q.w.id
      BY <1>2 DEF WorkRight, TasksRight, Turned
    <2>2. \A j \in DOMAIN work \ {i} : \E k \in DOMAIN work' : work'[k] = work[j]
      BY <1>2, <2>1, SeqWithout
    <2>3. \A k \in DOMAIN work' : \E j \in DOMAIN work : work'[k] = work[j]
      BY <1>2, <2>1, SeqWithout
    <2>4. ToggleRight(p) => p.o.card.id = p.w.id
      BY DEF ToggleRight
    <2> QED BY <2>1, <2>2, <2>3, <2>4 DEF KeepsTask
  <1>3. ASSUME NEW i \in DOMAIN work, Turned(q.w, work[i], q.o.card), q.w.kind # "delete",
               work' = [work EXCEPT ![i] = q.o.card]
        PROVE  KeepsTask(p)
    <2>1. IsSeq(work) /\ work[i].id = q.w.id /\ q.o.card.id = q.w.id
      BY <1>3, TurnedTask DEF WorkRight, TasksRight, Turned
    <2>2. DOMAIN work' = DOMAIN work /\ work'[i].id = q.w.id /\ \A j \in DOMAIN work : j # i => work'[j] = work[j]
      <3>1. PICK c : c = q.o.card
        OBVIOUS
      <3> QED BY <1>3, <2>1, <3>1, SeqExcept
    <2>4. ToggleRight(p) => p.o.card.id = p.w.id
      BY DEF ToggleRight
    <2> QED BY <2>1, <2>2, <2>4 DEF KeepsTask
  <1> QED BY <1>1, <1>2, <1>3 DEF Taken

\* A box of a task is ticked, or that of its step.
LEMMA TurnedDone ==
  ASSUME NEW w, WriteRight(w), w.kind = "check", NEW upto, NEW t, TaskRight(t, upto), NEW c, Turned(w, t, c)
  PROVE  /\ TitleOf(w.id, w.box.text) =>
              /\ OnTitle(w, t) /\ c.id = t.id /\ c.title = t.title /\ c.done = w.value /\ c.goal = t.goal /\ c.steps = t.steps
         /\ w.box.text = StepText(w.id) =>
              /\ c.id = t.id /\ c.title = t.title /\ c.done = t.done /\ c.goal = t.goal
              /\ DOMAIN c.steps = {1} /\ DOMAIN t.steps = {1} /\ c.steps[1].ticked = w.value
  <1>0. t.id = w.id /\ TitleOf(t.id, t.title)
    BY DEF Turned, TaskRight
  <1>1. ASSUME TitleOf(w.id, w.box.text)
        PROVE  /\ OnTitle(w, t) /\ c.id = t.id /\ c.title = t.title /\ c.done = w.value /\ c.goal = t.goal /\ c.steps = t.steps
    <2>1. w.box.text # StepText(w.id)
      BY <1>1, TitleIs
    <2>2. OnTitle(w, t) /\ c = [t EXCEPT !.done = w.value]
      BY <2>1 DEF Turned, OnStep
    <2> QED BY <2>2 DEF TaskRight, IsTask
  <1>2. ASSUME w.box.text = StepText(w.id)
        PROVE  /\ c.id = t.id /\ c.title = t.title /\ c.done = t.done /\ c.goal = t.goal
               /\ DOMAIN c.steps = {1} /\ DOMAIN t.steps = {1} /\ c.steps[1].ticked = w.value
    <2>1. ~OnTitle(w, t)
      BY <1>0, <1>2, TitleIs DEF OnTitle
    <2>2. OnStep(w, t) /\ c = [t EXCEPT !.steps[1].ticked = w.value]
      BY <2>1 DEF Turned
    <2>3. PICK s : s = [t.steps EXCEPT ![1].ticked = w.value]
      OBVIOUS
    <2>4. c.id = t.id /\ c.title = t.title /\ c.done = t.done /\ c.goal = t.goal /\ c.steps = s
      BY <2>2, <2>3 DEF TaskRight, IsTask
    <2>5. t.steps = [k \in DOMAIN t.steps |-> t.steps[k]] /\ DOMAIN t.steps = {1} /\ IsStep(t.steps[1])
      BY <2>2 DEF TaskRight, StepsOf, OnStep
    <2>6. DOMAIN s = {1} /\ s[1] = [t.steps[1] EXCEPT !.ticked = w.value]
      BY <2>3, <2>5
    <2>7. s[1].ticked = w.value
      BY <2>5, <2>6 DEF IsStep
    <2> QED BY <2>4, <2>5, <2>6, <2>7
  <1> QED BY <1>1, <1>2

\* The card a click is on is the only one of its task, and no click is out on it.
LEMMA ClickIs ==
  ASSUME DeskInv, ~Hurried, NEW i \in DOMAIN desk.tasks, MayAct, Unclicked(desk.tasks[i]),
         NEW q, WriteRight(q.w), q.w.key = desk.tasks[i].key, q.w.id = desk.tasks[i].id, Taken(q)
  PROVE  /\ NotReading /\ sheet = None /\ q.w.key \in Nat /\ q.w.key <= desk.keys
         /\ \A p \in sent : p.kind \in Click => p.w.key # q.w.key /\ (OnPage(p.w.key) => KeepsTask(p))
         /\ \A j \in DOMAIN desk.tasks : desk.tasks[j].key = q.w.key => j = i
  <1>1. NotReading /\ sheet = None
    BY DEF MayAct, Ready
  <1>2. KeysRight(desk.tasks, desk.keys) /\ CardsRight(desk.tasks, ledger.made, work)
    BY DEF DeskInv, OnDesk
  <1>3. q.w.key \in Nat /\ q.w.key <= desk.keys /\ \A j \in DOMAIN desk.tasks : desk.tasks[j].key = q.w.key => j = i
    BY <1>2 DEF KeysRight
  <1>4. \A p \in sent : p.kind \in Click => p.w.key # q.w.key
    BY DEF Unclicked, Click
  <1>5. ASSUME NEW p \in sent, p.kind \in Click, OnPage(p.w.key) PROVE KeepsTask(p)
    <2>1. ClickRight(p)
      BY <1>5 DEF DeskInv, RequestRight
    <2>2. PICK j \in DOMAIN desk.tasks : desk.tasks[j].key = p.w.key
      BY <1>5 DEF OnPage
    <2>3. desk.tasks[j].id = p.w.id /\ j # i
      BY <1>4, <1>5, <2>1, <2>2 DEF ClickRight
    <2>4. p.w.id # q.w.id
      BY <1>2, <2>3 DEF CardsRight
    <2> QED BY <2>4, OtherTasks DEF DeskInv
  <1> QED BY <1>1, <1>3, <1>4, <1>5

LEMMA ToggleStays ==
  ASSUME DeskInv, ~Hurried, NEW i \in DOMAIN desk.tasks, Toggle(i)
  PROVE  DeskInv'
  <1>1. PICK c : c = desk.tasks[i]
    OBVIOUS
  <1>2. PICK b \in BOOLEAN : b = ~c.box.ticked
    OBVIOUS
  <1>3. PICK w : w = Write("check", c, c.box, b)
    OBVIOUS
  <1>4. CardRight(c, ledger.made) /\ MayAct /\ Unclicked(c) /\ UNCHANGED <<boardFile, desk, sheet, listed>>
    BY <1>1 DEF Toggle, DeskInv, OnDesk, CardsRight
  <1>5. /\ WriteRight(w) /\ w.kind = "check" /\ w.id = c.id /\ w.key = c.key /\ w.box = c.box /\ w.value = b
        /\ TitleOf(w.id, w.box.text) /\ w.box.ticked \in BOOLEAN
    BY <1>3, <1>4, CardWrites, WriteIs DEF CardRight, IsBox
  <1>6. Tried("toggle", w, "clicks")
    BY <1>1, <1>2, <1>3 DEF Toggle
  <1>7. PICK q : /\ q.kind = "toggle" /\ q.w = w /\ sent' = sent \cup {q} /\ Taken(q)
                 /\ q.o.reply \in {"ok", "stale", "blocked", "failed"}
                 /\ WorkRight' /\ LedgerRight' /\ Grows(work, ledger.made, work', ledger'.made) /\ SameCounts
                 /\ ledger'.made = ledger.made
    BY <1>5, <1>6, TriedIs
  <1>8. /\ NotReading /\ sheet = None /\ w.key \in Nat /\ w.key <= desk.keys
        /\ \A p \in sent : p.kind \in Click => p.w.key # w.key /\ (OnPage(p.w.key) => KeepsTask(p))
        /\ \A j \in DOMAIN desk.tasks : desk.tasks[j].key = w.key => j = i
    BY <1>1, <1>4, <1>5, <1>7, ClickIs
  <1>9. PageWrite(q, w.key)
    BY <1>4, <1>7, <1>8 DEF PageWrite, DeskInv, OnDesk, Click
  <1>10. CardsRight(desk.tasks, ledger'.made, work')
    BY <1>7, CardsStay DEF DeskInv, OnDesk
  \* The task that was ticked, as it was and as it is.
  <1>11. ASSUME Answers(q)
         PROVE  \E j \in DOMAIN work :
                  /\ work[j].id = w.id /\ Turned(w, work[j], q.o.card) /\ work' = [work EXCEPT ![j] = q.o.card]
                  /\ DOMAIN work' = DOMAIN work /\ work'[j] = q.o.card /\ \A k \in DOMAIN work : k # j => work'[k] = work[k]
                  /\ TaskRight(work[j], ledger.made)
    <2>1. PICK j \in DOMAIN work : Turned(w, work[j], q.o.card) /\ work' = [work EXCEPT ![j] = q.o.card]
      BY <1>5, <1>7, <1>11 DEF Taken, Answers
    <2>2. PICK x : x = q.o.card
      OBVIOUS
    <2>3. IsSeq(work) /\ TaskRight(work[j], ledger.made) /\ work[j].id = w.id
      BY <2>1 DEF DeskInv, WorkRight, TasksRight, Turned
    <2>4. DOMAIN work' = DOMAIN work /\ work'[j] = x /\ \A k \in DOMAIN work : k # j => work'[k] = work[k]
      BY <2>1, <2>2, <2>3, SeqExcept
    <2> QED BY <2>1, <2>2, <2>3, <2>4
  <1>12. ClickRight(q)'
    BY <1>1, <1>4, <1>5, <1>7, <1>8 DEF ClickRight
  <1>13. Answers(q) => ToggleRight(q)'
    <2> SUFFICES ASSUME Answers(q) PROVE ToggleRight(q)'
      OBVIOUS
    <2>1. PICK j \in DOMAIN work :
            /\ Turned(w, work[j], q.o.card) /\ work' = [work EXCEPT ![j] = q.o.card]
            /\ DOMAIN work' = DOMAIN work /\ work'[j] = q.o.card /\ TaskRight(work[j], ledger.made)
      BY <1>11
    <2>2. TaskRight(q.o.card, ledger'.made) /\ q.o.card.id = w.id
      BY <1>5, <1>7, <2>1, TurnedTask DEF DeskInv
    <2>3. q.o.card.title = w.box.text /\ q.o.card.done = b
      BY <1>5, <2>1, TurnedDone DEF OnTitle
    <2>4. b # w.box.ticked
      BY <1>2, <1>5
    <2>5. NotNewer(w.id, w.box.text, work')
      BY <1>1, <1>5, <1>10 DEF CardsRight
    <2>6. \A k \in DOMAIN desk'.tasks : desk'.tasks[k].key = w.key => Raw(desk'.tasks[k]) = AskedRaw(q)
      BY <1>1, <1>4, <1>5, <1>7, <1>8 DEF Raw, AskedRaw
    <2> QED BY <1>7, <2>1, <2>2, <2>3, <2>4, <2>5, <2>6 DEF ToggleRight
  <1>14. RequestRight(q)'
    BY <1>7, <1>12, <1>13 DEF RequestRight, Click, BoardKind
  <1>15. TasksShown'
    <2> SUFFICES ASSUME NoneSince, ~Due'
                 PROVE  DOMAIN desk.tasks = DOMAIN work' /\ \A k \in DOMAIN work' : TaskCard(desk.tasks[k], work[k])'
      BY <1>4, <1>7 DEF TasksShown, NoneSince, SameCounts
    <2>1. ~Due /\ q.o.reply # "stale"
      BY <1>7 DEF Due, Owes
    <2>2. DOMAIN desk.tasks = DOMAIN work /\ \A k \in DOMAIN work : TaskCard(desk.tasks[k], work[k])
      BY <2>1 DEF DeskInv, TasksShown
    <2>3. \A k : TickOut(k) => TickOut(k)'
      BY <1>7 DEF TickOut
    <2>4. CASE work' = work
      BY <1>4, <2>2, <2>3, <2>4 DEF TaskCard
    <2>5. CASE Answers(q)
      <3>1. PICK j \in DOMAIN work :
              /\ work[j].id = w.id /\ DOMAIN work' = DOMAIN work /\ work'[j] = q.o.card
              /\ \A k \in DOMAIN work : k # j => work'[k] = work[k]
              /\ Turned(w, work[j], q.o.card) /\ TaskRight(work[j], ledger.made)
        BY <1>11, <2>5
      <3>2. q.o.card.id = w.id
        BY <1>5, <3>1, TurnedDone
      <3>3. desk.tasks[j].id = w.id
        BY <2>2, <3>1 DEF TaskCard
      <3>4. j = i
        BY <1>1, <1>5, <2>2, <3>3 DEF DeskInv, OnDesk, CardsRight
      <3>5. TickOut(desk.tasks[j].key)'
        BY <1>1, <1>4, <1>5, <1>7, <2>5, <3>4 DEF TickOut
      <3>6. TaskCard(desk.tasks[j], work[j])'
        BY <1>4, <3>1, <3>2, <3>3, <3>5 DEF TaskCard
      <3>7. \A k \in DOMAIN work : k # j => TaskCard(desk.tasks[k], work[k])'
        BY <1>4, <2>2, <2>3, <3>1 DEF TaskCard
      <3> QED BY <2>2, <3>1, <3>6, <3>7
    <2> QED BY <1>7, <2>4, <2>5 DEF Taken, Answers
  <1> QED BY <1>9, <1>14, <1>15, WriteStep

\* Only one write of the form is out, and what it writes is not a card that waits for its tick.
LEMMA SaveStays ==
  ASSUME DeskInv, ~Hurried, SubmitForm
  PROVE  DeskInv'
  <1>1. sheet # None /\ sheet.kind = "task" /\ NotReading /\ UNCHANGED <<boardFile, desk, sheet, listed>>
    BY DEF SubmitForm, Ready
  <1>2. CASE sheet.task = None
    <2>1. PICK q : q = [kind |-> "save", w |-> None, o |-> [NoReply EXCEPT !.reply = "ok"]]
      OBVIOUS
    <2>2. PICK done \in BOOLEAN : TaskCreated(done, 0) /\ sent' = sent \cup {q}
      BY <1>2, <2>1 DEF SubmitForm, Await, SendOff
    <2>3. q.kind = "save" /\ q.o.reply = "ok"
      BY <2>1 DEF NoReply
    <2>4. /\ WorkRight' /\ LedgerRight' /\ Grows(work, ledger.made, work', ledger'.made)
          /\ ledger'.others = ledger.others + 0 /\ ledger'.wanted = ledger.wanted
      BY <2>2, CreatedWork DEF DeskInv
    <2>5. SameCounts
      BY <2>4 DEF SameCounts, DeskInv, LedgerRight
    <2>6. ASSUME NEW p \in sent, p.kind \in Click, OnPage(p.w.key) PROVE KeepsTask(p)
      <3>1. PICK t : t = Task(ledger.made + 1, Title(ledger.made + 1, 1), done, None, <<>>)
        OBVIOUS
      <3>2. work' = Append(work, t) /\ t.id = ledger.made + 1
        BY <2>2, <3>1 DEF TaskCreated, Task
      <3>3. /\ DOMAIN work = 1 .. Len(work) /\ Len(work) \in Nat /\ DOMAIN work' = 1 .. Len(work) + 1
            /\ work'[Len(work) + 1] = t /\ \A j \in DOMAIN work : work'[j] = work[j]
        BY <3>2, SeqAppend DEF DeskInv, WorkRight, TasksRight
      <3>4. \A k \in DOMAIN work' : k \in DOMAIN work \/ k = Len(work) + 1
        BY <3>3
      <3>5. \A j \in DOMAIN work : j \in DOMAIN work'
        BY <3>3
      <3>6. p.w.id \in 1 .. ledger.made /\ ledger.made \in Nat
        <4>1. PICK j \in DOMAIN desk.tasks : desk.tasks[j].key = p.w.key
          BY <2>6 DEF OnPage
        <4>2. desk.tasks[j].id = p.w.id
          BY <2>6, <4>1 DEF DeskInv, RequestRight, ClickRight
        <4> QED BY <4>2 DEF DeskInv, OnDesk, CardsRight, CardRight, WorkRight, TasksRight
      <3>7. p.w.id # t.id
        BY <3>2, <3>6
      <3> QED BY <3>3, <3>4, <3>5, <3>7 DEF KeepsTask
    <2>7. PageWrite(q, 0)
      BY <1>1, <2>2, <2>3, <2>4, <2>5, <2>6 DEF PageWrite, DeskInv, OnDesk, Click
    <2>8. RequestRight(q)'
      BY <2>3 DEF RequestRight, Click, BoardKind
    <2>9. TasksShown'
      BY <2>2, <2>3 DEF TasksShown, Due, Owes
    <2> QED BY <2>7, <2>8, <2>9, WriteStep
  <1>3. CASE sheet.task # None
    <2>1. PICK c : c = sheet.task
      OBVIOUS
    <2>2. FormOpen /\ CardRight(c, ledger.made)
      BY <1>1, <1>3, <2>1 DEF FormOpen, FormRight, DeskInv
    <2>3. PICK spec \in Specs(c) : Tried("save", Write("replace", c, c.box, spec), "forms")
      BY <1>3, <2>1 DEF SubmitForm
    <2>4. PICK w : w = Write("replace", c, c.box, spec)
      OBVIOUS
    <2>5. WriteRight(w) /\ w.kind = "replace" /\ w.id = c.id /\ w.key = c.key /\ w.box = c.box
      BY <2>2, <2>4, CardWrites, WriteIs
    <2>6. PICK q : /\ q.kind = "save" /\ q.w = w /\ sent' = sent \cup {q} /\ Taken(q)
                   /\ q.o.reply \in {"ok", "stale", "blocked", "failed"}
                   /\ WorkRight' /\ LedgerRight' /\ Grows(work, ledger.made, work', ledger'.made) /\ SameCounts
                   /\ ledger'.made = ledger.made
      BY <2>3, <2>4, <2>5, TriedIs
    <2>7. ASSUME NEW p \in sent, p.kind \in Click, OnPage(p.w.key) PROVE KeepsTask(p)
      <3>1. CASE p.w.id # w.id
        BY <2>5, <2>6, <3>1, OtherTasks DEF DeskInv
      <3>2. CASE work' = work
        BY <3>2 DEF KeepsTask
      <3>3. CASE p.w.id = w.id /\ q.o.reply = "ok"
        <4>1. PICK i \in DOMAIN work : Turned(w, work[i], q.o.card) /\ work' = [work EXCEPT ![i] = q.o.card]
          BY <2>5, <2>6, <3>3 DEF Taken
        <4>2. PICK x : x = q.o.card
          OBVIOUS
        <4>3. /\ TaskRight(work[i], ledger.made) /\ work[i].id = w.id /\ OnTitle(w, work[i])
              /\ x.id = w.id /\ x.title[2] = work[i].title[2] + 1 /\ work[i].title[2] \in Nat
          BY <2>5, <4>1, <4>2, TurnedTask DEF DeskInv, WorkRight, TasksRight, Turned
        <4>4. DOMAIN work' = DOMAIN work /\ work'[i] = x /\ \A k \in DOMAIN work : k # i => work'[k] = work[k]
          BY <4>1, <4>2, SeqExcept DEF DeskInv, WorkRight, TasksRight
        <4>5. \A k \in DOMAIN work : work[k].id = w.id => k = i
          BY <4>3 DEF DeskInv, WorkRight, TasksRight
        <4>6. PICK m \in DOMAIN desk.tasks : desk.tasks[m].key = p.w.key
          BY <2>7 DEF OnPage
        <4>7. ClickRight(p) /\ RequestRight(p)
          BY <2>7 DEF DeskInv, RequestRight
        <4>8. \A k \in DOMAIN desk.tasks : desk.tasks[k].key = p.w.key => desk.tasks[k].box.text[2] < x.title[2]
          <5> SUFFICES ASSUME NEW k \in DOMAIN desk.tasks, desk.tasks[k].key = p.w.key
                       PROVE  desk.tasks[k].box.text[2] < x.title[2]
            OBVIOUS
          <5>1. PICK d : d = desk.tasks[k]
            OBVIOUS
          <5>2. d.id = w.id /\ CardRight(d, ledger.made) /\ NotNewer(d.id, d.box.text, work)
            BY <3>3, <4>7, <5>1 DEF ClickRight, DeskInv, OnDesk, CardsRight
          <5>3. d.box.text[2] \in Nat /\ d.box.text[2] <= work[i].title[2]
            BY <4>3, <5>2, TitleIs DEF CardRight, NotNewer
          <5> QED BY <4>3, <5>1, <5>3
        <4>9. p.kind = "toggle" /\ Answers(p) => \A j \in DOMAIN work : work[j] # p.o.card
          <5> SUFFICES ASSUME p.kind = "toggle", Answers(p), NEW j \in DOMAIN work, work[j] = p.o.card PROVE FALSE
            OBVIOUS
          <5>1. ToggleRight(p) /\ FormTold(p)
            BY <2>2, <4>7 DEF RequestRight, DeskInv, FormRight
          <5>2. Raw(c) = AskedRaw(p)
            BY <2>1, <2>5, <2>7, <3>3, <5>1 DEF FormTold
          <5>3. c.box.ticked = p.w.box.ticked
            BY <5>2 DEF Raw, AskedRaw
          <5>4. j = i
            BY <3>3, <4>5, <5>1 DEF ToggleRight
          <5> QED BY <2>5, <4>3, <5>1, <5>3, <5>4 DEF OnTitle, ToggleRight
        <4> QED BY <2>7, <3>3, <4>3, <4>4, <4>5, <4>8, <4>9 DEF KeepsTask
      <3> QED BY <2>6, <3>1, <3>2, <3>3 DEF Taken
    <2>8. PageWrite(q, 0)
      BY <1>1, <2>6, <2>7 DEF PageWrite, DeskInv, OnDesk, Click
    <2>9. RequestRight(q)'
      BY <2>6 DEF RequestRight, Click, BoardKind
    <2>10. TasksShown'
      <3> SUFFICES ASSUME NoneSince, ~Due'
                   PROVE  DOMAIN desk.tasks = DOMAIN work' /\ \A k \in DOMAIN work' : TaskCard(desk.tasks[k], work[k])'
        BY <1>1, <2>6 DEF TasksShown, NoneSince, SameCounts
      <3>1. ~Due /\ work' = work
        BY <2>6 DEF Due, Owes, Taken
      <3>2. DOMAIN desk.tasks = DOMAIN work /\ \A k \in DOMAIN work : TaskCard(desk.tasks[k], work[k])
        BY <3>1 DEF DeskInv, TasksShown
      <3>3. \A k : TickOut(k) => TickOut(k)'
        BY <2>6 DEF TickOut
      <3> QED BY <1>1, <3>1, <3>2, <3>3 DEF TaskCard
    <2> QED BY <2>8, <2>9, <2>10, WriteStep
  <1> QED BY <1>2, <1>3

\* The page with other cards.
IsPut(e, d, x) == e = [d EXCEPT !.tasks = x]

LEMMA CardsPut ==
  ASSUME NEW d, IsDesk(d), NEW x, NEW e, IsPut(e, d, x)
  PROVE  IsDesk(e) /\ e.tasks = x /\ e.keys = d.keys /\ e.at = d.at /\ e.board = d.board
  <1>1. PICK t, k, b, a, g, n : d = [tasks |-> t, keys |-> k, board |-> b, at |-> a, goal |-> g, done |-> n]
    BY DeskIs
  <1>2. e = [tasks |-> x, keys |-> k, board |-> b, at |-> a, goal |-> g, done |-> n]
    BY <1>1 DEF IsPut
  <1> QED BY <1>1, <1>2 DEF IsDesk

HasCard(e, d, i, x) == IsPut(e, d, [d.tasks EXCEPT ![i] = x])
IsFlipped(e, d, i, k) == e = [d EXCEPT !.tasks[i].steps[k].shows = ~@]

\* A card whose step is shown ticked, or not.
Flips(e, d, i, k, b, upto) ==
  /\ IsDesk(d) /\ i \in DOMAIN d.tasks /\ CardRight(d.tasks[i], upto) /\ k \in DOMAIN d.tasks[i].steps
  /\ b \in BOOLEAN /\ b # d.tasks[i].steps[k].shows /\ IsFlipped(e, d, i, k)
HasFlipped(e, d, i, k, b, upto) ==
  \E x : /\ HasCard(e, d, i, x)
         /\ CardRight(x, upto) /\ x.id = d.tasks[i].id /\ x.key = d.tasks[i].key /\ x.goal = d.tasks[i].goal
         /\ x.box = d.tasks[i].box /\ DOMAIN x.steps = {1} /\ k = 1 /\ x.steps[1].shows = b
         /\ DOMAIN d.tasks[i].steps = {1}

LEMMA StepShown ==
  ASSUME NEW e, NEW d, NEW i, NEW k, NEW b, NEW upto, Flips(e, d, i, k, b, upto)
  PROVE  HasFlipped(e, d, i, k, b, upto)
  <1>0. /\ IsDesk(d) /\ i \in DOMAIN d.tasks /\ CardRight(d.tasks[i], upto) /\ k \in DOMAIN d.tasks[i].steps
        /\ b \in BOOLEAN /\ b # d.tasks[i].steps[k].shows /\ IsFlipped(e, d, i, k)
    BY DEF Flips
  <1>1. PICK c : c = d.tasks[i]
    OBVIOUS
  <1>2. PICK x : x = [c EXCEPT !.steps[k].shows = b]
    OBVIOUS
  <1>3. PICK s : s = [c.steps EXCEPT ![k].shows = b]
    OBVIOUS
  <1>4. x.id = c.id /\ x.key = c.key /\ x.goal = c.goal /\ x.box = c.box /\ x.steps = s /\ IsCard(x)
    BY <1>0, <1>1, <1>2, <1>3 DEF CardRight, IsCard
  <1>5. /\ c.steps = [m \in DOMAIN c.steps |-> c.steps[m]] /\ DOMAIN c.steps = {1} /\ k = 1 /\ IsStepCard(c.steps[1])
        /\ IsBox(c.steps[1].box) /\ c.steps[1].box.text = StepText(c.id)
    BY <1>0, <1>1 DEF CardRight, StepCards
  <1>6. DOMAIN s = {1} /\ s = [m \in DOMAIN s |-> s[m]] /\ s[1] = [c.steps[1] EXCEPT !.shows = b]
    BY <1>3, <1>5, <1>0
  <1>7. IsStepCard(s[1]) /\ s[1].shows = b /\ s[1].box = c.steps[1].box
    BY <1>0, <1>5, <1>6 DEF IsStepCard
  <1>8. StepCards(c.id, s)
    BY <1>0, <1>5, <1>6, <1>7 DEF StepCards
  <1>9. CardRight(x, upto)
    BY <1>0, <1>1, <1>4, <1>8 DEF CardRight
  <1>10. HasCard(e, d, i, x)
    <2>1. PICK t, ks, bd, a, g, n : d = [tasks |-> t, keys |-> ks, board |-> bd, at |-> a, goal |-> g, done |-> n]
      BY <1>0, DeskIs
    <2>2. t = d.tasks /\ t[i].steps[k].shows = c.steps[k].shows
      BY <1>1, <2>1
    <2>4. c.steps[k].shows \in BOOLEAN /\ b # c.steps[k].shows
      BY <1>0, <1>1 DEF CardRight, StepCards
    <2>5. b = ~t[i].steps[k].shows
      BY <1>0, <2>2, <2>4
    <2>3. e = [d EXCEPT !.tasks = [t EXCEPT ![i] = [t[i] EXCEPT !.steps[k].shows = b]]]
      BY <1>0, <2>1, <2>5 DEF IsFlipped
    <2> QED BY <1>1, <1>2, <2>2, <2>3 DEF IsPut, HasCard
  <1> QED BY <1>1, <1>4, <1>5, <1>6, <1>7, <1>9, <1>10 DEF HasFlipped

LEMMA StepStays ==
  ASSUME DeskInv, ~Hurried, NEW i \in DOMAIN desk.tasks, NEW k \in DOMAIN desk.tasks[i].steps, ToggleStep(i, k)
  PROVE  DeskInv'
  <1>1. PICK c : c = desk.tasks[i]
    OBVIOUS
  <1>2. PICK b \in BOOLEAN : b = ~c.steps[k].shows
    OBVIOUS
  <1>3. PICK w : w = Write("check", c, c.steps[k].box, b)
    OBVIOUS
  <1>4. CardRight(c, ledger.made) /\ MayAct /\ Unclicked(c) /\ UNCHANGED <<boardFile, sheet, listed>> /\ k \in DOMAIN c.steps
    BY <1>1 DEF ToggleStep, DeskInv, OnDesk, CardsRight
  <1>5. /\ WriteRight(w) /\ w.kind = "check" /\ w.id = c.id /\ w.key = c.key /\ w.box = c.steps[k].box /\ w.value = b
        /\ w.box.text = StepText(w.id)
    BY <1>3, <1>4, CardWrites, WriteIs DEF CardRight, StepCards
  <1>6. Tried("step", w, "clicks")
    BY <1>1, <1>2, <1>3 DEF ToggleStep
  <1>7. PICK q : /\ q.kind = "step" /\ q.w = w /\ sent' = sent \cup {q} /\ Taken(q)
                 /\ q.o.reply \in {"ok", "stale", "blocked", "failed"}
                 /\ WorkRight' /\ LedgerRight' /\ Grows(work, ledger.made, work', ledger'.made) /\ SameCounts
                 /\ ledger'.made = ledger.made
    BY <1>5, <1>6, TriedIs
  <1>8. /\ NotReading /\ sheet = None /\ w.key \in Nat /\ w.key <= desk.keys
        /\ \A p \in sent : p.kind \in Click => p.w.key # w.key /\ (OnPage(p.w.key) => KeepsTask(p))
        /\ \A j \in DOMAIN desk.tasks : desk.tasks[j].key = w.key => j = i
    BY <1>1, <1>4, <1>5, <1>7, ClickIs
  <1>9. PICK x : /\ IsPut(desk', desk, [desk.tasks EXCEPT ![i] = x])
                 /\ CardRight(x, ledger.made) /\ x.id = c.id /\ x.key = c.key /\ x.goal = c.goal
                 /\ x.box = c.box /\ DOMAIN x.steps = {1} /\ k = 1 /\ x.steps[1].shows = b
                 /\ DOMAIN c.steps = {1}
    <2>1. PICK d, e : d = desk /\ e = desk'
      OBVIOUS
    <2>2. IsFlipped(e, d, i, k)
      BY <2>1 DEF ToggleStep, IsFlipped
    <2>3. IsDesk(d) /\ d.tasks[i] = c /\ i \in DOMAIN d.tasks /\ CardRight(d.tasks[i], ledger.made) /\ k \in DOMAIN d.tasks[i].steps
      BY <1>1, <1>4, <2>1 DEF DeskInv, OnDesk
    <2>4. b # d.tasks[i].steps[k].shows
      BY <1>2, <2>3
    <2>5. PICK x : /\ HasCard(e, d, i, x)
                   /\ CardRight(x, ledger.made) /\ x.id = d.tasks[i].id /\ x.key = d.tasks[i].key /\ x.goal = d.tasks[i].goal
                   /\ x.box = d.tasks[i].box /\ DOMAIN x.steps = {1} /\ k = 1 /\ x.steps[1].shows = b
                   /\ DOMAIN d.tasks[i].steps = {1}
      <3>1. Flips(e, d, i, k, b, ledger.made)
        BY <2>2, <2>3, <2>4 DEF Flips
      <3>2. HasFlipped(e, d, i, k, b, ledger.made)
        BY <3>1, StepShown
      <3> QED BY <3>2 DEF HasFlipped
    <2> QED BY <2>1, <2>3, <2>5 DEF HasCard
  <1>10. PICK s : s = [desk.tasks EXCEPT ![i] = x]
    OBVIOUS
  <1>11. desk'.tasks = s /\ IsDesk(desk') /\ desk'.keys = desk.keys /\ desk'.at = desk.at /\ desk'.board = desk.board
    <2>1. PICK d, e : d = desk /\ e = desk'
      OBVIOUS
    <2>2. IsDesk(d) /\ IsPut(e, d, s)
      BY <1>9, <1>10, <2>1 DEF DeskInv, OnDesk
    <2> QED BY <2>1, <2>2, CardsPut
  <1>12. IsSeq(s) /\ DOMAIN s = DOMAIN desk.tasks /\ s[i] = x /\ \A j \in DOMAIN desk.tasks : j # i => s[j] = desk.tasks[j]
    BY <1>10, SeqExcept DEF DeskInv, OnDesk, CardsRight
  <1>13. \A j \in DOMAIN desk.tasks : s[j].id = desk.tasks[j].id /\ s[j].key = desk.tasks[j].key /\ s[j].box = desk.tasks[j].box
    BY <1>1, <1>9, <1>12
  <1>14. CardsRight(s, ledger.made, work)
    <2>1. CardsRight(desk.tasks, ledger.made, work)
      BY DEF DeskInv, OnDesk
    <2>2. \A j \in DOMAIN s : CardRight(s[j], ledger.made)
      BY <1>9, <1>12, <2>1 DEF CardsRight
    <2>3. \A j \in DOMAIN s : NotNewer(s[j].id, s[j].box.text, work)
      BY <1>12, <1>13, <2>1 DEF CardsRight
    <2> QED BY <1>12, <1>13, <2>1, <2>2, <2>3 DEF CardsRight
  <1>15. KeysRight(s, desk.keys)
    BY <1>12, <1>13 DEF DeskInv, OnDesk, KeysRight
  <1>16. OldCards(w.key)
    BY <1>1, <1>5, <1>9, <1>11, <1>12 DEF OldCards
  <1>17. PageWrite(q, w.key)
    BY <1>4, <1>7, <1>8, <1>11, <1>14, <1>15, <1>16 DEF PageWrite, Click
  <1>18. \A j \in DOMAIN s : s[j].key = w.key => j = i
    BY <1>8, <1>12, <1>13
  <1>19. ClickRight(q)'
    BY <1>5, <1>7, <1>8, <1>9, <1>11, <1>12, <1>18 DEF ClickRight
  \* The task whose step was ticked, as it was and as it is.
  <1>20. ASSUME Answers(q)
         PROVE  \E j \in DOMAIN work :
                  /\ work[j].id = w.id
                  /\ DOMAIN work' = DOMAIN work /\ \A m \in DOMAIN work : m # j => work'[m] = work[m]
                  /\ work'[j].id = w.id /\ work'[j].title = work[j].title /\ work'[j].done = work[j].done
                  /\ work'[j].goal = work[j].goal
                  /\ DOMAIN work'[j].steps = {1} /\ DOMAIN work[j].steps = {1} /\ work'[j].steps[1].ticked = b
    <2>1. PICK j \in DOMAIN work : Turned(w, work[j], q.o.card) /\ work' = [work EXCEPT ![j] = q.o.card]
      BY <1>5, <1>7, <1>20 DEF Taken, Answers
    <2>2. PICK y : y = q.o.card
      OBVIOUS
    <2>3. IsSeq(work) /\ TaskRight(work[j], ledger.made) /\ work[j].id = w.id
      BY <2>1 DEF DeskInv, WorkRight, TasksRight, Turned
    <2>4. DOMAIN work' = DOMAIN work /\ work'[j] = y /\ \A m \in DOMAIN work : m # j => work'[m] = work[m]
      BY <2>1, <2>2, <2>3, SeqExcept
    <2>5. /\ y.id = work[j].id /\ y.title = work[j].title /\ y.done = work[j].done /\ y.goal = work[j].goal
          /\ DOMAIN y.steps = {1} /\ DOMAIN work[j].steps = {1} /\ y.steps[1].ticked = b
      BY <1>5, <2>1, <2>2, <2>3, TurnedDone
    <2> QED BY <2>3, <2>4, <2>5
  <1>21. Answers(q) => StepRight(q)'
    <2> SUFFICES ASSUME Answers(q) PROVE StepRight(q)'
      OBVIOUS
    <2>1. PICK j \in DOMAIN work :
            /\ work[j].id = w.id
            /\ DOMAIN work' = DOMAIN work /\ \A m \in DOMAIN work : m # j => work'[m] = work[m]
            /\ DOMAIN work'[j].steps = {1} /\ work'[j].steps[1].ticked = b
      BY <1>20
    <2>2. \A m \in DOMAIN work' : work'[m].id = w.id => m = j
      BY <2>1 DEF DeskInv, WorkRight, TasksRight
    <2>3. \A m \in DOMAIN work' : work'[m].id = w.id => \A n \in DOMAIN work'[m].steps : work'[m].steps[n].ticked = b
      BY <2>1, <2>2
    <2>4. \A m \in DOMAIN s : s[m].key = w.key => \A n \in DOMAIN s[m].steps : s[m].steps[n].shows = b
      BY <1>9, <1>12, <1>18
    <2> QED BY <1>5, <1>7, <1>11, <2>3, <2>4 DEF StepRight
  <1>22. RequestRight(q)'
    BY <1>7, <1>19, <1>21 DEF RequestRight, Click, BoardKind
  <1>23. TasksShown'
    <2> SUFFICES ASSUME NoneSince, ~Due'
                 PROVE  DOMAIN s = DOMAIN work' /\ \A m \in DOMAIN work' : TaskCard(s[m], work[m])'
      BY <1>7, <1>11 DEF TasksShown, NoneSince, SameCounts, TaskCard, TickOut
    <2>1. ~Due /\ Answers(q)
      BY <1>7 DEF Due, Owes, Answers
    <2>2. DOMAIN desk.tasks = DOMAIN work /\ \A m \in DOMAIN work : TaskCard(desk.tasks[m], work[m])
      BY <2>1 DEF DeskInv, TasksShown
    <2>3. \A y : TickOut(y) => TickOut(y)'
      BY <1>7 DEF TickOut
    <2>4. PICK j \in DOMAIN work :
            /\ work[j].id = w.id
            /\ DOMAIN work' = DOMAIN work /\ \A m \in DOMAIN work : m # j => work'[m] = work[m]
            /\ work'[j].id = w.id /\ work'[j].title = work[j].title /\ work'[j].done = work[j].done
            /\ work'[j].goal = work[j].goal
            /\ DOMAIN work'[j].steps = {1} /\ DOMAIN work[j].steps = {1} /\ work'[j].steps[1].ticked = b
      BY <1>20, <2>1
    <2>5. j = i
      BY <1>1, <1>5, <2>2, <2>4 DEF DeskInv, OnDesk, CardsRight, TaskCard
    <2>6. ~TickOut(c.key)
      BY <1>5, <1>8 DEF TickOut, Click
    <2>7. ShowsTask(c, work[i])
      BY <1>1, <2>2, <2>4, <2>5, <2>6 DEF TaskCard
    <2>8. ShowsTask(s[i], work'[i])
      BY <1>5, <1>9, <1>12, <2>4, <2>5, <2>7 DEF ShowsTask
    <2>9. TaskCard(s[i], work[i])'
      BY <2>8 DEF TaskCard, ShowsTask
    <2>10. \A m \in DOMAIN work : m # i => TaskCard(s[m], work[m])'
      BY <1>12, <2>2, <2>3, <2>4, <2>5 DEF TaskCard
    <2> QED BY <1>12, <2>2, <2>4, <2>9, <2>10
  <1> QED BY <1>17, <1>22, <1>23, WriteStep

LEMMA DeleteStays ==
  ASSUME DeskInv, ~Hurried, NEW i \in DOMAIN desk.tasks, DeleteTask(i)
  PROVE  DeskInv'
  <1>1. PICK c : c = desk.tasks[i]
    OBVIOUS
  <1>3. PICK w : w = Write("delete", c, c.box, None)
    OBVIOUS
  <1>4. CardRight(c, ledger.made) /\ MayAct /\ Unclicked(c) /\ UNCHANGED <<boardFile, sheet, listed>>
    BY <1>1 DEF DeleteTask, DeskInv, OnDesk, CardsRight
  <1>5. WriteRight(w) /\ w.kind = "delete" /\ w.id = c.id /\ w.key = c.key
    <2>1. WriteRight(w)
      BY <1>3, <1>4, CardWrites
    <2> QED BY <1>3, <2>1, WriteIs
  <1>6. Tried("delete", w, "clicks")
    BY <1>1, <1>3 DEF DeleteTask
  <1>7. PICK q : /\ q.kind = "delete" /\ q.w = w /\ sent' = sent \cup {q} /\ Taken(q)
                 /\ q.o.reply \in {"ok", "stale", "blocked", "failed"}
                 /\ WorkRight' /\ LedgerRight' /\ Grows(work, ledger.made, work', ledger'.made) /\ SameCounts
                 /\ ledger'.made = ledger.made
    BY <1>5, <1>6, TriedIs
  <1>8. /\ NotReading /\ sheet = None /\ w.key \in Nat /\ w.key <= desk.keys
        /\ \A p \in sent : p.kind \in Click => p.w.key # w.key /\ (OnPage(p.w.key) => KeepsTask(p))
        /\ \A j \in DOMAIN desk.tasks : desk.tasks[j].key = w.key => j = i
    BY <1>1, <1>4, <1>5, <1>7, ClickIs
  <1>10. PICK s : s = LessOne(desk.tasks, i)
    OBVIOUS
  <1>11. desk'.tasks = s /\ IsDesk(desk') /\ desk'.keys = desk.keys /\ desk'.at = desk.at /\ desk'.board = desk.board
    <2>1. PICK d, e : d = desk /\ e = desk'
      OBVIOUS
    <2>2. IsPut(e, d, s)
      BY <1>10, <2>1 DEF DeleteTask, IsPut, LessOne
    <2>3. IsDesk(d)
      BY <2>1 DEF DeskInv, OnDesk
    <2> QED BY <2>1, <2>2, <2>3, CardsPut
  <1>12. /\ IsSeq(s) /\ Len(desk.tasks) \in Nat /\ DOMAIN desk.tasks = 1 .. Len(desk.tasks)
         /\ DOMAIN s = 1 .. Len(desk.tasks) - 1
         /\ \A j \in DOMAIN s : s[j] = desk.tasks[IF j < i THEN j ELSE j + 1]
         /\ \A j \in DOMAIN s : (IF j < i THEN j ELSE j + 1) \in DOMAIN desk.tasks \ {i}
    BY <1>10, SeqWithout DEF DeskInv, OnDesk, CardsRight
  <1>13. \A j, k \in DOMAIN s : (IF j < i THEN j ELSE j + 1) = (IF k < i THEN k ELSE k + 1) => j = k
    BY <1>12
  <1>14. CardsRight(s, ledger.made, work)
    <2>1. CardsRight(desk.tasks, ledger.made, work)
      BY DEF DeskInv, OnDesk
    <2>2. \A j \in DOMAIN s : CardRight(s[j], ledger.made) /\ NotNewer(s[j].id, s[j].box.text, work)
      BY <1>12, <2>1 DEF CardsRight
    <2>3. ASSUME NEW j \in DOMAIN s, NEW k \in DOMAIN s, s[j].id = s[k].id PROVE j = k
      <3>1. PICK m, n : m = (IF j < i THEN j ELSE j + 1) /\ n = (IF k < i THEN k ELSE k + 1)
        OBVIOUS
      <3>2. m \in DOMAIN desk.tasks /\ n \in DOMAIN desk.tasks /\ desk.tasks[m].id = desk.tasks[n].id
        BY <1>12, <2>3, <3>1
      <3>3. m = n
        BY <2>1, <3>2 DEF CardsRight
      <3> QED BY <1>13, <3>1, <3>3
    <2> QED BY <1>12, <2>2, <2>3 DEF CardsRight
  <1>15. KeysRight(s, desk.keys)
    <2>1. KeysRight(desk.tasks, desk.keys)
      BY DEF DeskInv, OnDesk
    <2>2. \A j \in DOMAIN s : s[j].key \in 1 .. desk.keys
      BY <1>12, <2>1 DEF KeysRight
    <2>3. ASSUME NEW j \in DOMAIN s, NEW k \in DOMAIN s, s[j].key = s[k].key PROVE j = k
      <3>1. PICK m, n : m = (IF j < i THEN j ELSE j + 1) /\ n = (IF k < i THEN k ELSE k + 1)
        OBVIOUS
      <3>2. m \in DOMAIN desk.tasks /\ n \in DOMAIN desk.tasks /\ desk.tasks[m].key = desk.tasks[n].key
        BY <1>12, <2>3, <3>1
      <3>3. m = n
        BY <2>1, <3>2 DEF KeysRight
      <3> QED BY <1>13, <3>1, <3>3
    <2> QED BY <2>1, <2>2, <2>3 DEF KeysRight
  <1>16. \A j \in DOMAIN s : \E k \in DOMAIN desk.tasks : k # i /\ s[j] = desk.tasks[k]
    BY <1>12
  <1>17. OldCards(w.key)
    BY <1>11, <1>16 DEF OldCards
  <1>18. PageWrite(q, w.key)
    BY <1>4, <1>7, <1>8, <1>11, <1>14, <1>15, <1>17 DEF PageWrite, Click
  <1>19. ClickRight(q)'
    BY <1>5, <1>7, <1>8, <1>11, <1>16 DEF ClickRight
  <1>20. RequestRight(q)'
    BY <1>7, <1>19 DEF RequestRight, Click, BoardKind
  <1>21. TasksShown'
    <2> SUFFICES ASSUME NoneSince, ~Due'
                 PROVE  DOMAIN s = DOMAIN work' /\ \A m \in DOMAIN work' : TaskCard(s[m], work[m])'
      BY <1>7, <1>11 DEF TasksShown, NoneSince, SameCounts, TaskCard, TickOut
    <2>1. ~Due /\ Answers(q)
      BY <1>7 DEF Due, Owes, Answers
    <2>2. DOMAIN desk.tasks = DOMAIN work /\ \A m \in DOMAIN work : TaskCard(desk.tasks[m], work[m])
      BY <2>1 DEF DeskInv, TasksShown
    <2>3. \A y : TickOut(y) => TickOut(y)'
      BY <1>7 DEF TickOut
    <2>4. PICK j \in DOMAIN work : Turned(w, work[j], q.o.card) /\ work' = LessOne(work, j)
      BY <1>5, <1>7, <2>1 DEF Taken, Answers
    <2>5. j = i
      BY <1>1, <1>5, <2>2, <2>4 DEF DeskInv, OnDesk, CardsRight, TaskCard, Turned
    <2>6. /\ Len(work) \in Nat /\ DOMAIN work = 1 .. Len(work) /\ DOMAIN work' = 1 .. Len(work) - 1
          /\ \A m \in DOMAIN work' : work'[m] = work[IF m < i THEN m ELSE m + 1]
      BY <2>4, <2>5, SeqWithout DEF DeskInv, WorkRight, TasksRight
    <2>7. Len(work) = Len(desk.tasks) /\ DOMAIN s = DOMAIN work'
      BY <1>12, <2>2, <2>6
    <2>8. ASSUME NEW m \in DOMAIN work' PROVE TaskCard(s[m], work[m])'
      <3>1. PICK n : n = IF m < i THEN m ELSE m + 1
        OBVIOUS
      <3>2. n \in DOMAIN work /\ work'[m] = work[n] /\ s[m] = desk.tasks[n]
        BY <1>12, <2>2, <2>6, <2>7, <3>1
      <3>3. TaskCard(s[m], work'[m])
        BY <2>2, <3>2
      <3> QED BY <2>3, <3>3 DEF TaskCard, ShowsTask
    <2> QED BY <2>7, <2>8
  <1> QED BY <1>18, <1>20, <1>21, WriteStep

-----------------------------------------------------------------------------
(* The answers.                                                            *)

LEMMA ReadStays ==
  ASSUME DeskInv, NEW r \in sent, BoardRead(r)
  PROVE  DeskInv'
  <1>1. r.kind = "read" /\ sent' = sent \ {r} /\ UNCHANGED <<work, boardFile, sheet, listed, ledger>> /\ ReadDue(r)
    BY DEF BoardRead, DeskInv, RequestRight
  <1>2. /\ ledger.others \in Nat /\ desk.at \in Nat /\ r.at \in Nat /\ desk.at <= r.at /\ r.at <= ledger.others
        /\ CardsRight(r.tasks, ledger.made, work) /\ CardsRight(desk.tasks, ledger.made, work)
        /\ KeysRight(desk.tasks, desk.keys)
    BY <1>1 DEF ReadDue, DeskInv, OnDesk, LedgerRight
  <1>3. PICK k : k = Keyed(desk.tasks, r.tasks, desk.keys)
    OBVIOUS
  <1>4. PICK u : u = KeysUsed(desk.tasks, r.tasks, desk.keys)
    OBVIOUS
  <1>5. CardsRight(k, ledger.made, work) /\ Rekeyed(desk.tasks, r.tasks, desk.keys, k, u)
    BY <1>2, <1>3, <1>4, KeyedIs
  <1>6. PICK a : a = IF sent = {r} THEN r.at ELSE desk.at
    OBVIOUS
  <1>7. IsDesk(desk') /\ desk'.tasks = k /\ desk'.keys = u /\ desk'.board = r.board /\ desk'.at = a
    <2>1. PICK d, e : d = desk /\ e = desk'
      OBVIOUS
    <2>2. PICK t, ks, b, at, g, n : d = [tasks |-> t, keys |-> ks, board |-> b, at |-> at, goal |-> g, done |-> n]
      BY <2>1, DeskIs DEF DeskInv, OnDesk
    <2>3. t = desk.tasks /\ ks = desk.keys /\ at = desk.at
      BY <2>1, <2>2
    <2>4. e = [d EXCEPT !.tasks = k, !.keys = u, !.board = r.board, !.at = a]
      BY <1>3, <1>4, <1>6, <2>1 DEF BoardRead
    <2>5. e = [tasks |-> k, keys |-> u, board |-> r.board, at |-> a, goal |-> g, done |-> n]
      BY <2>2, <2>4
    <2>6. IsDesk(e) /\ e.tasks = k /\ e.keys = u /\ e.board = r.board /\ e.at = a
      BY <2>5 DEF IsDesk
    <2> QED BY <2>1, <2>6
  <1>8. a \in Nat /\ desk.at <= a /\ a <= r.at
    BY <1>2, <1>6
  <1>9. NoneSince' => r.at = ledger.others /\ r.tasks = Tasks /\ r.board = boardFile
    BY <1>1, <1>2, <1>7, <1>8 DEF NoneSince, ReadDue
  <1>10. desk.keys \in Nat /\ u \in Nat /\ desk.keys <= u
    BY <1>5 DEF Rekeyed, KeysRight, DeskInv, OnDesk
  \* A card with a key that was used before is of the same task.
  <1>11. ASSUME NEW i \in DOMAIN k, k[i].key <= desk.keys
         PROVE  \E j \in DOMAIN desk.tasks : k[i].key = desk.tasks[j].key /\ Raw(desk.tasks[j]) = Raw(k[i]) /\ desk.tasks[j].id = k[i].id
    <2>1. k[i].key \in Nat
      BY <1>5 DEF Rekeyed, KeysRight
    <2>2. PICK j \in DOMAIN desk.tasks : k[i].key = desk.tasks[j].key /\ Raw(desk.tasks[j]) = Raw(r.tasks[i])
      BY <1>5, <1>10, <1>11, <2>1 DEF Rekeyed
    <2>3. SameCard(k[i], r.tasks[i])
      BY <1>5 DEF Rekeyed
    <2>4. Raw(k[i]) = Raw(r.tasks[i])
      BY <2>3 DEF SameCard, Raw
    <2>5. CardRight(k[i], ledger.made) /\ CardRight(desk.tasks[j], ledger.made)
      BY <1>2, <1>5 DEF CardsRight
    <2>6. desk.tasks[j].id = k[i].id
      BY <2>2, <2>4, <2>5, RawTells
    <2> QED BY <2>2, <2>4, <2>6
  <1>12. OnDesk'
    BY <1>1, <1>2, <1>5, <1>7, <1>8 DEF OnDesk, Rekeyed
  <1>13. ASSUME NEW q \in sent' PROVE RequestRight(q)'
    <2>1. q \in sent /\ RequestRight(q) /\ a = desk.at
      BY <1>1, <1>6, <1>13 DEF DeskInv
    <2>2. NoneSince' <=> NoneSince
      BY <1>1, <1>7, <2>1 DEF NoneSince
    <2>3. ReadDue(q) => ReadDue(q)'
      <3>1. Tasks' = Tasks
        BY <1>1 DEF Tasks, TaskLine
      <3> QED BY <1>1, <1>7, <2>1, <3>1 DEF ReadDue
    <2>4. ASSUME q.kind \in Click
          PROVE  /\ ClickRight(q)'
                 /\ q.kind = "toggle" /\ Answers(q) => ToggleRight(q)'
                 /\ q.kind = "step" /\ Answers(q) => StepRight(q)'
      <3>1. ClickRight(q)
        BY <2>1, <2>4 DEF RequestRight
      <3>2. ASSUME NEW i \in DOMAIN k, k[i].key = q.w.key
            PROVE  \E j \in DOMAIN desk.tasks : /\ desk.tasks[j].key = q.w.key /\ Raw(desk.tasks[j]) = Raw(k[i])
                                                /\ desk.tasks[j].id = k[i].id
        BY <1>11, <3>1, <3>2 DEF ClickRight
      <3>3. ClickRight(q)'
        BY <1>7, <1>10, <3>1, <3>2 DEF ClickRight
      <3>4. OnPage(q.w.key)' => OnPage(q.w.key)
        BY <1>7, <3>2 DEF OnPage
      <3>5. ToggleRight(q) => ToggleRight(q)'
        BY <1>1, <1>7, <2>2, <3>2, <3>4 DEF ToggleRight
      <3>6. StepRight(q) => StepRight(q)'
        <4> SUFFICES ASSUME StepRight(q), NoneSince, NEW i \in DOMAIN k, k[i].key = q.w.key
                     PROVE  /\ \A m \in DOMAIN k[i].steps : k[i].steps[m].shows = q.w.value
                            /\ \A j \in DOMAIN work : work[j].id = q.w.id =>
                                 \/ k[i].box.text[2] < work[j].title[2]
                                 \/ \A m \in DOMAIN work[j].steps : work[j].steps[m].ticked = q.w.value
          BY <1>1, <1>7, <2>2 DEF StepRight
        <4>1. r.tasks = Tasks /\ DOMAIN k = DOMAIN Tasks /\ SameCard(k[i], Tasks[i])
          BY <1>5, <1>9, <2>2 DEF Rekeyed
        <4>2. i \in DOMAIN work /\ ShowsTask(Tasks[i], work[i])
          BY <4>1, TasksAre DEF DeskInv
        <4>3. ShowsTask(k[i], work[i])
          BY <4>1, <4>2 DEF SameCard, ShowsTask
        <4>4. PICK j \in DOMAIN desk.tasks : /\ desk.tasks[j].key = q.w.key /\ Raw(desk.tasks[j]) = Raw(k[i])
                                             /\ desk.tasks[j].id = k[i].id
          BY <3>2
        <4>5. k[i].id = q.w.id /\ desk.tasks[j].box.text = work[i].title /\ work[i].id = q.w.id
          BY <3>1, <4>3, <4>4 DEF ClickRight, Raw, ShowsTask
        <4>6. work[i].title[2] \in Nat
          BY <4>2, TitleIs DEF DeskInv, WorkRight, TasksRight, TaskRight
        <4>7. \A m \in DOMAIN work[i].steps : work[i].steps[m].ticked = q.w.value
          BY <4>2, <4>4, <4>5, <4>6 DEF StepRight
        <4>8. \A j2 \in DOMAIN work : work[j2].id = q.w.id => j2 = i
          BY <4>2, <4>5 DEF DeskInv, WorkRight, TasksRight
        <4> QED BY <4>3, <4>7, <4>8 DEF ShowsTask
      <3> QED BY <2>1, <3>3, <3>5, <3>6 DEF RequestRight
    <2>5. AskedBoard(q) => AskedBoard(q)'
      BY <1>1, <2>2 DEF AskedBoard
    <2> QED BY <2>1, <2>3, <2>4, <2>5 DEF RequestRight, Click, BoardKind
  <1>14. OneClick'
    BY <1>1 DEF DeskInv, OneClick
  <1>15. FormRight'
    <2>1. ASSUME NEW q \in sent', q.kind = "toggle", Answers(q), FormOpen PROVE FormTold(q)'
      <3>1. FormTold(q) /\ ClickRight(q)
        BY <1>1, <2>1 DEF DeskInv, FormRight, RequestRight, Click
      <3>2. OnPage(q.w.key)' => OnPage(q.w.key)
        <4>1. ASSUME NEW i \in DOMAIN k, k[i].key = q.w.key
              PROVE  \E j \in DOMAIN desk.tasks : desk.tasks[j].key = q.w.key
          BY <1>11, <3>1, <4>1 DEF ClickRight
        <4> QED BY <1>7, <4>1 DEF OnPage
      <3> QED BY <1>1, <3>1, <3>2 DEF FormTold
    <2> QED BY <1>1, <2>1 DEF DeskInv, FormRight, FormOpen
  <1>16. ListedRight' /\ WorkRight' /\ LedgerRight'
    BY <1>1 DEF DeskInv, ListedRight, WorkRight, LedgerRight
  <1>17. BoardsRight'
    BY <1>1, <1>7, <1>9 DEF DeskInv, BoardsRight
  <1>18. TasksShown'
    <2> SUFFICES ASSUME NoneSince' PROVE DOMAIN k = DOMAIN work /\ \A i \in DOMAIN work : TaskCard(k[i], work[i])'
      BY <1>1, <1>7 DEF TasksShown
    <2>1. r.tasks = Tasks /\ DOMAIN k = DOMAIN Tasks /\ \A i \in DOMAIN k : SameCard(k[i], Tasks[i])
      BY <1>5, <1>9 DEF Rekeyed
    <2>2. DOMAIN Tasks = DOMAIN work /\ \A i \in DOMAIN work : ShowsTask(Tasks[i], work[i])
      BY TasksAre DEF DeskInv
    <2>3. \A i \in DOMAIN work : ShowsTask(k[i], work[i])
      BY <2>1, <2>2 DEF SameCard, ShowsTask
    <2> QED BY <1>1, <2>1, <2>2, <2>3 DEF TaskCard, ShowsTask
  <1> QED BY <1>12, <1>13, <1>14, <1>15, <1>16, <1>17, <1>18 DEF DeskInv

\* An answer that changes no card.
LEMMA AnsweredQuietly ==
  ASSUME DeskInv, PageSame, NEW r \in sent, UNCHANGED <<boardFile, listed, ledger>>,
         sent' = sent \ {r} \/ sent' = (sent \ {r}) \cup {ReadNow}, sheet' = sheet \/ ~FormOpen',
         BoardsRight', Owes(r) => r.kind = "read" \/ ReadNow \in sent', r.kind # "read",
         ~(r.kind = "toggle" /\ Answers(r))
  PROVE  DeskInv'
  <1>1. OnDesk' /\ WorkRight' /\ LedgerRight' /\ (NoneSince' <=> NoneSince)
    BY SameDesk DEF DeskInv
  <1>2. PICK n : n = ReadNow
    OBVIOUS
  <1>3. n.kind = "read" /\ ReadDue(n) /\ RequestRight(n) /\ Owes(n)
    BY <1>2, ReadNowRight
  <1>4. \A q \in sent' : q \in sent \/ q = n
    BY <1>2
  <1>5. ASSUME NEW q \in sent' PROVE RequestRight(q)'
    <2>1. RequestRight(q)
      BY <1>3, <1>4 DEF DeskInv
    <2> QED BY <2>1, SameRequest DEF RequestRight
  <1>6. OneClick'
    BY <1>3, <1>4 DEF DeskInv, OneClick, Click
  <1>7. FormRight'
    <2>1. CASE ~FormOpen'
      BY <2>1 DEF FormRight
    <2>2. CASE sheet' = sheet
      <3>1. ASSUME NEW q \in sent', q.kind = "toggle", Answers(q), FormOpen PROVE FormTold(q)'
        <4>1. FormTold(q)
          BY <1>3, <1>4, <3>1 DEF DeskInv, FormRight
        <4> QED BY <2>2, <4>1, SameRequest
      <3> QED BY <2>2, <3>1 DEF DeskInv, FormRight, FormOpen, PageSame
    <2> QED BY <2>1, <2>2
  <1>8. ListedRight'
    BY DEF DeskInv, ListedRight
  <1>9. TasksShown'
    <2> SUFFICES ASSUME NoneSince, ~Due' PROVE TasksShown'
      BY <1>1 DEF TasksShown
    <2>1. ~Due
      <3> SUFFICES ASSUME NEW q \in sent, Owes(q) PROVE Due'
        BY DEF Due
      <3>1. CASE q = r
        <4>1. n \in sent'
          BY <1>2, <3>1
        <4> QED BY <1>3, <4>1 DEF Due, Owes, Answers
      <3>2. CASE q # r
        BY <3>2 DEF Due, Owes, Answers
      <3> QED BY <3>1, <3>2
    <2>2. \A y : TickOut(y) => TickOut(y)'
      BY DEF TickOut, Answers
    <2>3. DOMAIN desk.tasks = DOMAIN work /\ \A i \in DOMAIN work : TaskCard(desk.tasks[i], work[i])
      BY <2>1 DEF DeskInv, TasksShown
    <2> QED BY <2>2, <2>3 DEF TasksShown, TaskCard, PageSame, ShowsTask
  <1> QED BY <1>1, <1>5, <1>6, <1>7, <1>8, <1>9 DEF DeskInv

LEMMA BoardAnswerStays ==
  ASSUME DeskInv, NEW r \in sent, BoardAnswered(r)
  PROVE  DeskInv'
  <1>1. r.kind \in BoardKind /\ AskedBoard(r)
    BY DEF BoardAnswered, BoardKind, DeskInv, RequestRight
  <1>2. IsDesk(desk') /\ desk'.tasks = desk.tasks /\ desk'.keys = desk.keys /\ desk'.at = desk.at /\ desk'.board = r.board
    <2>1. PICK d, e : d = desk /\ e = desk'
      OBVIOUS
    <2>2. PICK t, ks, b, at, g, n : d = [tasks |-> t, keys |-> ks, board |-> b, at |-> at, goal |-> g, done |-> n]
      BY <2>1, DeskIs DEF DeskInv, OnDesk
    <2>3. e = [d EXCEPT !.board = r.board]
      BY <2>1 DEF BoardAnswered, ShowsSaved
    <2>4. e = [tasks |-> t, keys |-> ks, board |-> r.board, at |-> at, goal |-> g, done |-> n]
      BY <2>2, <2>3
    <2>5. IsDesk(e) /\ e.tasks = d.tasks /\ e.keys = d.keys /\ e.board = r.board /\ e.at = d.at
      BY <2>2, <2>4 DEF IsDesk
    <2> QED BY <2>1, <2>5
  <1>3. UNCHANGED <<work, boardFile, listed, ledger>>
    BY DEF BoardAnswered
  <1>4. PageSame
    BY <1>2, <1>3 DEF PageSame, DeskInv, LedgerRight
  <1>5. BoardsRight'
    BY <1>1, <1>2, <1>3 DEF BoardsRight, DeskInv, AskedBoard, NoneSince
  <1>6. sheet' = sheet \/ ~FormOpen'
    BY DEF BoardAnswered, FormOpen
  <1>7. sent' = sent \ {r} \/ sent' = (sent \ {r}) \cup {ReadNow}
    BY DEF BoardAnswered
  <1>8. ~Owes(r) /\ r.kind # "read" /\ r.kind # "toggle"
    BY <1>1 DEF Owes, BoardKind
  <1> QED BY <1>3, <1>4, <1>5, <1>6, <1>7, <1>8, AnsweredQuietly

\* An answer that puts in another card for the one that was clicked.
CardsAnswered(r, s) ==
  /\ r \in sent /\ r.kind \in {"toggle", "step"} /\ Answers(r) /\ sent' = sent \ {r}
  /\ UNCHANGED <<work, boardFile, sheet, listed, ledger>>
  /\ IsPut(desk', desk, s) /\ s = [i \in DOMAIN desk.tasks |-> s[i]]
  /\ \A i \in DOMAIN desk.tasks :
       IF desk.tasks[i].key # r.w.key THEN s[i] = desk.tasks[i]
       ELSE /\ CardRight(s[i], ledger.made) /\ s[i].id = desk.tasks[i].id /\ s[i].key = desk.tasks[i].key
            /\ NotNewer(s[i].id, s[i].box.text, work)
            /\ NoneSince => \A j \in DOMAIN work : work[j].id = s[i].id /\ (r.kind = "step" => ShowsTask(desk.tasks[i], work[j]))
                                => ShowsTask(s[i], work[j])

LEMMA CardAnswerStays ==
  ASSUME DeskInv, NEW r, NEW s, CardsAnswered(r, s)
  PROVE  DeskInv'
  <1>1. IsDesk(desk') /\ desk'.tasks = s /\ desk'.keys = desk.keys /\ desk'.at = desk.at /\ desk'.board = desk.board
    <2>1. PICK d, e : d = desk /\ e = desk'
      OBVIOUS
    <2>2. IsPut(e, d, s) /\ IsDesk(d)
      BY <2>1 DEF CardsAnswered, DeskInv, OnDesk
    <2> QED BY <2>1, <2>2, CardsPut
  <1>2. CardsRight(desk.tasks, ledger.made, work) /\ KeysRight(desk.tasks, desk.keys)
    BY DEF DeskInv, OnDesk
  <1>3. /\ DOMAIN s = DOMAIN desk.tasks /\ \A i \in DOMAIN desk.tasks : desk.tasks[i].key # r.w.key => s[i] = desk.tasks[i]
        /\ \A i \in DOMAIN desk.tasks : s[i].id = desk.tasks[i].id /\ s[i].key = desk.tasks[i].key
        /\ \A i \in DOMAIN desk.tasks : CardRight(s[i], ledger.made) /\ NotNewer(s[i].id, s[i].box.text, work)
    <2>1. DOMAIN s = DOMAIN desk.tasks
      BY DEF CardsAnswered
    <2>2. ASSUME NEW i \in DOMAIN desk.tasks
          PROVE  /\ desk.tasks[i].key # r.w.key => s[i] = desk.tasks[i]
                 /\ s[i].id = desk.tasks[i].id /\ s[i].key = desk.tasks[i].key
                 /\ CardRight(s[i], ledger.made) /\ NotNewer(s[i].id, s[i].box.text, work)
      <3>1. CASE desk.tasks[i].key # r.w.key
        BY <1>2, <3>1 DEF CardsAnswered, CardsRight
      <3>2. CASE desk.tasks[i].key = r.w.key
        BY <3>2 DEF CardsAnswered
      <3> QED BY <3>1, <3>2
    <2> QED BY <2>1, <2>2
  <1>4. CardsRight(s, ledger.made, work)
    <2>1. IsSeq(s)
      <3>1. PICK S : desk.tasks \in Seq(S)
        BY <1>2 DEF CardsRight, IsSeq
      <3>2. DOMAIN desk.tasks = 1 .. Len(desk.tasks) /\ Len(desk.tasks) \in Nat
        BY <3>1
      <3>3. PICK T : T = {s[i] : i \in DOMAIN desk.tasks}
        OBVIOUS
      <3>4. s \in [1 .. Len(desk.tasks) -> T]
        BY <3>2, <3>3 DEF CardsAnswered
      <3>5. s \in Seq(T)
        BY <3>2, <3>4
      <3> QED BY <3>5 DEF IsSeq
    <2> QED BY <1>2, <1>3, <2>1 DEF CardsRight
  <1>5. KeysRight(s, desk.keys)
    BY <1>2, <1>3 DEF KeysRight
  <1>6. UNCHANGED <<work, boardFile, sheet, listed, ledger>> /\ (NoneSince' <=> NoneSince)
    BY <1>1 DEF CardsAnswered, NoneSince
  <1>7. OnDesk' /\ WorkRight' /\ LedgerRight' /\ ListedRight'
    BY <1>1, <1>4, <1>5, <1>6 DEF DeskInv, OnDesk, WorkRight, LedgerRight, ListedRight
  <1>8. \A y : OnPage(y)' <=> OnPage(y)
    BY <1>1, <1>3 DEF OnPage
  <1>9. ASSUME NEW q \in sent' PROVE RequestRight(q)'
    <2>1. q \in sent /\ q # r /\ RequestRight(q) /\ r \in sent /\ r.kind \in Click
      BY DEF CardsAnswered, DeskInv, Click
    <2>2. ReadDue(q) => ReadDue(q)'
      <3>1. Tasks' = Tasks
        BY <1>6 DEF Tasks, TaskLine
      <3> QED BY <1>1, <1>6, <3>1 DEF ReadDue
    <2>3. AskedBoard(q) => AskedBoard(q)'
      BY <1>6 DEF AskedBoard
    <2>4. ASSUME q.kind \in Click
          PROVE  /\ ClickRight(q) => ClickRight(q)'
                 /\ ToggleRight(q) => ToggleRight(q)'
                 /\ StepRight(q) => StepRight(q)'
      <3>1. q.w.key # r.w.key
        BY <2>1, <2>4 DEF DeskInv, OneClick
      <3>2. \A i \in DOMAIN s : s[i].key = q.w.key => s[i] = desk.tasks[i]
        BY <1>3, <3>1
      <3>3. ClickRight(q) => ClickRight(q)'
        BY <1>1, <1>3, <3>2 DEF ClickRight
      <3>4. ToggleRight(q) => ToggleRight(q)'
        BY <1>1, <1>3, <1>6, <1>8, <3>2 DEF ToggleRight
      <3>5. StepRight(q) => StepRight(q)'
        BY <1>1, <1>3, <1>6, <3>2 DEF StepRight
      <3> QED BY <3>3, <3>4, <3>5
    <2> QED BY <2>1, <2>2, <2>3, <2>4 DEF RequestRight, Click, BoardKind
  <1>10. OneClick'
    BY DEF CardsAnswered, DeskInv, OneClick
  <1>11. FormRight'
    BY <1>6, <1>8 DEF CardsAnswered, DeskInv, FormRight, FormOpen, FormTold
  <1>12. BoardsRight'
    <2>1. BoardOut' <=> BoardOut
      BY DEF BoardOut, CardsAnswered, BoardKind
    <2> QED BY <1>1, <1>6, <2>1 DEF DeskInv, BoardsRight
  <1>13. TasksShown'
    <2> SUFFICES ASSUME NoneSince, ~Due' PROVE DOMAIN s = DOMAIN work /\ \A i \in DOMAIN work : TaskCard(s[i], work[i])'
      BY <1>1, <1>6 DEF TasksShown
    <2>1. ~Owes(r) /\ ~Due
      BY DEF CardsAnswered, Due, Owes, Answers
    <2>2. DOMAIN desk.tasks = DOMAIN work /\ \A i \in DOMAIN work : TaskCard(desk.tasks[i], work[i])
      BY <2>1 DEF DeskInv, TasksShown
    <2>3. \A y : TickOut(y) /\ y # r.w.key => TickOut(y)'
      BY DEF TickOut, CardsAnswered
    <2>4. ASSUME NEW i \in DOMAIN work, desk.tasks[i].key # r.w.key PROVE TaskCard(s[i], work[i])'
      BY <1>3, <1>6, <2>2, <2>3, <2>4 DEF TaskCard, ShowsTask
    <2>5. ASSUME NEW i \in DOMAIN work, desk.tasks[i].key = r.w.key PROVE TaskCard(s[i], work[i])'
      <3>1. work[i].id = s[i].id
        BY <1>3, <2>2 DEF TaskCard
      <3>2. r.kind = "step" => ~TickOut(desk.tasks[i].key)
        BY <2>5 DEF TickOut, CardsAnswered, DeskInv, OneClick, Click
      <3>3. r.kind = "step" => ShowsTask(desk.tasks[i], work[i])
        BY <2>2, <3>2 DEF TaskCard
      <3>4. ShowsTask(s[i], work[i])
        BY <2>2, <2>5, <3>1, <3>3 DEF CardsAnswered
      <3> QED BY <1>6, <3>1, <3>4 DEF TaskCard, ShowsTask
    <2> QED BY <1>3, <2>2, <2>4, <2>5
  <1> QED BY <1>7, <1>9, <1>10, <1>11, <1>12, <1>13 DEF DeskInv

LEMMA ToggleAnswers ==
  ASSUME DeskInv, NEW r \in sent, ClickAnswered(r), r.kind = "toggle", Answers(r)
  PROVE  DeskInv'
  <1>1. PICK c : c = r.o.card
    OBVIOUS
  <1>2. ToggleRight(r) /\ ClickRight(r) /\ TaskRight(c, ledger.made) /\ c.id = r.w.id /\ c.title = r.w.box.text
    BY <1>1 DEF DeskInv, RequestRight, Click, ToggleRight
  <1>3. PICK t : t = ReadTask(c, r.w.box.line)
    OBVIOUS
  <1>4. CardRight(t, ledger.made) /\ t.id = c.id /\ ShowsTask(t, c)
    BY <1>2, <1>3, ReadIs
  <1>5. PICK x : IsKeyed(x, t, r.w.key)
    BY DEF IsKeyed
  <1>6. IsCard(x) /\ SameCard(x, t) /\ x.key = r.w.key
    BY <1>4, <1>5, CardKeyed DEF CardRight
  <1>7. CardRight(x, ledger.made) /\ x.id = r.w.id /\ x.box.text = r.w.box.text /\ NotNewer(x.id, x.box.text, work)
        /\ ShowsTask(x, c)
    BY <1>2, <1>4, <1>6, SameRight DEF SameCard, ShowsTask, ToggleRight
  <1>8. PICK s : s = [i \in DOMAIN desk.tasks |-> IF i \in Cards(r.w) THEN x ELSE desk.tasks[i]]
    OBVIOUS
  <1>9. IsPut(desk', desk, s)
    <2>1. desk' = Updated(r.w, r.o)
      BY DEF ClickAnswered, Answers
    <2> QED BY <1>1, <1>3, <1>5, <1>8, <2>1 DEF Updated, IsPut, IsKeyed
  <1>10. sent' = sent \ {r} /\ UNCHANGED <<work, boardFile, sheet, listed, ledger>>
    BY DEF ClickAnswered, Answers
  <1>11. ASSUME NEW i \in DOMAIN desk.tasks
         PROVE  IF desk.tasks[i].key # r.w.key THEN s[i] = desk.tasks[i]
                ELSE /\ CardRight(s[i], ledger.made) /\ s[i].id = desk.tasks[i].id /\ s[i].key = desk.tasks[i].key
                     /\ NotNewer(s[i].id, s[i].box.text, work)
                     /\ NoneSince => \A j \in DOMAIN work : work[j].id = s[i].id => ShowsTask(s[i], work[j])
    <2>1. CASE desk.tasks[i].key # r.w.key
      BY <1>8, <2>1 DEF Cards
    <2>2. CASE desk.tasks[i].key = r.w.key
      <3>1. s[i] = x /\ desk.tasks[i].id = r.w.id
        BY <1>2, <1>8, <2>2 DEF Cards, ClickRight
      <3>2. ASSUME NoneSince, NEW j \in DOMAIN work, work[j].id = x.id PROVE work[j] = c
        <4>1. OnPage(r.w.key)
          BY <2>2 DEF OnPage
        <4>2. PICK m \in DOMAIN work : work[m] = c
          BY <1>1, <1>2, <3>2, <4>1 DEF ToggleRight
        <4> QED BY <1>2, <1>7, <3>2, <4>2 DEF DeskInv, WorkRight, TasksRight
      <3> QED BY <1>6, <1>7, <2>2, <3>1, <3>2
    <2> QED BY <2>1, <2>2
  <1>12. CardsAnswered(r, s)
    BY <1>8, <1>9, <1>10, <1>11 DEF CardsAnswered
  <1> QED BY <1>12, CardAnswerStays

IsStepped(y, c, z) == y = [c EXCEPT !.steps = z]
IsTicked(b, x, v) == b = [x EXCEPT !.ticked = v]

LEMMA SteppedIs ==
  ASSUME NEW c, IsCard(c), NEW z, NEW y, IsStepped(y, c, z)
  PROVE  IsCard(y) /\ y.id = c.id /\ y.key = c.key /\ y.goal = c.goal /\ y.box = c.box /\ y.steps = z
  <1>1. PICK i, k, g, b, s : c = [id |-> i, key |-> k, goal |-> g, box |-> b, steps |-> s]
    BY Zenon DEF IsCard
  <1>2. y = [id |-> i, key |-> k, goal |-> g, box |-> b, steps |-> z]
    BY <1>1 DEF IsStepped
  <1> QED BY <1>1, <1>2 DEF IsCard

LEMMA TickedIs ==
  ASSUME NEW x, IsBox(x), NEW v \in BOOLEAN, NEW b, IsTicked(b, x, v)
  PROVE  IsBox(b) /\ b.text = x.text
  <1>1. PICK l, t, k : x = [line |-> l, text |-> t, ticked |-> k]
    BY Zenon DEF IsBox
  <1>2. b = [line |-> l, text |-> t, ticked |-> v]
    BY <1>1 DEF IsTicked
  <1> QED BY <1>1, <1>2 DEF IsBox

LEMMA StepAnswers ==
  ASSUME DeskInv, NEW r \in sent, ClickAnswered(r), r.kind = "step", Answers(r)
  PROVE  DeskInv'
  <1>1. PICK w : w = r.w
    OBVIOUS
  <1>2. ClickRight(r) /\ StepRight(r) /\ IsBox(w.box) /\ w.value \in BOOLEAN /\ w.box.text = StepText(w.id)
    BY <1>1 DEF DeskInv, RequestRight, Click, ClickRight, WriteRight
  <1>3. PICK b : IsTicked(b, w.box, w.value)
    BY DEF IsTicked
  <1>4. IsBox(b) /\ b.text = StepText(w.id)
    BY <1>2, <1>3, TickedIs
  <1> DEFINE A == [shows |-> w.value, box |-> [w.box EXCEPT !.ticked = w.value]]
  <1>5. PICK a : a = A
    OBVIOUS
  <1>6. IsStepCard(a) /\ a.shows = w.value /\ a.box = b
    <2>1. a = [shows |-> w.value, box |-> b]
      BY <1>3, <1>5 DEF IsTicked
    <2> QED BY <2>1 DEF IsStepCard
  <1> DEFINE Z(c) == [k \in DOMAIN c.steps |-> IF c.steps[k].box.line # w.box.line THEN c.steps[k] ELSE A]
  <1>7. PICK s : s = [i \in DOMAIN desk.tasks |-> IF i \in Cards(w) THEN StepDone(w, desk.tasks[i]) ELSE desk.tasks[i]]
    OBVIOUS
  <1>8. IsPut(desk', desk, s)
    <2>1. desk' = StepUpdated(w)
      BY <1>1 DEF ClickAnswered, Answers
    <2>2. desk' = [desk EXCEPT !.tasks = [i \in DOMAIN desk.tasks |-> IF i \in Cards(w) THEN StepDone(w, desk.tasks[i]) ELSE desk.tasks[i]]]
      BY <2>1 DEF StepUpdated
    <2> QED BY <1>7, <2>2, Zenon DEF IsPut
  <1>9. sent' = sent \ {r} /\ UNCHANGED <<work, boardFile, sheet, listed, ledger>>
    BY DEF ClickAnswered, Answers
  <1>10. ASSUME NEW i \in DOMAIN desk.tasks, desk.tasks[i].key = w.key
         PROVE  /\ CardRight(s[i], ledger.made) /\ s[i].id = desk.tasks[i].id /\ s[i].key = desk.tasks[i].key
                /\ NotNewer(s[i].id, s[i].box.text, work)
                /\ NoneSince => \A j \in DOMAIN work : ShowsTask(desk.tasks[i], work[j]) => ShowsTask(s[i], work[j])
    <2>1. PICK c : c = desk.tasks[i]
      OBVIOUS
    <2>2. PICK y : y = StepDone(w, c)
      OBVIOUS
    <2>3. s[i] = y
      BY <1>7, <1>10, <2>1, <2>2 DEF Cards
    <2>4. PICK z : z = Z(c)
      OBVIOUS
    <2>5. CardRight(c, ledger.made) /\ c.id = w.id /\ NotNewer(c.id, c.box.text, work)
      BY <1>1, <1>2, <1>10, <2>1 DEF ClickRight, DeskInv, OnDesk, CardsRight
    <2>6. IsCard(y) /\ y.id = c.id /\ y.key = c.key /\ y.goal = c.goal /\ y.box = c.box /\ y.steps = z
      <3>1. IsStepped(y, c, z)
        BY <2>2, <2>4 DEF IsStepped, StepDone
      <3> QED BY <2>5, <3>1, SteppedIs DEF CardRight
    <2>7. /\ DOMAIN z = DOMAIN c.steps /\ z = [k \in DOMAIN z |-> z[k]]
          /\ \A k \in DOMAIN z : z[k] = a \/ z[k] = c.steps[k]
      BY <1>5, <2>4
    <2>8. StepCards(c.id, c.steps) /\ a.shows \in BOOLEAN /\ IsBox(a.box) /\ a.box.text = StepText(c.id)
      BY <1>2, <1>4, <1>6, <2>5 DEF CardRight
    <2>9. StepCards(c.id, z)
      BY <1>6, <2>7, <2>8 DEF StepCards
    <2>10. CardRight(y, ledger.made)
      BY <2>5, <2>6, <2>9 DEF CardRight
    <2>11. NoneSince => \A k \in DOMAIN c.steps : z[k].shows = c.steps[k].shows
      <3>1. NoneSince => \A k \in DOMAIN c.steps : c.steps[k].shows = w.value
        BY <1>1, <1>2, <1>10, <2>1 DEF StepRight
      <3> QED BY <1>6, <2>7, <3>1
    <2>12. NoneSince => \A j \in DOMAIN work : ShowsTask(c, work[j]) => ShowsTask(y, work[j])
      BY <2>6, <2>7, <2>11 DEF ShowsTask
    <2> QED BY <2>1, <2>3, <2>5, <2>6, <2>10, <2>12
  <1>11. \A i \in DOMAIN desk.tasks : desk.tasks[i].key # w.key => s[i] = desk.tasks[i]
    BY <1>7 DEF Cards
  <1>12. s = [i \in DOMAIN desk.tasks |-> s[i]]
    BY <1>7
  <1> HIDE DEF Z
  <1>13. CardsAnswered(r, s)
    BY <1>1, <1>8, <1>9, <1>10, <1>11, <1>12 DEF CardsAnswered
  <1> QED BY <1>13, CardAnswerStays

LEMMA AnswerStays ==
  ASSUME DeskInv, NEW r \in sent, ClickAnswered(r)
  PROVE  DeskInv'
  <1>1. CASE r.kind = "toggle" /\ Answers(r)
    BY <1>1, ToggleAnswers
  <1>2. CASE r.kind = "step" /\ Answers(r)
    BY <1>2, StepAnswers
  <1>3. CASE ~(r.kind \in {"toggle", "step"} /\ Answers(r))
    <2>1. desk' = desk /\ UNCHANGED <<work, boardFile, listed, ledger>> /\ r.kind # "read"
      BY <1>3 DEF ClickAnswered, Answers
    <2>2. PageSame
      BY <2>1 DEF PageSame, DeskInv, LedgerRight, OnDesk
    <2>3. r.kind \notin BoardKind
      BY DEF ClickAnswered, BoardKind
    <2>4. sent' = sent \ {r} \/ sent' = (sent \ {r}) \cup {ReadNow}
      BY DEF ClickAnswered
    <2>5. BoardsRight'
      <3>1. BoardOut => BoardOut'
        BY <2>3, <2>4 DEF BoardOut
      <3> QED BY <2>1, <3>1 DEF BoardsRight, DeskInv, NoneSince
    <2>6. sheet' = sheet \/ ~FormOpen'
      BY DEF ClickAnswered, FormOpen
    <2>7. Owes(r) => ReadNow \in sent'
      BY DEF ClickAnswered, Owes, Answers
    <2> QED BY <1>3, <2>1, <2>2, <2>4, <2>5, <2>6, <2>7, AnsweredQuietly
  <1> QED BY <1>1, <1>2, <1>3

-----------------------------------------------------------------------------
(* The desk.                                                               *)

LEMMA DeskStep == ASSUME ~Hurried, DeskInv, [Next]_vars PROVE DeskInv'
  <1>1. CASE UNCHANGED deskVars
    <2>1. IsDesk(desk) /\ IsListed(listed)
      BY DEF DeskInv, OnDesk, ListedRight
    <2> QED BY <1>1, <2>1, AgentLooks DEF deskVars
  <1>2. CASE PollTasks
    BY <1>2, PollStep
  <1>3. CASE CloseForm \/ OpenColumns \/ ListTasks \/ FetchBoard \/ FetchAgain
    BY <1>3, LookSteps
  <1>4. CASE SubmitForm
    BY <1>4, SaveStays
  <1>5. CASE SaveColumns
    BY <1>5, ColumnsStep
  <1>6. CASE SaveMilestones
    BY <1>6, MilestonesStep
  <1>7. ASSUME NEW i \in OnShow, Toggle(i) PROVE DeskInv'
    BY <1>7, ToggleStays DEF OnShow
  <1>8. ASSUME NEW i \in OnShow, DeleteTask(i) PROVE DeskInv'
    BY <1>8, DeleteStays DEF OnShow
  <1>9. ASSUME NEW i \in OnShow, OpenForm(desk.tasks[i]) PROVE DeskInv'
    BY <1>9, FormOpens DEF OnShow
  <1>10. ASSUME NEW i \in OnShow, NEW k \in DOMAIN desk.tasks[i].steps, ToggleStep(i, k) PROVE DeskInv'
    BY <1>10, StepStays DEF OnShow
  <1>11. CASE OpenForm(None)
    BY <1>11, FormOpens
  <1>12. ASSUME NEW goal, NEW done, Look(goal, done) \/ SearchTasks(goal, done) PROVE DeskInv'
    BY <1>12, LookSteps
  <1>13. ASSUME NEW r \in sent, BoardRead(r) \/ ClickAnswered(r) \/ BoardAnswered(r) PROVE DeskInv'
    BY <1>13, ReadStays, AnswerStays, BoardAnswerStays
  <1>14. CASE CreateTask
    BY <1>14, CreateStep
  <1>15. CASE UpdateMilestones
    BY <1>15, UpdateStep
  <1>16. ASSUME NEW t \in listed.tasks,
                \/ ToggleTask(t) \/ EditTask(t) \/ DeleteListed(t)
                \/ \E k \in DOMAIN t.steps : ToggleTaskStep(t, k)
                \/ \E done \in BOOLEAN : MoveTask(t, done)
                \/ \E goal \in Ids(boardFile.miles) \cup {None} : SetTaskField(t, goal)
         PROVE  DeskInv'
    BY <1>16, AgentSteps
  <1>17. DeskNext \/ UNCHANGED deskVars
    BY DeskSteps
  <1> QED
    BY <1>1, <1>2, <1>3, <1>4, <1>5, <1>6, <1>7, <1>8, <1>9, <1>10, <1>11, <1>12, <1>13, <1>14, <1>15, <1>16, <1>17 DEF DeskNext

LEMMA FirstMilestones == MilesRight({[id |-> <<title, 1>>, closed |-> FALSE] : title \in Goal})
  <1>1. PICK f : f = [title \in Goal |-> [id |-> <<title, 1>>, closed |-> FALSE]]
    OBVIOUS
  <1>2. PICK miles : miles = {[id |-> <<title, 1>>, closed |-> FALSE] : title \in Goal}
    OBVIOUS
  <1>3. f \in Surjection(Goal, miles)
    BY <1>1, <1>2 DEF Surjection
  <1>4. IsFiniteSet(miles)
    BY <1>3, FS_Surjection, GoalAssumption
  <1>5. \A m \in miles : \E title \in Goal : m = [id |-> <<title, 1>>, closed |-> FALSE]
    BY <1>2
  <1>6. \A m \in miles : IsMile(m) /\ m.closed = FALSE
    BY <1>5 DEF IsMile
  <1>7. ASSUME NEW m \in miles, NEW n \in miles, m.id = n.id PROVE m = n
    <2>1. PICK x \in Goal : m = [id |-> <<x, 1>>, closed |-> FALSE]
      BY <1>5
    <2>2. PICK y \in Goal : n = [id |-> <<y, 1>>, closed |-> FALSE]
      BY <1>5
    <2>3. <<x, 1>> = <<y, 1>>
      BY <1>7, <2>1, <2>2
    <2> QED BY <2>1, <2>2, <2>3
  <1> QED BY <1>2, <1>4, <1>6, <1>7 DEF MilesRight

LEMMA DeskStart == ASSUME Init PROVE DeskInv
  <1>0. DeskInit
    BY DEF Init
  <1>1. PICK a, b, e : /\ a = Task(1, Title(1, 1), FALSE, None, <<[text |-> StepText(1), ticked |-> FALSE]>>)
                       /\ b = Task(2, Title(2, 1), FALSE, None, <<>>)
                       /\ e = [text |-> StepText(1), ticked |-> FALSE]
    OBVIOUS
  <1>2. work = <<a, b>> /\ a.id = 1 /\ b.id = 2
    BY <1>0, <1>1 DEF DeskInit, Task
  <1>3. TaskRight(a, 2)
    <2>1. IsTask(a) /\ a.id = 1 /\ a.title = Title(1, 1) /\ a.done = FALSE /\ a.steps = <<e>>
      BY <1>1 DEF Task, IsTask
    <2>2. IsStep(e) /\ e.text = StepText(1) /\ e.ticked = FALSE
      BY <1>1 DEF IsStep
    <2>3. StepsOf(1, <<e>>)
      <3>1. PICK s : s = <<e>>
        OBVIOUS
      <3>2. s \in Seq({e}) /\ DOMAIN s = {1} /\ s[1] = e
        BY <3>1
      <3>3. s = [j \in DOMAIN s |-> s[j]]
        BY <3>2
      <3> QED BY <2>2, <3>1, <3>2, <3>3 DEF StepsOf
    <2>4. TitleOf(1, Title(1, 1))
      BY DEF TitleOf
    <2>5. TitleOf(a.id, a.title) /\ StepsOf(a.id, a.steps)
      BY <2>1, <2>3, <2>4, Zenon
    <2>6. a.id \in 1 .. 2
      BY <2>1
    <2>7. a.done \in BOOLEAN
      BY <2>1, Zenon
    <2> QED BY <2>1, <2>5, <2>6, <2>7 DEF TaskRight
  <1>4. TaskRight(b, 2)
    <2>1. IsTask(b) /\ b.id = 2 /\ b.title = Title(2, 1) /\ b.done = FALSE /\ b.steps = <<>>
      BY <1>1 DEF Task, IsTask
    <2>3. StepsOf(2, <<>>)
      BY DEF StepsOf
    <2>4. TitleOf(2, Title(2, 1))
      BY DEF TitleOf
    <2>5. TitleOf(b.id, b.title) /\ StepsOf(b.id, b.steps)
      BY <2>1, <2>3, <2>4, Zenon
    <2>6. b.id \in 1 .. 2
      BY <2>1
    <2>7. b.done \in BOOLEAN
      BY <2>1, Zenon
    <2> QED BY <2>1, <2>5, <2>6, <2>7 DEF TaskRight
  <1>5. PICK l : l = [others |-> 0, wanted |-> boardFile, made |-> 2, strayed |-> FALSE, rash |-> FALSE]
    OBVIOUS
  <1>6. ledger = l /\ IsLedger(l) /\ l.others = 0 /\ l.made = 2 /\ l.wanted = boardFile
    BY <1>0, <1>5 DEF DeskInit, IsLedger
  <1>7. WorkRight
    <2>1. work \in Seq({a, b}) /\ DOMAIN work = {1, 2} /\ work[1] = a /\ work[2] = b
      BY <1>2
    <2>2. IsSeq(work)
      BY <2>1 DEF IsSeq
    <2> QED BY <1>2, <1>3, <1>4, <1>6, <2>1, <2>2 DEF WorkRight, TasksRight
  <1>8. LedgerRight
    BY <1>6 DEF LedgerRight
  <1>9. CardsRight(Tasks, ledger.made, work) /\ DOMAIN Tasks = DOMAIN work
        /\ \A i \in DOMAIN work : Tasks[i].id = work[i].id /\ ShowsTask(Tasks[i], work[i])
    BY <1>7, TasksAre
  <1>10. DOMAIN Tasks = {1, 2} /\ DOMAIN Tasks = 1 .. Len(Tasks) /\ Len(Tasks) \in Nat
    BY <1>2, <1>9 DEF CardsRight, IsSeq
  <1>11. KeysUsed(<<>>, Tasks, 0) = Len(Tasks)
    BY <1>10 DEF KeysUsed, Counterparts
  <1>12. CardsRight(<<>>, ledger.made, work) /\ KeysRight(<<>>, 0)
    <2>1. <<>> \in Seq({})
      OBVIOUS
    <2> QED BY <2>1 DEF CardsRight, KeysRight, IsSeq
  <1>13. PICK k : k = Keyed(<<>>, Tasks, 0)
    OBVIOUS
  <1>14. CardsRight(k, ledger.made, work) /\ Rekeyed(<<>>, Tasks, 0, k, Len(Tasks))
    BY <1>9, <1>11, <1>12, <1>13, KeyedIs
  <1>15. /\ IsDesk(desk) /\ desk.tasks = k /\ desk.keys = Len(Tasks) /\ desk.board = boardFile /\ desk.at = 0
         /\ sheet = None /\ sent = {} /\ listed.tasks = {} /\ IsListed(listed)
    <2>1. desk = [tasks |-> k, keys |-> Len(Tasks), board |-> boardFile, at |-> 0, goal |-> None, done |-> TRUE]
      BY <1>0, <1>13 DEF DeskInit
    <2>2. PICK d : d = desk
      OBVIOUS
    <2>3. IsDesk(d) /\ d.tasks = k /\ d.keys = Len(Tasks) /\ d.board = boardFile /\ d.at = 0
      BY <2>1, <2>2 DEF IsDesk
    <2>4. listed = [tasks |-> {}, board |-> None]
      BY <1>0 DEF DeskInit
    <2> QED BY <1>0, <2>2, <2>3, <2>4 DEF DeskInit, IsListed
  <1>16. OnDesk
    BY <1>6, <1>14, <1>15 DEF OnDesk, Rekeyed
  <1>17. BoardRight(boardFile)
    <2>1. PICK miles : miles = {[id |-> <<title, 1>>, closed |-> FALSE] : title \in Goal}
      OBVIOUS
    <2>2. boardFile = [cols |-> 0, miles |-> miles] /\ MilesRight(miles)
      BY <1>0, <2>1, FirstMilestones DEF DeskInit
    <2>3. PICK d : d = boardFile
      OBVIOUS
    <2>4. IsBoard(d) /\ d.miles = miles
      BY <2>2, <2>3 DEF IsBoard
    <2> QED BY <2>2, <2>3, <2>4 DEF BoardRight
  <1>18. TasksShown
    <2>1. \A i \in DOMAIN k : SameCard(k[i], Tasks[i])
      BY <1>14 DEF Rekeyed
    <2> QED BY <1>9, <1>14, <1>15, <2>1 DEF TasksShown, TaskCard, ShowsTask, SameCard, Rekeyed
  <1> QED BY <1>6, <1>7, <1>8, <1>15, <1>16, <1>17, <1>18
       DEF DeskInv, OneClick, FormRight, FormOpen, ListedRight, BoardsRight

LEMMA DeskMean == ASSUME DeskInv PROVE DeskRight
  <1>1. NoneStrays /\ ClosedWhole
    <2>1. PICK l : l = ledger
      OBVIOUS
    <2>2. IsLedger(l)
      BY <2>1 DEF DeskInv, LedgerRight
    <2>3. l.strayed = FALSE /\ l.rash = FALSE
      <3>1. PICK a, b, c : l = [others |-> a, wanted |-> b, made |-> c, strayed |-> FALSE, rash |-> FALSE]
        BY <2>2, LedgerIs
      <3> QED BY <3>1
    <2> QED BY <2>1, <2>3 DEF NoneStrays, ClosedWhole
  <1>2. BoardKept
    BY DEF DeskInv, BoardsRight, BoardKept
  <1>3. PageAgrees
    <2> SUFFICES ASSUME sent = {}, NoneSince
                 PROVE  /\ [i \in DOMAIN desk.tasks |-> Seen(desk.tasks[i])] = [i \in DOMAIN work |-> Seen(Tasks[i])]
                        /\ desk.board = boardFile
      BY DEF PageAgrees, AllSeen, NoneSince
    <2>1. DOMAIN desk.tasks = DOMAIN work /\ \A i \in DOMAIN work : ShowsTask(desk.tasks[i], work[i])
      BY DEF DeskInv, TasksShown, Due, TaskCard, TickOut
    <2>2. \A i \in DOMAIN work : ShowsTask(Tasks[i], work[i])
      BY TasksAre DEF DeskInv
    <2>3. ASSUME NEW i \in DOMAIN work PROVE Seen(desk.tasks[i]) = Seen(Tasks[i])
      <3>1. PICK c, d, t : c = desk.tasks[i] /\ d = Tasks[i] /\ t = work[i]
        OBVIOUS
      <3>2. ShowsTask(c, t) /\ ShowsTask(d, t)
        BY <2>1, <2>2, <3>1
      <3>3. [k \in DOMAIN c.steps |-> c.steps[k].shows] = [k \in DOMAIN d.steps |-> d.steps[k].shows]
        BY <3>2 DEF ShowsTask
      <3> QED BY <3>1, <3>2, <3>3 DEF Seen, ShowsTask
    <2>4. desk.board = boardFile
      BY DEF DeskInv, BoardsRight, BoardOut
    <2> QED BY <2>1, <2>3, <2>4
  <1> QED BY <1>1, <1>2, <1>3 DEF DeskRight

\* DeskRight for any tasks, milestones, goals and people (KanbanBoard.jsx, tasks.go, boards.go,
\* the MCP tools), as long as nobody acts while the page is reading: a write of the page's or
\* of an agent's changes the task it was meant for and no other, the board keeps what was
\* written, and a page that waits for nothing shows the notes as they are.
THEOREM DeskHolds == ASSUME ~Hurried PROVE Spec => []DeskRight
  <1>1. Init => DeskInv
    BY DeskStart
  <1>2. DeskInv /\ [Next]_vars => DeskInv'
    BY DeskStep
  <1>3. DeskInv => DeskRight
    BY DeskMean
  <1> QED BY <1>1, <1>2, <1>3, PTL DEF Spec

\* RequestsLand for any notes, tasks, people, namespaces and repositories, as long as nobody
\* hurries (App.jsx, KanbanBoard.jsx, CommentSidebar.jsx, AdminGit.jsx with the handlers they
\* call): what is asked for reaches what was meant, wherever it has moved, and nothing else.
THEOREM RequestsHold == ASSUME ~Hurried PROVE Spec => []RequestsLand
  <1>1. Spec => []PlacesRight
    BY PlacesHold
  <1>2. Spec => []DeskRight
    BY DeskHolds
  <1>3. Spec => []BackupsRight
    BY BackupsHold
  <1>4. Spec => []RemarksRight
    BY RemarksHold
  <1>5. PlacesRight /\ DeskRight /\ BackupsRight /\ RemarksRight => RequestsLand
    BY DEF RequestsLand
  <1> QED BY <1>1, <1>2, <1>3, <1>4, <1>5, PTL

=============================================================================
