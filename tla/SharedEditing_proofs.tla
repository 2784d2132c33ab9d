-------------------------- MODULE SharedEditing_proofs --------------------------
(***************************************************************************)
(* What holds of the tabs of a note and its room for any tabs, sockets,    *)
(* plans and texts: a tab shows what the room's document says, and has all *)
(* of it once its queue is empty. One lemma says what each frame, mail and *)
(* part of a session's step does to the invariant, one what each action    *)
(* does.                                                                   *)
(***************************************************************************)
EXTENDS SharedEditing, FiniteSetTheorems, SequenceTheorems, TLAPS

-----------------------------------------------------------------------------
(* The frames of a step, one after the other.                              *)

\* Induction up to m, in its first-order form: a counterexample that has no
\* smaller one cannot be.
LEMMA CountUp ==
  ASSUME NEW m \in Nat, NEW G, 0 \in G, \A k \in 0..(m - 1) : k \in G => k + 1 \in G
  PROVE  m \in G
  <1> DEFINE Bad == {k \in 0..m : k \notin G}
             Up(k) == 0..k
             R == StrictSubsetOrdering(0..m)
             T == {Up(k) : k \in Bad}
  <1>1. SUFFICES ASSUME Bad # {} PROVE FALSE
    OBVIOUS
  <1>2. IsWellFoundedOn(R, SUBSET (0..m))
    <2>1. IsFiniteSet(0..m)
      BY FS_Interval
    <2> QED  BY <2>1, FS_StrictSubsetOrderingWellFounded, FS_FiniteSubsetsOfFinite
  <1>3. PICK S \in T : \A U \in T : <<U, S>> \notin R
    <2> HIDE DEF R
    <2>1. T \subseteq SUBSET (0..m) /\ T # {}
      BY <1>1
    <2> HIDE DEF T
    <2> QED  BY <1>2, <2>1, WFMin
  <1>4. PICK k \in Bad : S = Up(k)
    BY <1>3
  <1>5. k # 0 /\ k - 1 \in Bad
    OBVIOUS
  <1>6. Up(k - 1) \in SUBSET (0..m) /\ Up(k) \in SUBSET (0..m) /\ Up(k - 1) \subseteq Up(k) /\ Up(k - 1) # Up(k)
    <2>1. k \in Up(k) /\ k \notin Up(k - 1)
      OBVIOUS
    <2> QED  BY <2>1
  <1>7. Up(k - 1) \in T
    BY <1>5
  <1> HIDE DEF T, Up
  <1>8. <<Up(k - 1), Up(k)>> \in R
    BY <1>6 DEF StrictSubsetOrdering
  <1> QED  BY <1>3, <1>4, <1>7, <1>8

\* f is what the room has made of the first m frames.
Follows(f, m, n, c, out, quiet) ==
  f = [k \in 0..m |-> IF k = 0 THEN n ELSE Handled(f[k - 1], c, out[k], quiet)]

\* What the room makes of k frames does not depend on those after.
LEMMA FollowsSame ==
  ASSUME NEW n, NEW c, NEW quiet, NEW out, NEW more, NEW m \in Nat, NEW l \in Nat, NEW f, NEW g,
         Follows(f, m, n, c, out, quiet), Follows(g, l, n, c, more, quiet),
         NEW k \in Nat, k <= m, k <= l, \A i \in 1..k : out[i] = more[i]
  PROVE  f[k] = g[k]
  <1> DEFINE G == {i \in 0..k : f[i] = g[i]}
  <1>1. /\ \A i \in 0..m : f[i] = IF i = 0 THEN n ELSE Handled(f[i - 1], c, out[i], quiet)
        /\ \A i \in 0..l : g[i] = IF i = 0 THEN n ELSE Handled(g[i - 1], c, more[i], quiet)
    BY DEF Follows
  <1>2. 0 \in G
    BY <1>1
  <1>3. ASSUME NEW i \in 0..(k - 1), i \in G PROVE i + 1 \in G
    <2>1. i + 1 \in 0..m /\ i + 1 \in 0..l /\ i + 1 \in 1..k /\ (i + 1) - 1 = i /\ i + 1 # 0
      OBVIOUS
    <2>2. f[i + 1] = Handled(f[i], c, out[i + 1], quiet) /\ g[i + 1] = Handled(g[i], c, more[i + 1], quiet)
      BY <1>1, <2>1
    <2> QED  BY <1>3, <2>1, <2>2
  <1> HIDE DEF G
  <1>4. k \in G
    BY <1>2, <1>3, CountUp
  <1> QED  BY <1>4 DEF G

LEMMA FollowsExist ==
  ASSUME NEW n, NEW c, NEW quiet, NEW out, NEW m \in Nat
  PROVE  \E f : Follows(f, m, n, c, out, quiet)
  <1> DEFINE G == {k \in 0..m : \E f : Follows(f, k, n, c, out, quiet)}
  <1>1. 0 \in G
    <2> DEFINE f == [k \in 0..0 |-> n]
    <2>1. Follows(f, 0, n, c, out, quiet)
      BY DEF Follows
    <2> QED  BY <2>1
  <1>2. ASSUME NEW k \in 0..(m - 1), k \in G PROVE k + 1 \in G
    <2>1. PICK f : Follows(f, k, n, c, out, quiet)
      BY <1>2
    <2>2. \A i \in 0..k : f[i] = IF i = 0 THEN n ELSE Handled(f[i - 1], c, out[i], quiet)
      BY <2>1 DEF Follows
    <2> DEFINE g == [i \in 0..(k + 1) |-> IF i = k + 1 THEN Handled(f[k], c, out[k + 1], quiet) ELSE f[i]]
    <2>3. \A i \in 0..(k + 1) : g[i] = IF i = 0 THEN n ELSE Handled(g[i - 1], c, out[i], quiet)
      <3> SUFFICES ASSUME NEW i \in 0..(k + 1)
                   PROVE  g[i] = IF i = 0 THEN n ELSE Handled(g[i - 1], c, out[i], quiet)
        OBVIOUS
      <3>1. CASE i = k + 1
        <4>1. g[i] = Handled(f[k], c, out[k + 1], quiet) /\ g[k] = f[k] /\ i - 1 = k /\ i # 0
          BY <3>1
        <4> HIDE DEF g
        <4> QED  BY <3>1, <4>1
      <3>2. CASE i # k + 1
        <4>1. i \in 0..k /\ g[i] = f[i] /\ (i # 0 => g[i - 1] = f[i - 1])
          BY <3>2
        <4> HIDE DEF g
        <4> QED  BY <2>2, <4>1
      <3> QED  BY <3>1, <3>2
    <2>4. g = [i \in 0..(k + 1) |-> g[i]]
      OBVIOUS
    <2> HIDE DEF g
    <2>5. Follows(g, k + 1, n, c, out, quiet)
      BY <2>3, <2>4 DEF Follows
    <2> QED  BY <2>5
  <1> HIDE DEF G
  <1>3. m \in G
    BY <1>1, <1>2, CountUp
  <1> QED  BY <1>3 DEF G

LEMMA AllHandledIs ==
  ASSUME NEW n, NEW c, NEW quiet, NEW out, Len(out) \in Nat
  PROVE  \E f : Follows(f, Len(out), n, c, out, quiet) /\ AllHandled(n, c, out, quiet) = f[Len(out)]
  <1> DEFINE f == CHOOSE f : Follows(f, Len(out), n, c, out, quiet)
  <1>1. Follows(f, Len(out), n, c, out, quiet)
    BY FollowsExist
  <1>2. AllHandled(n, c, out, quiet) = f[Len(out)]
    BY DEF AllHandled, Follows
  <1> QED  BY <1>1, <1>2

LEMMA NoneHandled ==
  ASSUME NEW n, NEW c, NEW quiet
  PROVE  AllHandled(n, c, <<>>, quiet) = n
  <1>1. PICK f : Follows(f, 0, n, c, <<>>, quiet) /\ AllHandled(n, c, <<>>, quiet) = f[0]
    BY AllHandledIs
  <1> QED  BY <1>1 DEF Follows

\* A step that sends one more frame.
LEMMA OneMoreHandled ==
  ASSUME NEW n, NEW c, NEW quiet, NEW S, NEW out \in Seq(S), NEW x \in S
  PROVE  AllHandled(n, c, Append(out, x), quiet) = Handled(AllHandled(n, c, out, quiet), c, x, quiet)
  <1> DEFINE m == Len(out)
             more == Append(out, x)
  <1>1. m \in Nat /\ Len(more) = m + 1 /\ m + 1 \in Nat /\ more[m + 1] = x /\ \A i \in 1..m : out[i] = more[i]
    OBVIOUS
  <1> HIDE DEF more
  <1>2. PICK f : Follows(f, m, n, c, out, quiet) /\ AllHandled(n, c, out, quiet) = f[m]
    BY AllHandledIs
  <1> HIDE DEF m
  <1>3. PICK g : Follows(g, m + 1, n, c, more, quiet) /\ AllHandled(n, c, more, quiet) = g[m + 1]
    <2>1. Len(more) \in Nat
      BY <1>1
    <2>2. \E g : Follows(g, Len(more), n, c, more, quiet) /\ AllHandled(n, c, more, quiet) = g[Len(more)]
      BY <2>1, AllHandledIs
    <2> QED  BY <1>1, <2>2
  <1>4. f[m] = g[m]
    <2>1. m <= m /\ m <= m + 1 /\ m \in Nat /\ m + 1 \in Nat
      BY <1>1
    <2>2. Follows(f, m, n, c, out, quiet) /\ Follows(g, m + 1, n, c, more, quiet)
      BY <1>2, <1>3
    <2>3. \A i \in 1..m : out[i] = more[i]
      BY <1>1
    <2> HIDE <1>1, <1>2, <1>3
    <2> QED  BY <2>1, <2>2, <2>3, FollowsSame
  <1>5. g[m + 1] = Handled(g[m], c, x, quiet)
    <2>1. m + 1 \in 0..(m + 1) /\ m + 1 # 0 /\ (m + 1) - 1 = m
      BY <1>1
    <2> QED  BY <1>1, <1>3, <2>1 DEF Follows
  <1> QED  BY <1>2, <1>3, <1>4, <1>5 DEF more

-----------------------------------------------------------------------------
(* What is written into a document is what it says.                        *)

\* No item of d was made under the id x.
Unused(d, x) == \A i \in d : "by" \in DOMAIN i => i.by # x

\* Only items that say nothing about the text.
Meta(items) == \A i \in items : "put" \notin DOMAIN i /\ "cut" \notin DOMAIN i /\ "by" \notin DOMAIN i

\* A document in which `by` is new says what is written into it.
LEMMA TextWritten ==
  ASSUME NEW d, NEW text, NEW by, Unused(d, by)
  PROVE  Text(d \cup Rewrite(d, text, by)) = text
  <1> DEFINE r == Rewrite(d, text, by)
             w == d \cup r
  <1>1. \A p, b : /\ DOMAIN Inserted(p, b) = {"put", "by"} /\ Inserted(p, b).put = p /\ Inserted(p, b).by = b
                  /\ DOMAIN Deleted(p, b) = {"cut", "by"} /\ Deleted(p, b).cut = p /\ Deleted(p, b).by = b
    BY DEF Inserted, Deleted
  <1>2. \A i \in r : \/ \E p \in text \ Text(d) : i = Inserted(p, by)
                     \/ \E j \in Shown(d) : j.put \notin text /\ i = Deleted(j.put, j.by)
    <2> DEFINE ins == {Inserted(p, by) : p \in text \ Text(d)}
               del == {Deleted(j.put, j.by) : j \in {j \in Shown(d) : j.put \notin text}}
    <2>1. r = ins \cup del
      BY DEF Rewrite
    <2>2. /\ \A i \in ins : \E p \in text \ Text(d) : i = Inserted(p, by)
          /\ \A i \in del : \E j \in Shown(d) : j.put \notin text /\ i = Deleted(j.put, j.by)
      OBVIOUS
    <2> HIDE DEF r, ins, del
    <2> QED  BY <2>1, <2>2
  <1>3. /\ \A p \in text \ Text(d) : Inserted(p, by) \in r
        /\ \A j \in Shown(d) : j.put \notin text => Deleted(j.put, j.by) \in r
    BY DEF Rewrite
  <1> HIDE DEF r
  <1>4. \A i : i \in Shown(d) <=> i \in d /\ "put" \in DOMAIN i /\ Deleted(i.put, i.by) \notin d
    BY DEF Shown, Has
  <1>5. \A i : i \in Shown(w) <=> i \in w /\ "put" \in DOMAIN i /\ Deleted(i.put, i.by) \notin w
    BY DEF Shown, Has
  <1>6. \A p : p \in Text(d) <=> \E i \in Shown(d) : p = i.put
    BY DEF Text
  <1>7. \A p : p \in Text(w) <=> \E i \in Shown(w) : p = i.put
    BY DEF Text
  <1>8. ASSUME NEW i \in Shown(w) PROVE i.put \in text
    <2>1. CASE i \in d
      <3>1. i \in Shown(d)
        BY <1>4, <1>5, <1>8, <2>1
      <3> QED  BY <1>3, <1>5, <1>8, <3>1
    <2>2. CASE i \in r
      BY <1>1, <1>2, <1>5, <1>8, <2>2
    <2> QED  BY <1>5, <1>8, <2>1, <2>2
  <1>9. ASSUME NEW p \in text PROVE p \in Text(w)
    <2>1. CASE p \in Text(d)
      <3>1. PICK i \in Shown(d) : p = i.put
        BY <1>6, <2>1
      <3>2. i \in d /\ "put" \in DOMAIN i /\ Deleted(i.put, i.by) \notin d
        BY <1>4, <3>1
      <3>3. Deleted(i.put, i.by) \notin r
        <4>1. SUFFICES ASSUME Deleted(i.put, i.by) \in r PROVE FALSE
          OBVIOUS
        <4>2. CASE \E x \in text \ Text(d) : Deleted(i.put, i.by) = Inserted(x, by)
          BY <1>1, <4>2
        <4>3. CASE \E j \in Shown(d) : j.put \notin text /\ Deleted(i.put, i.by) = Deleted(j.put, j.by)
          <5>1. PICK j \in Shown(d) : j.put \notin text /\ Deleted(i.put, i.by) = Deleted(j.put, j.by)
            BY <4>3
          <5>2. j.put = i.put
            BY <1>1, <5>1
          <5> QED  BY <1>9, <3>1, <5>1, <5>2
        <4> QED  BY <1>2, <4>1, <4>2, <4>3
      <3> QED  BY <1>5, <1>7, <3>1, <3>2, <3>3
    <2>2. CASE p \notin Text(d)
      <3> DEFINE i == Inserted(p, by)
      <3>1. i \in w /\ "put" \in DOMAIN i /\ i.put = p /\ i.by = by
        BY <1>1, <1>3, <1>9, <2>2
      <3> HIDE DEF i
      <3>2. Deleted(p, by) \notin d
        BY <1>1 DEF Unused
      <3>3. Deleted(p, by) \notin r
        <4>1. SUFFICES ASSUME Deleted(p, by) \in r PROVE FALSE
          OBVIOUS
        <4>2. CASE \E x \in text \ Text(d) : Deleted(p, by) = Inserted(x, by)
          BY <1>1, <4>2
        <4>3. CASE \E j \in Shown(d) : j.put \notin text /\ Deleted(p, by) = Deleted(j.put, j.by)
          <5>1. PICK j \in Shown(d) : Deleted(p, by) = Deleted(j.put, j.by)
            BY <4>3
          <5>2. j.put = p /\ j.by = by /\ j \in d
            BY <1>1, <1>4, <5>1
          <5>3. j.put \in Text(d)
            BY <1>6
          <5> QED  BY <2>2, <5>2, <5>3
        <4> QED  BY <1>2, <4>1, <4>2, <4>3
      <3> QED  BY <1>5, <1>7, <3>1, <3>2, <3>3
    <2> QED  BY <2>1, <2>2
  <1>10. Text(w) \subseteq text
    BY <1>7, <1>8
  <1>11. text \subseteq Text(w)
    BY <1>9
  <1>12. Text(w) = text
    BY <1>10, <1>11
  <1> QED  BY <1>12 DEF r

\* What is agreed about the file does not change the text.
LEMMA TextMeta ==
  ASSUME NEW d, NEW items, Meta(items)
  PROVE  Text(d \cup items) = Text(d)
  <1>1. \A p, b : "cut" \in DOMAIN Deleted(p, b)
    BY DEF Deleted
  <1>2. \A p, b : Deleted(p, b) \notin items
    BY <1>1 DEF Meta
  <1>3. Shown(d \cup items) = Shown(d)
    BY <1>2 DEF Shown, Has, Meta
  <1> QED  BY <1>3 DEF Text

LEMMA AgreeMeta ==
  ASSUME NEW d, NEW c, NEW base, NEW md, NEW dirty
  PROVE  Meta(Agree(d, c, base, md, dirty))
  <1> SUFFICES ASSUME NEW i \in Agree(d, c, base, md, dirty)
               PROVE  "put" \notin DOMAIN i /\ "cut" \notin DOMAIN i /\ "by" \notin DOMAIN i
    BY DEF Meta
  <1>1. \/ \E at : i = [base |-> base, at |-> at]
        \/ \E at : i = [unset |-> at]
        \/ \E at : i = [md |-> md, at |-> at]
        \/ \E at : i = [dirty |-> dirty, at |-> at]
    BY DEF Agree
  <1> QED  BY <1>1

-----------------------------------------------------------------------------
(* A tab that has the document D, has read up to number k and has the      *)
(* queue q before it is in step with the log: what has arrived, by then    *)
(* and at every message to come, and the entries above its number together *)
(* are all there is, and at the end of the queue nothing is missing.       *)

RoomFields  == {"members", "own", "log", "bytes", "seq", "seeded", "seeder", "saver", "compacted",
                "snapSeq", "asked", "grace", "watch", "stuck"}
EntryFields == {"seq", "size", "from", "uid", "own", "saved", "body"}
TabFields   == {"open", "leaving", "sock", "editor", "base", "etag", "start", "app", "doc", "lastSeq",
                "ownSent", "ready", "seed", "saver", "bound", "due", "job", "check", "join"}

MessageTypes == {"joined", "update", "seed", "role", "compact"}

IsSequence(q) == q \in Seq({q[i] : i \in DOMAIN q})
Brings(m)     == m.type \in {"joined", "update"}

Above(log, k)     == {e \in log : e.seq > k}
Covers(log, D, k) == Items(log) \subseteq D \cup Items(Above(log, k))
Arrived(D, q, i)  == D \cup UNION {q[j].body : j \in {x \in DOMAIN q : x <= i /\ Brings(q[x])}}

InStep(r, D, k, q) ==
  /\ k \in Nat /\ k <= r.seq /\ Covers(r.log, D, k)
  /\ \A i \in DOMAIN q :
       Brings(q[i]) => q[i].seq \in Nat /\ q[i].seq <= r.seq /\ Covers(r.log, Arrived(D, q, i), q[i].seq)
  /\ Arrived(D, q, Len(q)) = Items(r.log)

RoomInv(r) ==
  /\ DOMAIN r = RoomFields /\ r.seq \in Nat
  /\ \A e \in r.log : DOMAIN e = EntryFields /\ e.seq \in Nat /\ e.seq <= r.seq
  /\ Covers(r.log, {}, 0)

NetInv(n) ==
  /\ DOMAIN n = {"room", "used", "up", "down"}
  /\ n.up \subseteq n.used /\ n.used \subseteq Conn /\ DOMAIN n.down = Conn
  /\ \A c \in Conn : IsSequence(n.down[c]) /\ (c \notin n.up => n.down[c] = <<>>)
  /\ n.room # None => RoomInv(n.room) /\ n.room.members \subseteq n.used

\* Only the first message of a queue brings a whole document, to a tab that
\* has none yet.
JoinsFirst(n, b) ==
  b.sock \in Conn => \A i \in DOMAIN n.down[b.sock] : n.down[b.sock][i].type = "joined" => i = 1 /\ ~b.ready

TabInv(n, b) ==
  /\ DOMAIN b = TabFields /\ b.ownSent \in Nat /\ b.sock \in n.used \cup {None}
  /\ b.bound => b.ready
  /\ b.sock = None => b.doc = {} /\ b.lastSeq = 0 /\ ~b.ready
  /\ ~b.open => b.sock = None
  /\ b.job # None => b.job.sock # None
  /\ JoinsFirst(n, b)
  /\ b.sock \in n.up /\ n.room # None /\ b.sock \in n.room.members =>
       InStep(n.room, b.doc, b.lastSeq, n.down[b.sock])

\* An item that some tab, the room or a queue has.
Known(n, tb, i) ==
  \/ \E t \in Tab : i \in tb[t].doc
  \/ n.room # None /\ i \in Items(n.room.log)
  \/ \E c \in Conn : \E j \in DOMAIN n.down[c] : Brings(n.down[c][j]) /\ i \in n.down[c][j].body

\* Its id is one that its author has used.
Minted(n, tb, i) ==
  "put" \in DOMAIN i \/ "by" \in DOMAIN i =>
    /\ "by" \in DOMAIN i /\ i.by[1] \in n.used /\ i.by[2] \in Nat
    /\ \A t \in Tab : tb[t].sock = i.by[1] => i.by[2] <= tb[t].ownSent

AllMinted(n, tb) == \A i : Known(n, tb, i) => Minted(n, tb, i)

\* A queue holds what the room can say.
Spoken(n) == \A c \in Conn : \A i \in DOMAIN n.down[c] : n.down[c][i].type \in MessageTypes

\* A socket is one tab's.
OwnSockets(tb) == \A t, u \in Tab : tb[t].sock = tb[u].sock /\ tb[t].sock # None => t = u

Inv(n, tb) ==
  /\ NetInv(n) /\ Spoken(n)
  /\ DOMAIN tb = Tab
  /\ \A t \in Tab : TabInv(n, tb[t])
  /\ OwnSockets(tb)
  /\ AllMinted(n, tb)

-----------------------------------------------------------------------------
(* Logs.                                                                   *)

\* Two logs with the same items, as far as anybody can tell.
SameLog(new, old) == /\ Items(new) = Items(old)
                     /\ \A k \in Nat : Items(Above(old, k)) \subseteq Items(Above(new, k))

LEMMA ItemsOf == \A log, i : i \in Items(log) <=> \E e \in log : i \in e.body
  BY DEF Items

LEMMA SameCovers ==
  ASSUME NEW new, NEW old, SameLog(new, old), NEW D, NEW k \in Nat, Covers(old, D, k)
  PROVE  Covers(new, D, k)
  BY DEF SameLog, Covers

LEMMA InStepSame ==
  ASSUME NEW r, NEW s, SameLog(s.log, r.log), r.seq = s.seq, NEW D, NEW k, NEW q, InStep(r, D, k, q)
  PROVE  InStep(s, D, k, q)
  <1>1. \A X, j : j \in Nat /\ Covers(r.log, X, j) => Covers(s.log, X, j)
    BY SameCovers
  <1>2. Items(s.log) = Items(r.log)
    BY DEF SameLog
  <1> QED  BY <1>1, <1>2 DEF InStep

\* yjs-saved marks entries.
LEMMA MarkedLog ==
  ASSUME NEW r, RoomInv(r), NEW c, NEW recv, NEW own
  PROVE  LET m == MarkedSaved(r, c, recv, own)
         IN  RoomInv(m) /\ m.members = r.members /\ m.seq = r.seq /\ SameLog(m.log, r.log)
  <1> DEFINE m == MarkedSaved(r, c, recv, own)
             F == [e \in r.log |-> [e EXCEPT !.saved = @ \/ Confirms(e, c, recv, own)]]
  <1>1. /\ DOMAIN m = RoomFields /\ m.members = r.members /\ m.seq = r.seq /\ m.log = {F[e] : e \in r.log}
    BY DEF MarkedSaved, RoomInv, RoomFields
  <1>2. ASSUME NEW e \in r.log PROVE DOMAIN F[e] = EntryFields /\ F[e].seq = e.seq /\ F[e].body = e.body
    BY DEF RoomInv, EntryFields
  <1> HIDE DEF m, F
  <1>0. (\A e \in r.log : F[e] \in m.log) /\ (\A x \in m.log : \E e \in r.log : x = F[e])
    BY <1>1
  <1>3. Items(m.log) = Items(r.log)
    <2>1. ASSUME NEW i \in Items(m.log) PROVE i \in Items(r.log)
      BY <1>0, <1>2, ItemsOf
    <2>2. ASSUME NEW i \in Items(r.log) PROVE i \in Items(m.log)
      BY <1>0, <1>2, ItemsOf
    <2> QED  BY <2>1, <2>2
  <1>4. ASSUME NEW k \in Nat, NEW i \in Items(Above(r.log, k)) PROVE i \in Items(Above(m.log, k))
    <2>1. PICK e \in r.log : e.seq > k /\ i \in e.body
      BY <1>4, ItemsOf DEF Above
    <2>2. F[e] \in Above(m.log, k) /\ i \in F[e].body
      BY <1>0, <1>2, <2>1 DEF Above
    <2> QED  BY <2>2, ItemsOf
  <1>5. SameLog(m.log, r.log)
    BY <1>3, <1>4 DEF SameLog
  <1>6. Covers(m.log, {}, 0)
    BY <1>5, SameCovers DEF RoomInv
  <1>7. RoomInv(m)
    BY <1>0, <1>1, <1>2, <1>6 DEF RoomInv
  <1> QED  BY <1>1, <1>5, <1>7 DEF m

\* An update is a new entry.
LEMMA UpdatedLog ==
  ASSUME NEW r, RoomInv(r), NEW c, NEW body, NEW quiet
  PROVE  LET a == AfterUpdate(r, c, c, body, 1, quiet)
         IN  /\ RoomInv(a) /\ a.members = r.members /\ a.seq = r.seq + 1
             /\ Items(a.log) = Items(r.log) \cup body
             /\ \A k \in Nat : k <= r.seq => Items(Above(a.log, k)) = Items(Above(r.log, k)) \cup body
  <1> DEFINE a == AfterUpdate(r, c, c, body, 1, quiet)
             e == [seq |-> r.seq + 1, size |-> 1, from |-> c, uid |-> c, own |-> r.own[c] + 1,
                   saved |-> FALSE, body |-> body]
  <1>1. DOMAIN a = RoomFields /\ a.members = r.members /\ a.seq = r.seq + 1 /\ a.log = r.log \cup {e}
    BY DEF AfterUpdate, Appended, WithSaver, RoomInv, RoomFields
  <1>2. DOMAIN e = EntryFields /\ e.seq = r.seq + 1 /\ e.body = body
    BY DEF EntryFields
  <1> HIDE DEF a, e
  <1>3. r.seq \in Nat
    BY DEF RoomInv
  <1>4. Items(a.log) = Items(r.log) \cup body
    BY <1>1, <1>2, ItemsOf
  <1>5. ASSUME NEW k \in Nat, k <= r.seq PROVE Items(Above(a.log, k)) = Items(Above(r.log, k)) \cup body
    <2>1. Above(a.log, k) = Above(r.log, k) \cup {e}
      BY <1>1, <1>2, <1>3, <1>5 DEF Above
    <2> QED  BY <1>2, <2>1, ItemsOf
  <1>6. Covers(a.log, {}, 0)
    BY <1>3, <1>4, <1>5 DEF Covers, RoomInv
  <1>7. RoomInv(a)
    BY <1>1, <1>2, <1>3, <1>6 DEF RoomInv
  <1> QED  BY <1>1, <1>4, <1>5, <1>7 DEF a

\* A snapshot of a tab that is in step takes the place of what it covers.
LEMMA CompactedLog ==
  ASSUME NEW r, RoomInv(r), NEW D, NEW k, NEW q, InStep(r, D, k, q), D \subseteq Items(r.log)
  PROVE  LET s == Compacted(r, k, D, 1)
         IN  RoomInv(s) /\ s.members = r.members /\ s.seq = r.seq /\ SameLog(s.log, r.log)
  <1> DEFINE s == Compacted(r, k, D, 1)
             x == [seq |-> k, size |-> 1, from |-> None, uid |-> None, own |-> 0,
                   saved |-> \A e \in Covered(r, k) : e.saved, body |-> D]
  <1>1. DOMAIN s = RoomFields /\ s.members = r.members /\ s.seq = r.seq /\ s.log = {x} \cup (r.log \ Covered(r, k))
    BY DEF Compacted, RoomInv, RoomFields
  <1>2. DOMAIN x = EntryFields /\ x.seq = k /\ x.body = D
    BY DEF EntryFields
  <1> HIDE DEF s, x
  <1>3. k \in Nat /\ k <= r.seq /\ \A e \in r.log : e.seq \in Nat
    BY DEF RoomInv, InStep
  <1>4. s.log = {x} \cup Above(r.log, k)
    BY <1>1, <1>3 DEF Above, Covered
  <1>5. Items(s.log) = D \cup Items(Above(r.log, k))
    BY <1>2, <1>4, ItemsOf
  <1>6. Items(Above(r.log, k)) \subseteq Items(r.log)
    BY ItemsOf DEF Above
  <1>7. Items(s.log) = Items(r.log)
    BY <1>5, <1>6 DEF InStep, Covers
  <1>8. ASSUME NEW j \in Nat PROVE Items(Above(r.log, j)) \subseteq Items(Above(s.log, j))
    <2>1. CASE j < k
      <3>1. Above(s.log, j) = s.log
        BY <1>2, <1>3, <1>4, <2>1 DEF Above
      <3>2. Items(Above(r.log, j)) \subseteq Items(r.log)
        BY ItemsOf DEF Above
      <3> QED  BY <1>7, <3>1, <3>2
    <2>2. CASE j >= k
      <3>1. Above(r.log, j) \subseteq Above(s.log, j)
        BY <1>3, <1>4, <2>2 DEF Above
      <3> QED  BY <3>1, ItemsOf
    <2> QED  BY <1>3, <2>1, <2>2
  <1>9. SameLog(s.log, r.log)
    BY <1>7, <1>8 DEF SameLog
  <1>10. Covers(s.log, {}, 0)
    BY <1>9, SameCovers DEF RoomInv
  <1>11. RoomInv(s)
    BY <1>1, <1>2, <1>3, <1>4, <1>10 DEF RoomInv, Above
  <1> QED  BY <1>1, <1>9, <1>11 DEF s

-----------------------------------------------------------------------------
(* Queues.                                                                 *)

\* Messages that bring nothing.
Plain(w) ==
  IsSequence(w) /\ \A i \in DOMAIN w : ~Brings(w[i]) /\ w[i].type # "joined" /\ w[i].type \in MessageTypes

LEMMA SeqOfOwn == ASSUME NEW S, NEW s \in Seq(S) PROVE IsSequence(s)
  <1>1. Len(s) \in Nat /\ DOMAIN s = 1 .. Len(s) /\ s \in [1 .. Len(s) -> S]
    BY LenProperties
  <1>2. s \in [1 .. Len(s) -> {s[i] : i \in DOMAIN s}]
    BY <1>1
  <1> QED  BY <1>1, <1>2, SeqDef DEF IsSequence

LEMMA QueueIs ==
  ASSUME NEW q, IsSequence(q)
  PROVE  Len(q) \in Nat /\ DOMAIN q = 1..Len(q)
  BY DEF IsSequence

LEMMA QueueJoined ==
  ASSUME NEW q, NEW w, IsSequence(q), IsSequence(w)
  PROVE  /\ IsSequence(q \o w) /\ Len(q \o w) = Len(q) + Len(w)
         /\ DOMAIN (q \o w) = 1..(Len(q) + Len(w))
         /\ \A i \in DOMAIN q : (q \o w)[i] = q[i]
         /\ \A i \in DOMAIN (q \o w) : i > Len(q) => i - Len(q) \in DOMAIN w /\ (q \o w)[i] = w[i - Len(q)]
  <1> DEFINE S == {q[i] : i \in DOMAIN q} \cup {w[i] : i \in DOMAIN w}
  <1>1. q \in Seq(S) /\ w \in Seq(S)
    BY DEF IsSequence
  <1> HIDE DEF S
  <1>2. q \o w \in Seq(S)
    BY <1>1
  <1>3. IsSequence(q \o w)
    BY <1>2, SeqOfOwn
  <1> QED  BY <1>1, <1>3

LEMMA QueueGrown ==
  ASSUME NEW q, IsSequence(q), NEW m
  PROVE  /\ IsSequence(Append(q, m)) /\ Len(Append(q, m)) = Len(q) + 1
         /\ DOMAIN Append(q, m) = 1..(Len(q) + 1)
         /\ \A i \in DOMAIN q : Append(q, m)[i] = q[i]
         /\ Append(q, m)[Len(q) + 1] = m
         /\ \A w : IsSequence(w) => q \o (<<m>> \o w) = Append(q, m) \o w
  <1> DEFINE S == {q[i] : i \in DOMAIN q} \cup {m}
  <1>1. q \in Seq(S) /\ m \in S
    BY DEF IsSequence
  <1> HIDE DEF S
  <1>2. Append(q, m) \in Seq(S)
    BY <1>1
  <1>3. IsSequence(Append(q, m))
    BY <1>2, SeqOfOwn
  <1>4. ASSUME NEW w, IsSequence(w) PROVE q \o (<<m>> \o w) = Append(q, m) \o w
    <2> DEFINE W == S \cup {w[i] : i \in DOMAIN w}
    <2>1. q \in Seq(W) /\ m \in W /\ w \in Seq(W)
      BY <1>1, <1>4 DEF IsSequence
    <2> HIDE DEF W
    <2>2. Append(q, m) = q \o <<m>>
      BY <2>1, AppendIsConcat
    <2>3. <<m>> \in Seq(W)
      BY <2>1
    <2> QED  BY <2>1, <2>2, <2>3, ConcatAssociative
  <1> QED  BY <1>1, <1>3, <1>4

LEMMA ArrivedIs ==
  \A D, q, i, x : x \in Arrived(D, q, i) <=>
    x \in D \/ \E j \in DOMAIN q : j <= i /\ Brings(q[j]) /\ x \in q[j].body
  BY DEF Arrived

LEMMA ArrivedPlain ==
  ASSUME NEW D, NEW q, IsSequence(q), NEW w, Plain(w), NEW i \in Nat
  PROVE  /\ i <= Len(q) => Arrived(D, q \o w, i) = Arrived(D, q, i)
         /\ i > Len(q) => Arrived(D, q \o w, i) = Arrived(D, q, Len(q))
  <1> DEFINE v == q \o w
  <1>1. /\ DOMAIN q = 1..Len(q) /\ Len(q) \in Nat /\ DOMAIN w = 1..Len(w) /\ Len(w) \in Nat
        /\ DOMAIN v = 1..(Len(q) + Len(w)) /\ \A j \in DOMAIN q : v[j] = q[j]
        /\ \A j \in DOMAIN v : j > Len(q) => j - Len(q) \in DOMAIN w /\ v[j] = w[j - Len(q)]
    BY QueueIs, QueueJoined DEF Plain
  <1> HIDE DEF v
  <1>2. \A j \in DOMAIN v : Brings(v[j]) => j \in DOMAIN q
    BY <1>1 DEF Plain
  <1>3. ASSUME i <= Len(q) PROVE Arrived(D, v, i) = Arrived(D, q, i)
    <2>1. ASSUME NEW x \in Arrived(D, v, i) PROVE x \in Arrived(D, q, i)
      BY <1>1, <1>2, ArrivedIs
    <2>2. ASSUME NEW x \in Arrived(D, q, i) PROVE x \in Arrived(D, v, i)
      BY <1>1, ArrivedIs
    <2> QED  BY <2>1, <2>2
  <1>4. ASSUME i > Len(q) PROVE Arrived(D, v, i) = Arrived(D, q, Len(q))
    <2>1. ASSUME NEW x \in Arrived(D, v, i) PROVE x \in Arrived(D, q, Len(q))
      BY <1>1, <1>2, ArrivedIs
    <2>2. ASSUME NEW x \in Arrived(D, q, Len(q)) PROVE x \in Arrived(D, v, i)
      BY <1>1, <1>4, ArrivedIs
    <2> QED  BY <2>1, <2>2
  <1> QED  BY <1>3, <1>4 DEF v

\* Messages that bring nothing leave a tab in step.
LEMMA InStepPlain ==
  ASSUME NEW r, NEW D, NEW k, NEW q, IsSequence(q), InStep(r, D, k, q), NEW w, Plain(w)
  PROVE  InStep(r, D, k, q \o w)
  <1> DEFINE v == q \o w
  <1>1. /\ DOMAIN q = 1..Len(q) /\ Len(q) \in Nat /\ DOMAIN w = 1..Len(w) /\ Len(w) \in Nat
        /\ Len(v) = Len(q) + Len(w)
        /\ DOMAIN v = 1..(Len(q) + Len(w)) /\ \A j \in DOMAIN q : v[j] = q[j]
        /\ \A j \in DOMAIN v : j > Len(q) => j - Len(q) \in DOMAIN w /\ v[j] = w[j - Len(q)]
    BY QueueIs, QueueJoined DEF Plain
  <1>2. \A i \in Nat : /\ i <= Len(q) => Arrived(D, v, i) = Arrived(D, q, i)
                       /\ i > Len(q) => Arrived(D, v, i) = Arrived(D, q, Len(q))
    BY ArrivedPlain
  <1> HIDE DEF v
  <1>3. \A j \in DOMAIN v : Brings(v[j]) => j \in DOMAIN q
    BY <1>1 DEF Plain
  <1>4. Arrived(D, v, Len(v)) = Items(r.log)
    <2>1. Len(q) \in Nat /\ Len(w) \in Nat /\ Len(v) = Len(q) + Len(w)
      BY <1>1
    <2>2. Arrived(D, q, Len(q)) = Items(r.log)
      BY DEF InStep
    <2> HIDE <1>1
    <2>3. CASE Len(w) = 0
      <3>1. Len(v) = Len(q)
        BY <2>1, <2>3
      <3> QED  BY <1>2, <2>1, <2>2, <3>1
    <2>4. CASE Len(w) # 0
      <3>1. Len(v) \in Nat /\ Len(v) > Len(q)
        BY <2>1, <2>4
      <3> QED  BY <1>2, <2>2, <3>1
    <2> QED  BY <2>3, <2>4
  <1>5. \A i \in DOMAIN v :
         Brings(v[i]) => v[i].seq \in Nat /\ v[i].seq <= r.seq /\ Covers(r.log, Arrived(D, v, i), v[i].seq)
    BY <1>1, <1>2, <1>3 DEF InStep
  <1>6. InStep(r, D, k, v)
    BY <1>4, <1>5 DEF InStep
  <1> QED  BY <1>6 DEF v

\* The room a after an update of `body` to r.
Grew(a, r, body) ==
  /\ RoomInv(a) /\ a.seq = r.seq + 1 /\ Items(a.log) = Items(r.log) \cup body
  /\ \A k \in Nat : k <= r.seq => Items(Above(a.log, k)) = Items(Above(r.log, k)) \cup body

LEMMA GrewCovers ==
  ASSUME NEW a, NEW r, NEW body, Grew(a, r, body), NEW D, NEW k \in Nat, k <= r.seq, Covers(r.log, D, k)
  PROVE  Covers(a.log, D, k)
  BY DEF Grew, Covers

\* An update reaches a tab at the end of its queue, ...
LEMMA InStepHeard ==
  ASSUME NEW r, RoomInv(r), NEW a, NEW body, Grew(a, r, body), NEW D, NEW k, NEW q, IsSequence(q),
         InStep(r, D, k, q), NEW m, m.type = "update", m.seq = a.seq, m.body = body
  PROVE  InStep(a, D, k, Append(q, m))
  <1> DEFINE v == Append(q, m)
             l == Len(q)
  <1>1. /\ DOMAIN q = 1..l /\ l \in Nat /\ DOMAIN v = 1..(l + 1) /\ Len(v) = l + 1
        /\ v[l + 1] = m /\ \A j \in DOMAIN q : v[j] = q[j]
    BY QueueIs, QueueGrown
  <1> HIDE DEF v, l
  <1>2. /\ r.seq \in Nat /\ a.seq \in Nat /\ r.seq <= a.seq /\ Items(a.log) = Items(r.log) \cup body
        /\ Brings(m)
    BY DEF Grew, RoomInv, Brings
  <1>3. ASSUME NEW i \in DOMAIN q PROVE Arrived(D, v, i) = Arrived(D, q, i)
    <2>1. ASSUME NEW x \in Arrived(D, v, i) PROVE x \in Arrived(D, q, i)
      BY <1>1, ArrivedIs
    <2>2. ASSUME NEW x \in Arrived(D, q, i) PROVE x \in Arrived(D, v, i)
      BY <1>1, ArrivedIs
    <2> QED  BY <2>1, <2>2
  <1>4. Arrived(D, v, l + 1) = Items(a.log)
    <2>1. Arrived(D, q, l) = Items(r.log)
      BY DEF InStep, l
    <2>2. ASSUME NEW x \in Arrived(D, v, l + 1) PROVE x \in Items(a.log)
      <3>1. CASE x \in D
        BY <1>2, <2>1, <3>1, ArrivedIs
      <3>2. CASE \E j \in DOMAIN v : Brings(v[j]) /\ x \in v[j].body
        <4>1. PICK j \in DOMAIN v : Brings(v[j]) /\ x \in v[j].body
          BY <3>2
        <4>2. CASE j = l + 1
          BY <1>1, <1>2, <4>1, <4>2
        <4>3. CASE j # l + 1
          <5>1. j \in DOMAIN q /\ j <= l /\ v[j] = q[j]
            BY <1>1, <4>3
          <5> QED  BY <1>2, <2>1, <4>1, <5>1, ArrivedIs
        <4> QED  BY <4>2, <4>3
      <3> QED  BY <3>1, <3>2, ArrivedIs
    <2>3. ASSUME NEW x \in Items(a.log) PROVE x \in Arrived(D, v, l + 1)
      <3>1. CASE x \in body
        <4>1. l + 1 \in DOMAIN v /\ l + 1 <= l + 1
          BY <1>1
        <4> QED  BY <1>1, <1>2, <3>1, <4>1, ArrivedIs
      <3>2. CASE x \in Items(r.log)
        <4>1. x \in Arrived(D, q, l)
          BY <2>1, <3>2
        <4>2. \A j \in DOMAIN q : j <= l => j \in DOMAIN v /\ j <= l + 1 /\ v[j] = q[j]
          BY <1>1
        <4> QED  BY <4>1, <4>2, ArrivedIs
      <3> QED  BY <1>2, <3>1, <3>2
    <2> QED  BY <2>2, <2>3
  <1>5. k \in Nat /\ k <= a.seq /\ Covers(a.log, D, k)
    <2>1. k \in Nat /\ k <= r.seq /\ Covers(r.log, D, k)
      BY DEF InStep
    <2> QED  BY <1>2, <2>1, GrewCovers
  <1>6. ASSUME NEW i \in DOMAIN v, Brings(v[i])
        PROVE  v[i].seq \in Nat /\ v[i].seq <= a.seq /\ Covers(a.log, Arrived(D, v, i), v[i].seq)
    <2>1. CASE i = l + 1
      <3>1. v[i].seq = a.seq
        BY <1>1, <2>1
      <3>2. Covers(a.log, Arrived(D, v, i), v[i].seq)
        BY <1>4, <2>1 DEF Covers
      <3> QED  BY <1>2, <3>1, <3>2
    <2>2. CASE i # l + 1
      <3>1. i \in DOMAIN q /\ v[i] = q[i]
        BY <1>1, <2>2
      <3>2. v[i].seq \in Nat /\ v[i].seq <= r.seq /\ Covers(r.log, Arrived(D, v, i), v[i].seq)
        BY <1>3, <1>6, <3>1 DEF InStep
      <3>3. Covers(a.log, Arrived(D, v, i), v[i].seq)
        BY <3>2, GrewCovers
      <3> QED  BY <1>2, <3>2, <3>3
    <2> QED  BY <2>1, <2>2
  <1>7. InStep(a, D, k, v)
    BY <1>1, <1>4, <1>5, <1>6 DEF InStep
  <1> QED  BY <1>7 DEF v

\* ... but its sender has it already: it is not sent back.
LEMMA InStepSent ==
  ASSUME NEW r, RoomInv(r), NEW a, NEW body, Grew(a, r, body), NEW D, NEW k, NEW q, InStep(r, D, k, q)
  PROVE  InStep(a, D \cup body, k, q)
  <1>1. \A i : Arrived(D \cup body, q, i) = Arrived(D, q, i) \cup body
    BY DEF Arrived
  <1>2. r.seq \in Nat /\ a.seq = r.seq + 1 /\ Items(a.log) = Items(r.log) \cup body
    BY DEF Grew, RoomInv
  <1>3. \A X, j : j \in Nat /\ j <= r.seq /\ Covers(r.log, X, j) => Covers(a.log, X \cup body, j)
    <2> SUFFICES ASSUME NEW X, NEW j \in Nat, j <= r.seq, Covers(r.log, X, j) PROVE Covers(a.log, X \cup body, j)
      OBVIOUS
    <2>1. Covers(a.log, X, j)
      BY GrewCovers
    <2> QED  BY <2>1 DEF Covers
  <1>4. \A j : j \in Nat /\ j <= r.seq => j <= a.seq
    BY <1>2
  <1> QED  BY <1>1, <1>2, <1>3, <1>4 DEF InStep

LEMMA QueueTaken ==
  ASSUME NEW q, IsSequence(q), q # <<>>
  PROVE  /\ Len(q) \in Nat \ {0} /\ Head(q) = q[1] /\ 1 \in DOMAIN q
         /\ IsSequence(Tail(q)) /\ Len(Tail(q)) = Len(q) - 1 /\ DOMAIN Tail(q) = 1..(Len(q) - 1)
         /\ \A i \in DOMAIN Tail(q) : i + 1 \in DOMAIN q /\ Tail(q)[i] = q[i + 1]
  <1> DEFINE S == {q[i] : i \in DOMAIN q}
  <1>1. q \in Seq(S)
    BY DEF IsSequence
  <1> HIDE DEF S
  <1>2. Tail(q) \in Seq(S) /\ Len(q) \in Nat \ {0} /\ Len(Tail(q)) = Len(q) - 1 /\ Head(q) = q[1]
    BY <1>1
  <1>3. IsSequence(Tail(q))
    BY <1>2, SeqOfOwn
  <1>4. \A i \in 1..(Len(q) - 1) : Tail(q)[i] = q[i + 1]
    BY <1>1
  <1>5. DOMAIN q = 1..Len(q) /\ DOMAIN Tail(q) = 1..(Len(q) - 1)
    BY <1>2, <1>3, QueueIs
  <1> QED  BY <1>2, <1>3, <1>4, <1>5

\* What a message leaves a tab with.
TakenDoc(D, m) == IF Brings(m) THEN D \cup m.body ELSE D
TakenSeq(k, m) == IF Brings(m) THEN m.seq ELSE k

\* Reading the first message of the queue.
LEMMA InStepTaken ==
  ASSUME NEW r, NEW D, NEW k, NEW q, IsSequence(q), q # <<>>, InStep(r, D, k, q)
  PROVE  InStep(r, TakenDoc(D, Head(q)), TakenSeq(k, Head(q)), Tail(q))
  <1> DEFINE m == Head(q)
             E == TakenDoc(D, m)
             v == Tail(q)
             l == Len(q)
  <1>1. /\ l \in Nat \ {0} /\ m = q[1] /\ 1 \in DOMAIN q /\ DOMAIN q = 1..l
        /\ Len(v) = l - 1 /\ DOMAIN v = 1..(l - 1)
        /\ \A i \in DOMAIN v : i + 1 \in DOMAIN q /\ v[i] = q[i + 1]
    BY QueueTaken, QueueIs
  <1>2. \A x : x \in E <=> x \in D \/ (Brings(m) /\ x \in m.body)
    BY DEF TakenDoc
  <1> HIDE DEF m, E, v, l
  <1>3. ASSUME NEW i \in 0..(l - 1) PROVE Arrived(E, v, i) = Arrived(D, q, i + 1)
    <2>1. ASSUME NEW x \in Arrived(E, v, i) PROVE x \in Arrived(D, q, i + 1)
      <3>1. CASE x \in D
        BY <3>1, ArrivedIs
      <3>2. CASE Brings(m) /\ x \in m.body
        <4>1. 1 <= i + 1
          OBVIOUS
        <4> QED  BY <1>1, <3>2, <4>1, ArrivedIs
      <3>3. CASE \E j \in DOMAIN v : j <= i /\ Brings(v[j]) /\ x \in v[j].body
        <4>1. PICK j \in DOMAIN v : j <= i /\ Brings(v[j]) /\ x \in v[j].body
          BY <3>3
        <4>2. j + 1 \in DOMAIN q /\ v[j] = q[j + 1] /\ j + 1 <= i + 1
          BY <1>1, <4>1
        <4> QED  BY <4>1, <4>2, ArrivedIs
      <3> QED  BY <1>2, <2>1, <3>1, <3>2, <3>3, ArrivedIs
    <2>2. ASSUME NEW x \in Arrived(D, q, i + 1) PROVE x \in Arrived(E, v, i)
      <3>1. CASE x \in D
        BY <1>2, <3>1, ArrivedIs
      <3>2. CASE \E j \in DOMAIN q : j <= i + 1 /\ Brings(q[j]) /\ x \in q[j].body
        <4>1. PICK j \in DOMAIN q : j <= i + 1 /\ Brings(q[j]) /\ x \in q[j].body
          BY <3>2
        <4>2. CASE j = 1
          BY <1>1, <1>2, <4>1, <4>2, ArrivedIs
        <4>3. CASE j # 1
          <5>1. j - 1 \in DOMAIN v /\ v[j - 1] = q[j] /\ j - 1 <= i
            BY <1>1, <4>1, <4>3
          <5> QED  BY <4>1, <5>1, ArrivedIs
        <4> QED  BY <4>2, <4>3
      <3> QED  BY <2>2, <3>1, <3>2, ArrivedIs
    <2> QED  BY <2>1, <2>2
  <1>4. Arrived(E, v, Len(v)) = Items(r.log)
    <2>1. Len(v) \in 0..(l - 1) /\ Len(v) + 1 = l
      BY <1>1
    <2>2. Arrived(E, v, Len(v)) = Arrived(D, q, l)
      BY <1>3, <2>1
    <2> QED  BY <2>2 DEF InStep, l
  <1>5. ASSUME NEW i \in DOMAIN v, Brings(v[i])
        PROVE  v[i].seq \in Nat /\ v[i].seq <= r.seq /\ Covers(r.log, Arrived(E, v, i), v[i].seq)
    <2>1. i \in 0..(l - 1) /\ i + 1 \in DOMAIN q /\ v[i] = q[i + 1]
      BY <1>1
    <2>2. Arrived(E, v, i) = Arrived(D, q, i + 1)
      BY <1>3, <2>1
    <2> QED  BY <1>5, <2>1, <2>2 DEF InStep
  <1>6. TakenSeq(k, m) \in Nat /\ TakenSeq(k, m) <= r.seq /\ Covers(r.log, E, TakenSeq(k, m))
    <2>1. CASE Brings(m)
      <3>1. 0 \in 0..(l - 1) /\ Arrived(E, v, 0) = E
        <4>1. 0 \in 0..(l - 1) /\ \A j \in DOMAIN v : ~(j <= 0)
          BY <1>1
        <4>2. \A x : x \in Arrived(E, v, 0) <=> x \in E
          BY <4>1, ArrivedIs
        <4> QED  BY <4>1, <4>2
      <3>2. Arrived(E, v, 0) = Arrived(D, q, 0 + 1)
        BY <1>3, <3>1
      <3>3. Arrived(D, q, 1) = E
        BY <3>1, <3>2
      <3> QED  BY <1>1, <2>1, <3>3 DEF InStep, TakenSeq
    <2>2. CASE ~Brings(m)
      <3>1. E = D
        BY <2>2 DEF E, TakenDoc
      <3> QED  BY <2>2, <3>1 DEF InStep, TakenSeq
    <2> QED  BY <2>1, <2>2
  <1>7. InStep(r, E, TakenSeq(k, m), v)
    BY <1>4, <1>5, <1>6 DEF InStep
  <1> QED  BY <1>7 DEF E, m, v

\* What a newcomer is sent is all there is.
LEMMA InStepJoined ==
  ASSUME NEW r, RoomInv(r), NEW m, m.type = "joined", m.seq = r.seq, m.body = Items(r.log)
  PROVE  InStep(r, {}, 0, <<m>>)
  <1> DEFINE q == <<m>>
  <1>1. Len(q) = 1 /\ DOMAIN q = {1} /\ q[1] = m
    OBVIOUS
  <1> HIDE DEF q
  <1>2. Brings(m) /\ r.seq \in Nat
    BY DEF Brings, RoomInv
  <1>3. Arrived({}, q, 1) = Items(r.log)
    <2>1. 1 <= 1
      OBVIOUS
    <2>2. \A x : x \in Arrived({}, q, 1) <=> x \in m.body
      BY <1>1, <1>2, <2>1, ArrivedIs
    <2> QED  BY <2>2
  <1>4. Covers(r.log, {}, 0)
    BY DEF RoomInv
  <1>5. Covers(r.log, Arrived({}, q, 1), r.seq)
    BY <1>3 DEF Covers
  <1>6. 0 \in Nat /\ 0 <= r.seq /\ r.seq <= r.seq
    BY <1>2
  <1>7. InStep(r, {}, 0, q)
    BY <1>1, <1>2, <1>3, <1>4, <1>5, <1>6 DEF InStep
  <1> QED  BY <1>7 DEF q

-----------------------------------------------------------------------------
(* What the room sends.                                                    *)

LEMMA PlainOne == ASSUME NEW m, ~Brings(m), m.type # "joined", m.type \in MessageTypes PROVE Plain(<<m>>)
  <1>1. <<m>> \in Seq({m}) /\ DOMAIN <<m>> = {1} /\ <<m>>[1] = m
    OBVIOUS
  <1>2. IsSequence(<<m>>)
    BY <1>1, SeqOfOwn
  <1> QED  BY <1>1, <1>2 DEF Plain

LEMMA PlainNone == Plain(<<>>)
  <1>1. <<>> \in Seq({}) /\ DOMAIN <<>> = {}
    OBVIOUS
  <1>2. IsSequence(<<>>)
    BY <1>1, SeqOfOwn
  <1> QED  BY <1>1, <1>2 DEF Plain

LEMMA PlainJoined == ASSUME NEW v, NEW w, Plain(v), Plain(w) PROVE Plain(v \o w)
  <1>1. IsSequence(v) /\ IsSequence(w)
    BY DEF Plain
  <1>2. /\ IsSequence(v \o w) /\ DOMAIN v = 1..Len(v) /\ Len(v) \in Nat /\ Len(w) \in Nat /\ DOMAIN (v \o w) = 1..(Len(v) + Len(w))
        /\ \A i \in DOMAIN v : (v \o w)[i] = v[i]
        /\ \A i \in DOMAIN (v \o w) : i > Len(v) => i - Len(v) \in DOMAIN w /\ (v \o w)[i] = w[i - Len(v)]
    BY <1>1, QueueIs, QueueJoined
  <1>3. ASSUME NEW i \in DOMAIN (v \o w)
        PROVE  ~Brings((v \o w)[i]) /\ (v \o w)[i].type # "joined" /\ (v \o w)[i].type \in MessageTypes
    <2>1. CASE i <= Len(v)
      <3>1. i \in DOMAIN v
        BY <1>2, <2>1
      <3> QED  BY <1>2, <3>1 DEF Plain
    <2>2. CASE i > Len(v)
      BY <1>2, <2>2 DEF Plain
    <2>3. i <= Len(v) \/ i > Len(v)
      BY <1>2
    <2> QED  BY <2>1, <2>2, <2>3
  <1> QED  BY <1>2, <1>3 DEF Plain

PlainMail(mail) == \A x \in Conn : Plain(mail[x])

LEMMA PlainTo == ASSUME NEW c, NEW msgs, Plain(msgs) PROVE PlainMail(To(c, msgs))
  BY PlainNone DEF PlainMail, To

LEMMA PlainSilence == PlainMail(Silence)
  BY PlainNone DEF PlainMail, Silence

LEMMA PlainThen == ASSUME NEW v, NEW w, PlainMail(v), PlainMail(w) PROVE PlainMail(Then(v, w))
  BY PlainJoined DEF PlainMail, Then

LEMMA PlainRoles ==
  ASSUME NEW r, NEW c PROVE PlainMail(RoleMail(r, c))
  <1>1. Plain(<<Role(FALSE)>>) /\ Plain(<<Role(TRUE)>>)
    BY PlainOne DEF Role, Brings, MessageTypes
  <1>2. CASE c = r.saver
    BY <1>2, PlainSilence DEF RoleMail
  <1>3. CASE c # r.saver
    BY <1>1, <1>3, PlainNone DEF RoleMail, PlainMail
  <1> QED  BY <1>2, <1>3

LEMMA PlainLeave ==
  ASSUME NEW r, NEW c, NEW seeder, NEW saver PROVE PlainMail(LeaveMail(r, c, seeder, saver))
  <1>1. Plain(<<[type |-> "seed"]>>) /\ Plain(<<Role(TRUE)>>)
    BY PlainOne DEF Role, Brings, MessageTypes
  <1>2. /\ PlainMail(IF seeder = None THEN Silence ELSE To(seeder, <<[type |-> "seed"]>>))
        /\ PlainMail(IF saver = None THEN Silence ELSE To(saver, <<Role(TRUE)>>))
    BY <1>1, PlainTo, PlainSilence
  <1> QED  BY <1>2, PlainThen DEF LeaveMail

\* The message an update of the room becomes.
UpdateFrame(r, body) == [type |-> "update", seq |-> r.seq + 1, body |-> body]

\* It is the first thing the members are sent.
RelayedTo(mail, x, members, u) ==
  \E w : Plain(w) /\ mail[x] = IF x \in members THEN <<u>> \o w ELSE w

Relayed(mail, members, u) == \A x \in Conn : RelayedTo(mail, x, members, u)

\* Every member but the sender is sent an update, before anything else.
LEMMA UpdateMailIs ==
  ASSUME NEW r, RoomInv(r), NEW c, NEW body, NEW quiet, NEW x \in Conn
  PROVE  RelayedTo(UpdateMail(r, c, c, body, 1, quiet), x, r.members \ {c}, UpdateFrame(r, body))
  <1> DEFINE a == Appended(r, c, c, body, 1)
             n == SaverAfter(a, c, quiet)
             p == WithSaver(a, n)
             u == UpdateFrame(r, body)
             relay == [y \in Conn |-> IF y \in r.members \ {c}
                                      THEN <<[type |-> "update", seq |-> a.seq, body |-> body]>> ELSE <<>>]
             roles == RoleMail(a, n)
             asks == IF AsksCompaction(p) THEN To(n, <<[type |-> "compact"]>>) ELSE Silence
  <1>1. UpdateMail(r, c, c, body, 1, quiet) = Then(Then(relay, roles), asks)
    BY DEF UpdateMail
  <1>2. a.seq = r.seq + 1
    BY DEF Appended, RoomInv, RoomFields
  <1>3. PlainMail(roles)
    BY PlainRoles
  <1>4. PlainMail(asks)
    BY PlainOne, PlainTo, PlainSilence DEF Brings, MessageTypes
  <1>5. relay[x] = IF x \in r.members \ {c} THEN <<u>> ELSE <<>>
    BY <1>2 DEF UpdateFrame
  <1> HIDE DEF a, n, p, u, relay, roles, asks
  <1>6. UpdateMail(r, c, c, body, 1, quiet)[x] = (relay[x] \o roles[x]) \o asks[x]
    BY <1>1 DEF Then
  <1> DEFINE w == roles[x] \o asks[x]
  <1>7. Plain(roles[x]) /\ Plain(asks[x]) /\ Plain(w)
    BY <1>3, <1>4, PlainJoined DEF PlainMail
  <1>8. \A o : IsSequence(o) => (o \o roles[x]) \o asks[x] = o \o w
    <2> SUFFICES ASSUME NEW o, IsSequence(o) PROVE (o \o roles[x]) \o asks[x] = o \o w
      OBVIOUS
    <2> DEFINE f == roles[x]
               g == asks[x]
               S == {o[i] : i \in DOMAIN o} \cup {f[i] : i \in DOMAIN f} \cup {g[i] : i \in DOMAIN g}
    <2>1. o \in Seq(S) /\ f \in Seq(S) /\ g \in Seq(S)
      BY <1>7 DEF Plain, IsSequence
    <2> HIDE DEF S, f, g
    <2>2. (o \o f) \o g = o \o (f \o g)
      BY <2>1
    <2> QED  BY <2>2 DEF f, g
  <1>9. IsSequence(<<u>>) /\ IsSequence(<<>>)
    <2>1. <<u>> \in Seq({u}) /\ <<>> \in Seq({u})
      OBVIOUS
    <2> QED  BY <2>1, SeqOfOwn
  <1>10. <<>> \o w = w
    BY <1>7 DEF Plain, IsSequence
  <1> HIDE DEF w
  <1>11. UpdateMail(r, c, c, body, 1, quiet)[x] = IF x \in r.members \ {c} THEN <<u>> \o w ELSE w
    BY <1>5, <1>6, <1>8, <1>9, <1>10
  <1> QED  BY <1>7, <1>11 DEF RelayedTo, u

-----------------------------------------------------------------------------
(* What the room does to the invariant.                                    *)

\* m is n with `room`, after every socket that works was sent its mail.
IsMailed(m, n, room, mail) ==
  /\ DOMAIN m = {"room", "used", "up", "down"} /\ m.room = room /\ m.used = n.used /\ m.up = n.up
  /\ DOMAIN m.down = Conn
  /\ \A x \in Conn : x \in n.up => m.down[x] = n.down[x] \o mail[x]
  /\ \A x \in Conn : x \notin n.up => m.down[x] = n.down[x]
  /\ \A x \in Conn : IsSequence(m.down[x]) /\ (x \notin n.up => m.down[x] = <<>>)

LEMMA MailedIs ==
  ASSUME NEW n, NetInv(n), NEW room, NEW mail, \A x \in Conn : IsSequence(mail[x])
  PROVE  IsMailed(Mailed(n, room, mail), n, room, mail)
  <1> DEFINE m == Mailed(n, room, mail)
  <1>1. /\ DOMAIN m = {"room", "used", "up", "down"} /\ m.room = room /\ m.used = n.used /\ m.up = n.up
        /\ DOMAIN m.down = Conn
        /\ \A x \in Conn : x \in n.up => m.down[x] = n.down[x] \o mail[x]
        /\ \A x \in Conn : x \notin n.up => m.down[x] = n.down[x]
    BY DEF Mailed, NetInv
  <1> HIDE DEF m
  <1>2. \A x \in Conn : IsSequence(n.down[x]) /\ (x \notin n.up => n.down[x] = <<>>)
    BY DEF NetInv
  <1>3. \A x \in Conn : x \in n.up => IsSequence(n.down[x] \o mail[x])
    BY <1>2, QueueJoined
  <1>4. \A x \in Conn : IsSequence(m.down[x]) /\ (x \notin n.up => m.down[x] = <<>>)
    BY <1>1, <1>2, <1>3
  <1>5. IsMailed(m, n, room, mail)
    BY <1>1, <1>4 DEF IsMailed
  <1> QED  BY <1>5 DEF m

\* Once mailed, a message is one that was there or one of the mail.
LEMMA MailedMessages ==
  ASSUME NEW n, NetInv(n), NEW m, NEW room, NEW mail, IsMailed(m, n, room, mail),
         \A x \in Conn : IsSequence(mail[x]), NEW x \in Conn, NEW i \in DOMAIN m.down[x]
  PROVE  \/ i \in DOMAIN n.down[x] /\ m.down[x][i] = n.down[x][i]
         \/ x \in n.up /\ \E j \in DOMAIN mail[x] : m.down[x][i] = mail[x][j]
  <1>1. CASE x \notin n.up
    BY <1>1 DEF IsMailed
  <1>2. CASE x \in n.up
    <2> DEFINE q == n.down[x]
               w == mail[x]
    <2>1. IsSequence(q) /\ IsSequence(w) /\ m.down[x] = q \o w
      BY <1>2 DEF NetInv, IsMailed
    <2> HIDE DEF q, w
    <2>2. /\ Len(q) \in Nat /\ Len(w) \in Nat /\ DOMAIN q = 1..Len(q)
          /\ DOMAIN (q \o w) = 1..(Len(q) + Len(w))
          /\ \A j \in DOMAIN q : (q \o w)[j] = q[j]
          /\ \A j \in DOMAIN (q \o w) : j > Len(q) => j - Len(q) \in DOMAIN w /\ (q \o w)[j] = w[j - Len(q)]
      BY <2>1, QueueIs, QueueJoined
    <2>3. i \in DOMAIN (q \o w)
      BY <2>1
    <2>4. CASE i > Len(q)
      <3>1. i - Len(q) \in DOMAIN w /\ m.down[x][i] = w[i - Len(q)]
        BY <2>1, <2>2, <2>3, <2>4
      <3> QED  BY <1>2, <3>1 DEF w
    <2>5. CASE ~(i > Len(q))
      <3>1. i \in DOMAIN q /\ m.down[x][i] = q[i]
        BY <2>1, <2>2, <2>3, <2>5
      <3> QED  BY <3>1 DEF q
    <2> QED  BY <2>4, <2>5
  <1> QED  BY <1>1, <1>2

\* A step of the room that brings nobody anything, or ends the room.
SameRoom(new, old) ==
  /\ old # None /\ RoomInv(new) /\ new.members \subseteq old.members /\ new.seq = old.seq
  /\ SameLog(new.log, old.log)

\* It keeps the invariant.
LEMMA InvPlain ==
  ASSUME NEW n, NEW tb, Inv(n, tb), NEW room, room = None \/ SameRoom(room, n.room),
         NEW mail, PlainMail(mail)
  PROVE  Inv(Mailed(n, room, mail), tb)
  <1> DEFINE m == Mailed(n, room, mail)
  <1>1. NetInv(n)
    BY DEF Inv
  <1>2. \A x \in Conn : IsSequence(mail[x])
    BY DEF PlainMail, Plain
  <1>3. /\ DOMAIN m = {"room", "used", "up", "down"} /\ m.room = room /\ m.used = n.used /\ m.up = n.up
        /\ DOMAIN m.down = Conn
        /\ \A x \in Conn : x \in n.up => m.down[x] = n.down[x] \o mail[x]
        /\ \A x \in Conn : x \notin n.up => m.down[x] = n.down[x]
        /\ \A x \in Conn : IsSequence(m.down[x]) /\ (x \notin n.up => m.down[x] = <<>>)
    <2>1. IsMailed(m, n, room, mail)
      BY <1>1, <1>2, MailedIs
    <2> HIDE DEF m
    <2> QED  BY <2>1 DEF IsMailed
  <1> HIDE DEF m
  <1>4. NetInv(m)
    BY <1>1, <1>3 DEF NetInv, SameRoom
  <1>5. ASSUME NEW x \in Conn, NEW i \in DOMAIN m.down[x], Brings(m.down[x][i]) \/ m.down[x][i].type = "joined"
        PROVE  i \in DOMAIN n.down[x] /\ m.down[x][i] = n.down[x][i]
    <2>1. CASE x \notin n.up
      BY <1>3, <1>5, <2>1
    <2>2. CASE x \in n.up
      <3> DEFINE q == n.down[x]
                 w == mail[x]
      <3>1. IsSequence(q) /\ Plain(w) /\ IsSequence(w)
        BY <1>1 DEF NetInv, PlainMail, Plain
      <3>2. i \in DOMAIN (q \o w) /\ (Brings((q \o w)[i]) \/ (q \o w)[i].type = "joined")
        BY <1>3, <1>5, <2>2
      <3>3. m.down[x] = q \o w
        BY <1>3, <2>2
      <3> HIDE DEF q, w
      <3>4. /\ Len(q) \in Nat /\ Len(w) \in Nat /\ DOMAIN q = 1..Len(q)
            /\ DOMAIN (q \o w) = 1..(Len(q) + Len(w))
            /\ \A j \in DOMAIN q : (q \o w)[j] = q[j]
            /\ \A j \in DOMAIN (q \o w) : j > Len(q) => j - Len(q) \in DOMAIN w /\ (q \o w)[j] = w[j - Len(q)]
        BY <3>1, QueueIs, QueueJoined
      <3>5. ~(i > Len(q))
        BY <3>1, <3>2, <3>4 DEF Plain
      <3>6. i \in DOMAIN q
        BY <3>2, <3>4, <3>5
      <3> QED  BY <3>3, <3>4, <3>6 DEF q
    <2> QED  BY <2>1, <2>2
  <1>6. ASSUME NEW t \in Tab PROVE TabInv(m, tb[t])
    <2> DEFINE b == tb[t]
    <2>1. TabInv(n, b)
      BY DEF Inv
    <2> HIDE DEF b
    <2>2. JoinsFirst(m, b)
      BY <1>5, <2>1 DEF TabInv, JoinsFirst
    <2>3. ASSUME b.sock \in m.up, m.room # None, b.sock \in m.room.members
          PROVE  InStep(m.room, b.doc, b.lastSeq, m.down[b.sock])
      <3>1. SameRoom(room, n.room) /\ b.sock \in n.up /\ b.sock \in Conn
        BY <1>1, <1>3, <2>3 DEF NetInv
      <3>2. InStep(n.room, b.doc, b.lastSeq, n.down[b.sock])
        BY <1>3, <2>1, <2>3, <3>1 DEF TabInv, SameRoom
      <3>3. InStep(room, b.doc, b.lastSeq, n.down[b.sock])
        BY <3>1, <3>2, InStepSame DEF SameRoom
      <3>4. InStep(room, b.doc, b.lastSeq, n.down[b.sock] \o mail[b.sock])
        BY <1>1, <3>1, <3>3, InStepPlain DEF NetInv, PlainMail
      <3> QED  BY <1>3, <3>1, <3>4
    <2>4. TabInv(m, b)
      BY <1>3, <2>1, <2>2, <2>3 DEF TabInv
    <2> QED  BY <2>4 DEF b
  <1>7. AllMinted(m, tb)
    <2> SUFFICES ASSUME NEW i, Known(m, tb, i) PROVE Minted(m, tb, i)
      BY DEF AllMinted
    <2>1. Known(n, tb, i)
      <3>1. CASE \E t \in Tab : i \in tb[t].doc
        BY <3>1 DEF Known
      <3>2. CASE m.room # None /\ i \in Items(m.room.log)
        <4>1. n.room # None /\ i \in Items(n.room.log)
          BY <1>3, <3>2 DEF SameRoom, SameLog
        <4> QED  BY <4>1 DEF Known
      <3>3. CASE \E c \in Conn : \E j \in DOMAIN m.down[c] : Brings(m.down[c][j]) /\ i \in m.down[c][j].body
        <4>1. PICK c \in Conn : \E j \in DOMAIN m.down[c] : Brings(m.down[c][j]) /\ i \in m.down[c][j].body
          BY <3>3
        <4>2. PICK j \in DOMAIN m.down[c] : Brings(m.down[c][j]) /\ i \in m.down[c][j].body
          BY <4>1
        <4>3. j \in DOMAIN n.down[c] /\ Brings(n.down[c][j]) /\ i \in n.down[c][j].body
          BY <1>5, <4>2
        <4> QED  BY <4>3 DEF Known
      <3> QED  BY <3>1, <3>2, <3>3 DEF Known
    <2>2. Minted(n, tb, i)
      BY <2>1 DEF Inv, AllMinted
    <2> QED  BY <1>3, <2>2 DEF Minted
  <1>8. Spoken(m)
    <2> SUFFICES ASSUME NEW x \in Conn, NEW i \in DOMAIN m.down[x] PROVE m.down[x][i].type \in MessageTypes
      BY DEF Spoken
    <2>1. IsMailed(m, n, room, mail)
      BY <1>3 DEF IsMailed
    <2>2. \/ i \in DOMAIN n.down[x] /\ m.down[x][i] = n.down[x][i]
          \/ \E j \in DOMAIN mail[x] : m.down[x][i] = mail[x][j]
      BY <1>1, <1>2, <2>1, MailedMessages
    <2> QED  BY <2>2 DEF Inv, Spoken, PlainMail, Plain
  <1>9. Inv(m, tb)
    BY <1>4, <1>6, <1>7, <1>8 DEF Inv
  <1> QED  BY <1>9 DEF m

\* Tab t has put items in its document: `up` is what that makes of tb.
Wrote(up, tb, t, items) ==
  /\ DOMAIN up = Tab /\ \A u \in Tab : u # t => up[u] = tb[u]
  /\ DOMAIN up[t] = TabFields
  /\ up[t].doc = tb[t].doc \cup items /\ up[t].ownSent = tb[t].ownSent + 1
  /\ up[t].sock = tb[t].sock /\ up[t].open = tb[t].open /\ up[t].lastSeq = tb[t].lastSeq
  /\ up[t].ready = tb[t].ready /\ (up[t].bound => tb[t].bound) /\ up[t].job = tb[t].job

LEMMA RelayedMessages ==
  ASSUME NEW mail, NEW members, NEW u, Relayed(mail, members, u), NEW x \in Conn
  PROVE  /\ IsSequence(mail[x])
         /\ \A j \in DOMAIN mail[x] : \/ x \in members /\ mail[x][j] = u
                                      \/ ~Brings(mail[x][j]) /\ mail[x][j].type # "joined" /\ mail[x][j].type \in MessageTypes
  <1>1. PICK w : Plain(w) /\ mail[x] = IF x \in members THEN <<u>> \o w ELSE w
    BY DEF Relayed, RelayedTo
  <1>2. CASE x \notin members
    BY <1>1, <1>2 DEF Plain
  <1>3. CASE x \in members
    <2> DEFINE v == <<u>>
    <2>1. v \in Seq({u}) /\ DOMAIN v = {1} /\ v[1] = u /\ Len(v) = 1
      OBVIOUS
    <2>2. IsSequence(v) /\ IsSequence(w) /\ mail[x] = v \o w
      BY <1>1, <1>3, <2>1, SeqOfOwn DEF Plain
    <2> HIDE DEF v
    <2>3. /\ IsSequence(v \o w) /\ DOMAIN (v \o w) = 1..(1 + Len(w)) /\ Len(w) \in Nat
          /\ (v \o w)[1] = v[1]
          /\ \A j \in DOMAIN (v \o w) : j > 1 => j - 1 \in DOMAIN w /\ (v \o w)[j] = w[j - 1]
      <3>1. /\ Len(w) \in Nat /\ IsSequence(v \o w) /\ DOMAIN (v \o w) = 1..(Len(v) + Len(w))
            /\ \A j \in DOMAIN v : (v \o w)[j] = v[j]
            /\ \A j \in DOMAIN (v \o w) : j > Len(v) => j - Len(v) \in DOMAIN w /\ (v \o w)[j] = w[j - Len(v)]
        BY <2>2, QueueIs, QueueJoined
      <3> QED  BY <2>1, <3>1
    <2>4. ASSUME NEW j \in DOMAIN mail[x]
          PROVE  mail[x][j] = u \/ (~Brings(mail[x][j]) /\ mail[x][j].type # "joined" /\ mail[x][j].type \in MessageTypes)
      <3>1. CASE j = 1
        BY <2>1, <2>2, <2>3, <3>1
      <3>2. CASE j # 1
        <4>1. j > 1 /\ j \in DOMAIN (v \o w)
          BY <2>2, <2>3, <3>2
        <4>2. j - 1 \in DOMAIN w /\ mail[x][j] = w[j - 1]
          BY <2>2, <2>3, <4>1
        <4> QED  BY <1>1, <4>2 DEF Plain
      <3> QED  BY <3>1, <3>2
    <2> QED  BY <1>3, <2>2, <2>3, <2>4
  <1> QED  BY <1>2, <1>3

\* An update keeps it, of which the sender's document has the items already.
LEMMA InvRelayed ==
  ASSUME NEW n, NEW tb, Inv(n, tb), NEW t \in Tab, NEW c, c = tb[t].sock, c \in n.up,
         n.room # None, c \in n.room.members, NEW items, NEW up, Wrote(up, tb, t, items),
         \A i \in items : Minted(n, up, i),
         NEW a, Grew(a, n.room, items), a.members = n.room.members,
         NEW mail, Relayed(mail, n.room.members \ {c}, UpdateFrame(n.room, items)),
         NEW m, IsMailed(m, n, a, mail)
  PROVE  Inv(m, up)
  <1> DEFINE r == n.room
             u == UpdateFrame(n.room, items)
  <1>1. NetInv(n) /\ \A x \in Tab : TabInv(n, tb[x])
    BY DEF Inv
  <1>2. RoomInv(r) /\ c \in Conn /\ n.up \subseteq n.used /\ n.used \subseteq Conn
    BY <1>1 DEF NetInv
  <1>3. DOMAIN u = {"type", "seq", "body"} /\ u.type = "update" /\ u.seq = a.seq /\ u.body = items
    BY DEF UpdateFrame, Grew
  <1> HIDE DEF u
  <1>4. \A x \in Conn : IsSequence(mail[x])
    BY RelayedMessages
  <1>5. \A x \in Conn : \A i \in DOMAIN m.down[x] :
           \/ i \in DOMAIN n.down[x] /\ m.down[x][i] = n.down[x][i]
           \/ m.down[x][i] = u
           \/ ~Brings(m.down[x][i]) /\ m.down[x][i].type # "joined" /\ m.down[x][i].type \in MessageTypes
    <2> SUFFICES ASSUME NEW x \in Conn, NEW i \in DOMAIN m.down[x],
                        ~(i \in DOMAIN n.down[x] /\ m.down[x][i] = n.down[x][i])
                 PROVE  m.down[x][i] = u \/ (~Brings(m.down[x][i]) /\ m.down[x][i].type # "joined" /\ m.down[x][i].type \in MessageTypes)
      OBVIOUS
    <2>1. PICK j \in DOMAIN mail[x] : m.down[x][i] = mail[x][j]
      BY <1>1, <1>4, MailedMessages
    <2>2. mail[x][j] = u \/ (~Brings(mail[x][j]) /\ mail[x][j].type # "joined" /\ mail[x][j].type \in MessageTypes)
      BY RelayedMessages DEF u
    <2> QED  BY <2>1, <2>2
  <1>6. NetInv(m)
    BY <1>1, <1>2 DEF NetInv, IsMailed, Grew
  <1>7. ASSUME NEW x \in Conn, NEW k, NEW D, NEW q, q = n.down[x], IsSequence(q), InStep(r, D, k, q),
               x \in r.members, x # c, x \in n.up
        PROVE  InStep(a, D, k, m.down[x])
    <2>1. PICK w : Plain(w) /\ mail[x] = <<u>> \o w
      BY <1>7 DEF Relayed, RelayedTo, u
    <2>2. m.down[x] = Append(q, u) \o w
      <3>1. m.down[x] = q \o (<<u>> \o w)
        BY <1>7, <2>1 DEF IsMailed
      <3>2. IsSequence(q) /\ IsSequence(w)
        BY <1>7, <2>1 DEF Plain
      <3>3. q \o (<<u>> \o w) = Append(q, u) \o w
        BY <3>2, QueueGrown
      <3> QED  BY <3>1, <3>3
    <2>3. InStep(a, D, k, Append(q, u))
      BY <1>2, <1>3, <1>7, InStepHeard
    <2>4. IsSequence(Append(q, u))
      BY <1>7, QueueGrown
    <2> QED  BY <2>1, <2>2, <2>3, <2>4, InStepPlain
  <1>8. ASSUME NEW x \in Tab PROVE TabInv(m, up[x])
    <2> DEFINE b == tb[x]
               y == up[x]
    <2>1. TabInv(n, b)
      BY <1>1
    <2>2. x # t => y = b /\ (b.sock # None => b.sock # c)
      BY DEF Inv, OwnSockets, Wrote
    <2>3. x = t => /\ DOMAIN y = TabFields /\ y.doc = b.doc \cup items /\ y.ownSent = b.ownSent + 1
                   /\ y.sock = c /\ b.sock = c /\ y.open = b.open /\ y.lastSeq = b.lastSeq
                   /\ y.ready = b.ready /\ (y.bound => b.bound) /\ y.job = b.job
      BY DEF Wrote
    <2> HIDE DEF b, y
    <2>4. y.sock = b.sock /\ y.ready = b.ready /\ y.lastSeq = b.lastSeq
      BY <2>2, <2>3
    <2>5. JoinsFirst(m, y)
      <3> SUFFICES ASSUME y.sock \in Conn, NEW i \in DOMAIN m.down[y.sock], m.down[y.sock][i].type = "joined"
                   PROVE  i = 1 /\ ~y.ready
        BY DEF JoinsFirst
      <3>1. i \in DOMAIN n.down[b.sock] /\ n.down[b.sock][i].type = "joined"
        BY <1>3, <1>5, <2>4
      <3>2. JoinsFirst(n, b)
        BY <2>1 DEF TabInv
      <3> QED  BY <2>4, <3>1, <3>2 DEF JoinsFirst
    <2>6. ASSUME y.sock \in m.up, m.room # None, y.sock \in m.room.members
          PROVE  InStep(m.room, y.doc, y.lastSeq, m.down[y.sock])
      <3> DEFINE q == n.down[b.sock]
      <3>1. m.room = a /\ b.sock \in n.up /\ b.sock \in r.members /\ b.sock \in Conn /\ IsSequence(q)
        BY <1>1, <1>2, <2>4, <2>6 DEF IsMailed, NetInv
      <3>2. InStep(r, b.doc, b.lastSeq, q)
        BY <2>1, <3>1 DEF TabInv
      <3> HIDE DEF q
      <3>3. CASE x # t
        <4>1. b.sock # c
          BY <1>2, <2>2, <3>1, <3>3, RoomAssumption
        <4>2. InStep(a, b.doc, b.lastSeq, m.down[b.sock])
          BY <1>7, <3>1, <3>2, <4>1 DEF q
        <4> QED  BY <2>2, <3>1, <3>3, <4>2
      <3>4. CASE x = t
        <4>1. InStep(a, b.doc \cup items, b.lastSeq, q)
          BY <1>2, <3>2, InStepSent
        <4>2. PICK w : Plain(w) /\ mail[c] = w
          BY <1>2 DEF Relayed, RelayedTo
        <4>3. m.down[c] = q \o w
          BY <1>2, <2>3, <3>4, <4>2 DEF IsMailed, q
        <4>4. InStep(a, b.doc \cup items, b.lastSeq, q \o w)
          BY <3>1, <4>1, <4>2, InStepPlain
        <4> QED  BY <2>3, <3>1, <3>4, <4>3, <4>4
      <3> QED  BY <3>3, <3>4
    <2>7. TabInv(m, y)
      <3>1. m.used = n.used
        BY DEF IsMailed
      <3>2. CASE x # t
        BY <2>1, <2>2, <2>5, <2>6, <3>1, <3>2 DEF TabInv
      <3>3. CASE x = t
        <4>1. y.ownSent \in Nat /\ y.sock # None
          BY <1>2, <2>1, <2>3, <3>3, RoomAssumption DEF TabInv
        <4> QED  BY <2>1, <2>3, <2>5, <2>6, <3>1, <3>3, <4>1 DEF TabInv
      <3> QED  BY <3>2, <3>3
    <2> QED  BY <2>7 DEF y
  <1>9. OwnSockets(up)
    <2>1. \A x \in Tab : up[x].sock = tb[x].sock
      BY DEF Wrote
    <2> QED  BY <2>1 DEF Inv, OwnSockets
  <1>10. AllMinted(m, up)
    <2> SUFFICES ASSUME NEW i, Known(m, up, i) PROVE Minted(m, up, i)
      BY DEF AllMinted
    <2>1. Known(n, tb, i) \/ i \in items
      <3>1. CASE \E x \in Tab : i \in up[x].doc
        <4>1. PICK x \in Tab : i \in up[x].doc
          BY <3>1
        <4>2. i \in tb[x].doc \/ i \in items
          BY <4>1 DEF Wrote
        <4> QED  BY <4>2 DEF Known
      <3>2. CASE m.room # None /\ i \in Items(m.room.log)
        <4>1. i \in Items(r.log) \/ i \in items
          BY <3>2 DEF IsMailed, Grew
        <4> QED  BY <4>1 DEF Known
      <3>3. CASE \E x \in Conn : \E j \in DOMAIN m.down[x] : Brings(m.down[x][j]) /\ i \in m.down[x][j].body
        <4>1. PICK x \in Conn : \E j \in DOMAIN m.down[x] : Brings(m.down[x][j]) /\ i \in m.down[x][j].body
          BY <3>3
        <4>2. PICK j \in DOMAIN m.down[x] : Brings(m.down[x][j]) /\ i \in m.down[x][j].body
          BY <4>1
        <4>3. CASE m.down[x][j] = u
          BY <1>3, <4>2, <4>3
        <4>4. CASE j \in DOMAIN n.down[x] /\ m.down[x][j] = n.down[x][j]
          BY <4>2, <4>4 DEF Known
        <4> QED  BY <1>5, <4>2, <4>3, <4>4
      <3> QED  BY <3>1, <3>2, <3>3 DEF Known
    <2>2. Minted(n, up, i)
      <3>1. CASE i \in items
        BY <3>1
      <3>2. CASE Known(n, tb, i)
        <4>1. Minted(n, tb, i)
          BY <3>2 DEF Inv, AllMinted
        <4>2. \A x \in Tab : up[x].sock = tb[x].sock /\ tb[x].ownSent \in Nat
                             /\ (up[x].ownSent = tb[x].ownSent \/ up[x].ownSent = tb[x].ownSent + 1)
          BY <1>1 DEF Wrote, TabInv
        <4> QED  BY <4>1, <4>2 DEF Minted
      <3> QED  BY <2>1, <3>1, <3>2
    <2> QED  BY <2>2 DEF Minted, IsMailed
  <1>11. Spoken(m)
    <2>1. u.type \in MessageTypes
      BY <1>3 DEF MessageTypes
    <2>2. Spoken(n)
      BY DEF Inv
    <2> QED  BY <1>5, <2>1, <2>2 DEF Spoken
  <1> QED  BY <1>6, <1>8, <1>9, <1>10, <1>11 DEF Inv, Wrote

\* A refused update takes its sender out of the room.
LEMMA InvDropped ==
  ASSUME NEW n, NEW tb, Inv(n, tb), NEW t \in Tab, NEW c, c = tb[t].sock, c # None,
         c \notin n.up \/ n.room = None \/ c \notin n.room.members,
         NEW items, NEW up, Wrote(up, tb, t, items), \A i \in items : Minted(n, up, i)
  PROVE  Inv(n, up)
  <1>1. NetInv(n) /\ \A x \in Tab : TabInv(n, tb[x])
    BY DEF Inv
  <1>2. ASSUME NEW x \in Tab PROVE TabInv(n, up[x])
    <2>1. TabInv(n, tb[x])
      BY <1>1
    <2>2. CASE x # t
      BY <2>1, <2>2 DEF Wrote
    <2>3. CASE x = t
      <3> DEFINE b == tb[t]
                 y == up[t]
      <3>1. TabInv(n, b) /\ b.sock = c
        BY <2>1, <2>3
      <3>2. /\ DOMAIN y = TabFields /\ y.doc = b.doc \cup items /\ y.ownSent = b.ownSent + 1
            /\ y.sock = c /\ y.open = b.open /\ y.lastSeq = b.lastSeq
            /\ y.ready = b.ready /\ (y.bound => b.bound) /\ y.job = b.job
        BY DEF Wrote
      <3> HIDE DEF b, y
      <3>3. JoinsFirst(n, y)
        BY <3>1, <3>2 DEF TabInv, JoinsFirst
      <3>4. TabInv(n, y)
        BY <3>1, <3>2, <3>3 DEF TabInv
      <3> QED  BY <2>3, <3>4 DEF y
    <2> QED  BY <2>2, <2>3
  <1>3. OwnSockets(up)
    <2>1. \A x \in Tab : up[x].sock = tb[x].sock
      BY DEF Wrote
    <2> QED  BY <2>1 DEF Inv, OwnSockets
  <1>4. AllMinted(n, up)
    <2> SUFFICES ASSUME NEW i, Known(n, up, i) PROVE Minted(n, up, i)
      BY DEF AllMinted
    <2>1. \A x \in Tab : i \in up[x].doc => i \in tb[x].doc \/ i \in items
      BY DEF Wrote
    <2>2. Known(n, tb, i) \/ i \in items
      BY <2>1 DEF Known
    <2>3. CASE Known(n, tb, i)
      <3>1. Minted(n, tb, i)
        BY <2>3 DEF Inv, AllMinted
      <3>2. \A x \in Tab : up[x].sock = tb[x].sock /\ tb[x].ownSent \in Nat
                           /\ (up[x].ownSent = tb[x].ownSent \/ up[x].ownSent = tb[x].ownSent + 1)
        BY <1>1 DEF Wrote, TabInv
      <3> QED  BY <3>1, <3>2 DEF Minted
    <2> QED  BY <2>2, <2>3
  <1> QED  BY <1>1, <1>2, <1>3, <1>4 DEF Inv, Wrote

UpdateOf(items)    == [type |-> "update", body |-> items]
SavedOf(recv, own) == [type |-> "saved", recv |-> recv, own |-> own]
SnapshotOf(k, D)   == [type |-> "snapshot", ack |-> k, body |-> D]

LEMMA HandledUpdate ==
  ASSUME NEW n, NEW tb, Inv(n, tb), NEW t \in Tab, NEW c, c = tb[t].sock, c # None,
         NEW items, NEW up, Wrote(up, tb, t, items), \A i \in items : Minted(n, up, i), NEW quiet
  PROVE  Inv(Handled(n, c, UpdateOf(items), quiet), up)
  <1> DEFINE h == Handled(n, c, UpdateOf(items), quiet)
             r == n.room
             a == AfterUpdate(r, c, c, items, 1, quiet)
             mail == UpdateMail(r, c, c, items, 1, quiet)
  <1>1. CASE c \notin n.up \/ r = None \/ c \notin r.members
    <2>1. h = n
      BY <1>1 DEF Handled
    <2> HIDE DEF h
    <2>2. Inv(n, up)
      BY <1>1, InvDropped
    <2> QED  BY <2>1, <2>2 DEF h
  <1>2. CASE ~(c \notin n.up \/ r = None \/ c \notin r.members)
    <2>1. h = Mailed(n, a, mail)
      BY <1>2 DEF Handled, UpdateOf
    <2>2. NetInv(n) /\ RoomInv(r)
      BY <1>2 DEF Inv, NetInv
    <2>3. Grew(a, r, items) /\ a.members = r.members
      BY <2>2, UpdatedLog DEF Grew
    <2>4. Relayed(mail, r.members \ {c}, UpdateFrame(r, items))
      BY <2>2, UpdateMailIs DEF Relayed
    <2> HIDE DEF h, a, mail
    <2>5. \A x \in Conn : IsSequence(mail[x])
      BY <2>4, RelayedMessages
    <2>6. IsMailed(h, n, a, mail)
      BY <2>1, <2>2, <2>5, MailedIs
    <2>7. Inv(h, up)
      BY <1>2, <2>3, <2>4, <2>6, InvRelayed
    <2> QED  BY <2>7 DEF h
  <1> QED  BY <1>1, <1>2

LEMMA HandledSaved ==
  ASSUME NEW n, NEW tb, Inv(n, tb), NEW c, NEW recv, NEW own, NEW quiet
  PROVE  Inv(Handled(n, c, SavedOf(recv, own), quiet), tb)
  <1> DEFINE h == Handled(n, c, SavedOf(recv, own), quiet)
             r == n.room
             a == MarkedSaved(r, c, recv, own)
  <1>1. CASE c \notin n.up \/ r = None \/ c \notin r.members
    <2>1. h = n
      BY <1>1 DEF Handled
    <2> QED  BY <2>1
  <1>2. CASE ~(c \notin n.up \/ r = None \/ c \notin r.members)
    <2>1. h = Mailed(n, a, Silence)
      BY <1>2 DEF Handled, SavedOf
    <2>2. RoomInv(r)
      BY <1>2 DEF Inv, NetInv
    <2>3. SameRoom(a, r)
      BY <1>2, <2>2, MarkedLog DEF SameRoom
    <2> HIDE DEF h, a
    <2>4. Inv(h, tb)
      BY <2>1, <2>3, PlainSilence, InvPlain
    <2> QED  BY <2>4 DEF h
  <1> QED  BY <1>1, <1>2

LEMMA HandledSnapshot ==
  ASSUME NEW n, NEW tb, Inv(n, tb), NEW t \in Tab, NEW c, c = tb[t].sock, NEW quiet
  PROVE  Inv(Handled(n, c, SnapshotOf(tb[t].lastSeq, tb[t].doc), quiet), tb)
  <1> DEFINE D == tb[t].doc
             k == tb[t].lastSeq
             h == Handled(n, c, SnapshotOf(k, D), quiet)
             r == n.room
             a == Compacted(r, k, D, 1)
  <1>1. CASE c \notin n.up \/ r = None \/ c \notin r.members \/ c # r.saver \/ ~r.asked \/ ~AcceptsSnapshot(r, k, 1)
    <2>1. h = n
      BY <1>1 DEF Handled, SnapshotOf
    <2> QED  BY <2>1
  <1>2. CASE ~(c \notin n.up \/ r = None \/ c \notin r.members \/ c # r.saver \/ ~r.asked \/ ~AcceptsSnapshot(r, k, 1))
    <2>1. h = Mailed(n, a, Silence)
      BY <1>2 DEF Handled, SnapshotOf
    <2>2. RoomInv(r)
      BY <1>2 DEF Inv, NetInv
    <2>3. InStep(r, D, k, n.down[c])
      BY <1>2 DEF Inv, TabInv
    <2>4. D \subseteq Items(r.log)
      BY <2>3 DEF InStep, Arrived
    <2>5. SameRoom(a, r)
      <3> HIDE DEF D, k
      <3>1. RoomInv(a) /\ a.members = r.members /\ a.seq = r.seq /\ SameLog(a.log, r.log)
        BY <2>2, <2>3, <2>4, CompactedLog
      <3> HIDE DEF a
      <3> QED  BY <1>2, <3>1 DEF SameRoom
    <2> HIDE DEF h, a
    <2>6. Inv(h, tb)
      BY <2>1, <2>5, PlainSilence, InvPlain
    <2> QED  BY <2>6 DEF h
  <1> QED  BY <1>1, <1>2

-----------------------------------------------------------------------------
(* What a session does to the invariant.                                   *)

\* A tab's record changed in nothing the room can tell.
SameSession(x, b) ==
  /\ DOMAIN x = TabFields /\ x.doc = b.doc /\ x.ownSent = b.ownSent /\ x.sock = b.sock
  /\ x.lastSeq = b.lastSeq /\ x.ready = b.ready
  /\ (x.bound => b.ready) /\ (~x.open => b.sock = None) /\ (x.job # None => x.job.sock # None)

Only(up, tb, t) == DOMAIN up = Tab /\ \A u \in Tab : u # t => up[u] = tb[u]

LEMMA InvSame ==
  ASSUME NEW n, NEW tb, Inv(n, tb), NEW t \in Tab, NEW up, Only(up, tb, t), SameSession(up[t], tb[t])
  PROVE  Inv(n, up)
  <1>1. NetInv(n) /\ \A x \in Tab : TabInv(n, tb[x])
    BY DEF Inv
  <1>2. ASSUME NEW x \in Tab PROVE TabInv(n, up[x])
    <2>1. TabInv(n, tb[x])
      BY <1>1
    <2>2. CASE x # t
      BY <2>1, <2>2 DEF Only
    <2>3. CASE x = t
      <3> DEFINE b == tb[t]
                 y == up[t]
      <3>1. TabInv(n, b) /\ SameSession(y, b)
        BY <2>1, <2>3
      <3> HIDE DEF b, y
      <3>2. JoinsFirst(n, y)
        BY <3>1 DEF TabInv, JoinsFirst, SameSession
      <3>3. TabInv(n, y)
        BY <3>1, <3>2 DEF TabInv, SameSession
      <3> QED  BY <2>3, <3>3 DEF y
    <2> QED  BY <2>2, <2>3
  <1>3. \A x \in Tab : up[x].sock = tb[x].sock /\ up[x].ownSent = tb[x].ownSent /\ up[x].doc = tb[x].doc
    BY DEF Only, SameSession
  <1>4. OwnSockets(up)
    BY <1>3 DEF Inv, OwnSockets
  <1>5. AllMinted(n, up)
    <2> SUFFICES ASSUME NEW i, Known(n, up, i) PROVE Minted(n, up, i)
      BY DEF AllMinted
    <2>1. Known(n, tb, i)
      BY <1>3 DEF Known
    <2>2. Minted(n, tb, i)
      BY <2>1 DEF Inv, AllMinted
    <2> QED  BY <1>3, <2>2 DEF Minted
  <1> QED  BY <1>1, <1>2, <1>4, <1>5 DEF Inv, Only

UpTab(t, b) == [tab EXCEPT ![t] = b]

LEMMA UpTabIs ==
  ASSUME DOMAIN tab = Tab, NEW t \in Tab, NEW b
  PROVE  DOMAIN UpTab(t, b) = Tab /\ UpTab(t, b)[t] = b /\ \A u \in Tab : u # t => UpTab(t, b)[u] = tab[u]
  BY DEF UpTab

\* The net once the frames of s are handled, and the tabs with what s leaves.
NetOf(t, now, quiet, s) == AllHandled(now, tab[t].sock, s.out, quiet)

\* The invariant holds if tab t leaves it at s.
Ses(t, now, quiet, s) ==
  /\ DOMAIN s = {"tab", "out"} /\ IsSequence(s.out) /\ s.tab.sock = tab[t].sock
  /\ DOMAIN tab = Tab
  /\ Inv(NetOf(t, now, quiet, s), UpTab(t, s.tab))

LEMMA SesTabInv ==
  ASSUME NEW t \in Tab, NEW now, NEW quiet, NEW s, Ses(t, now, quiet, s)
  PROVE  TabInv(NetOf(t, now, quiet, s), s.tab)
  <1>1. UpTab(t, s.tab)[t] = s.tab
    BY UpTabIs DEF Ses
  <1> QED  BY <1>1 DEF Ses, Inv

LEMMA SesFields ==
  ASSUME NEW t \in Tab, NEW now, NEW quiet, NEW s, Ses(t, now, quiet, s)
  PROVE  /\ DOMAIN s = {"tab", "out"} /\ IsSequence(s.out) /\ DOMAIN s.tab = TabFields
         /\ s.tab.ownSent \in Nat
         /\ (s.tab.bound => s.tab.ready) /\ (s.tab.ready => s.tab.sock # None)
         /\ (~s.tab.open => s.tab.sock = None) /\ (s.tab.job # None => s.tab.job.sock # None)
  BY SesTabInv DEF Ses, TabInv

LEMMA SesSame ==
  ASSUME NEW t \in Tab, NEW now, NEW quiet, NEW s, Ses(t, now, quiet, s),
         NEW x, DOMAIN x = {"tab", "out"}, x.out = s.out, SameSession(x.tab, s.tab)
  PROVE  Ses(t, now, quiet, x)
  <1> DEFINE n == NetOf(t, now, quiet, s)
             tb == UpTab(t, s.tab)
             up == UpTab(t, x.tab)
  <1>1. Inv(n, tb) /\ DOMAIN tab = Tab
    BY DEF Ses
  <1>2. Only(up, tb, t) /\ up[t] = x.tab /\ tb[t] = s.tab
    BY <1>1, UpTabIs DEF Only
  <1>3. NetOf(t, now, quiet, x) = n
    BY DEF NetOf
  <1> HIDE DEF n, tb, up
  <1>4. Inv(n, up)
    BY <1>1, <1>2, InvSame
  <1> QED  BY <1>3, <1>4 DEF Ses, SameSession, up

LEMMA NetGrown ==
  ASSUME NEW t, NEW now, NEW quiet, NEW s, IsSequence(s.out), NEW f, NEW x, x.out = Append(s.out, f)
  PROVE  NetOf(t, now, quiet, x) = Handled(NetOf(t, now, quiet, s), tab[t].sock, f, quiet)
  <1> DEFINE out == s.out
             S == {out[i] : i \in DOMAIN out} \cup {f}
  <1>1. out \in Seq(S) /\ f \in S
    BY DEF IsSequence
  <1> HIDE DEF S, out
  <1>2. AllHandled(now, tab[t].sock, Append(out, f), quiet)
          = Handled(AllHandled(now, tab[t].sock, out, quiet), tab[t].sock, f, quiet)
    BY <1>1, OneMoreHandled
  <1> QED  BY <1>2 DEF NetOf, out

LEMMA SesConfirm ==
  ASSUME NEW t \in Tab, NEW now, NEW quiet, NEW s, Ses(t, now, quiet, s), NEW recv, NEW own
  PROVE  LET x == Confirm(s, recv, own) IN Ses(t, now, quiet, x) /\ x.tab = s.tab
  <1> DEFINE x == Confirm(s, recv, own)
             n == NetOf(t, now, quiet, s)
             f == SavedOf(recv, own)
  <1>1. DOMAIN x = {"tab", "out"} /\ x.tab = s.tab /\ x.out = Append(s.out, f)
    BY DEF Confirm, Send, Ses, SavedOf
  <1> HIDE DEF x, f
  <1>2. IsSequence(s.out) /\ IsSequence(x.out)
    <2>1. IsSequence(s.out)
      BY DEF Ses
    <2>2. IsSequence(Append(s.out, f))
      BY <2>1, QueueGrown
    <2> QED  BY <1>1, <2>1, <2>2
  <1>3. NetOf(t, now, quiet, x) = Handled(n, tab[t].sock, f, quiet)
    BY <1>1, <1>2, NetGrown
  <1>4. Inv(NetOf(t, now, quiet, x), UpTab(t, x.tab))
    BY <1>1, <1>3, HandledSaved DEF Ses, f
  <1>5. Ses(t, now, quiet, x)
    BY <1>1, <1>2, <1>4 DEF Ses
  <1> QED  BY <1>1, <1>5 DEF x

LEMMA SesConfirmAll ==
  ASSUME NEW t \in Tab, NEW now, NEW quiet, NEW s, Ses(t, now, quiet, s)
  PROVE  Ses(t, now, quiet, ConfirmAll(s)) /\ ConfirmAll(s).tab = s.tab
  BY SesConfirm DEF ConfirmAll

LEMMA SesSnapshot ==
  ASSUME NEW t \in Tab, NEW now, NEW quiet, NEW s, Ses(t, now, quiet, s)
  PROVE  LET x == Send(s, [type |-> "snapshot", ack |-> s.tab.lastSeq, body |-> s.tab.doc])
         IN  Ses(t, now, quiet, x) /\ x.tab = s.tab
  <1> DEFINE f == SnapshotOf(s.tab.lastSeq, s.tab.doc)
             x == Send(s, f)
             n == NetOf(t, now, quiet, s)
             tb == UpTab(t, s.tab)
  <1>1. DOMAIN x = {"tab", "out"} /\ x.tab = s.tab /\ x.out = Append(s.out, f)
    BY DEF Send, Ses
  <1>2. tb[t] = s.tab /\ Inv(n, tb) /\ tab[t].sock = s.tab.sock
    BY UpTabIs DEF Ses
  <1> HIDE DEF x, n, tb
  <1>3. Inv(Handled(n, tab[t].sock, f, quiet), tb)
    BY <1>2, HandledSnapshot
  <1> HIDE DEF f
  <1>4. IsSequence(s.out) /\ IsSequence(x.out)
    <2>1. IsSequence(s.out)
      BY DEF Ses
    <2>2. IsSequence(Append(s.out, f))
      BY <2>1, QueueGrown
    <2> QED  BY <1>1, <2>1, <2>2
  <1>5. NetOf(t, now, quiet, x) = Handled(n, tab[t].sock, f, quiet)
    BY <1>1, <1>4, NetGrown DEF n
  <1>6. Ses(t, now, quiet, x)
    BY <1>1, <1>3, <1>4, <1>5 DEF Ses, tb
  <1> QED  BY <1>1, <1>6 DEF x, f, SnapshotOf

\* The ids of the items are id's or those of text in d.
OwnItems(items, d, id) ==
  \A i \in items : "put" \in DOMAIN i \/ "by" \in DOMAIN i =>
    /\ "by" \in DOMAIN i
    /\ i.by = id \/ \E j \in d : "put" \in DOMAIN j /\ i.by = j.by

LEMMA RewriteOwn == \A d, text, id : OwnItems(Rewrite(d, text, id), d, id)
  <1> SUFFICES ASSUME NEW d, NEW text, NEW id, NEW i \in Rewrite(d, text, id)
               PROVE  "by" \in DOMAIN i /\ (i.by = id \/ \E j \in d : "put" \in DOMAIN j /\ i.by = j.by)
    BY DEF OwnItems
  <1>1. CASE \E p \in text \ Text(d) : i = Inserted(p, id)
    BY <1>1 DEF Inserted
  <1>2. CASE \E j \in Shown(d) : i = Deleted(j.put, j.by)
    <2>1. PICK j \in Shown(d) : i = Deleted(j.put, j.by)
      BY <1>2
    <2>2. j \in d /\ "put" \in DOMAIN j
      BY DEF Shown, Has
    <2>3. "by" \in DOMAIN i /\ i.by = j.by
      BY <2>1 DEF Deleted
    <2> QED  BY <2>2, <2>3
  <1> QED  BY <1>1, <1>2 DEF Rewrite

LEMMA MetaOwn == \A items, d, id : Meta(items) => OwnItems(items, d, id)
  BY DEF Meta, OwnItems

LEMMA OwnMinted ==
  ASSUME NEW n, NEW tb, Inv(n, tb), NEW t \in Tab, tb[t].sock # None,
         NEW items, NEW up, Wrote(up, tb, t, items),
         OwnItems(items, tb[t].doc, <<tb[t].sock, tb[t].ownSent + 1>>), NEW i \in items
  PROVE  Minted(n, up, i)
  <1> SUFFICES ASSUME "put" \in DOMAIN i \/ "by" \in DOMAIN i
               PROVE  /\ "by" \in DOMAIN i /\ i.by[1] \in n.used /\ i.by[2] \in Nat
                      /\ \A x \in Tab : up[x].sock = i.by[1] => i.by[2] <= up[x].ownSent
    BY DEF Minted
  <1>1. /\ "by" \in DOMAIN i
        /\ \/ i.by = <<tb[t].sock, tb[t].ownSent + 1>>
           \/ \E j \in tb[t].doc : "put" \in DOMAIN j /\ i.by = j.by
    BY DEF OwnItems
  <1>2. /\ \A x \in Tab : up[x].sock = tb[x].sock /\ tb[x].ownSent \in Nat
        /\ \A x \in Tab : x # t => up[x].ownSent = tb[x].ownSent
        /\ up[t].ownSent = tb[t].ownSent + 1 /\ tb[t].sock \in n.used
    BY DEF Wrote, Inv, TabInv
  <1>3. CASE i.by = <<tb[t].sock, tb[t].ownSent + 1>>
    <2>1. i.by[1] = tb[t].sock /\ i.by[2] = tb[t].ownSent + 1
      BY <1>3
    <2>2. \A x \in Tab : up[x].sock = i.by[1] => x = t
      BY <1>2, <2>1 DEF Inv, OwnSockets
    <2> QED  BY <1>1, <1>2, <2>1, <2>2
  <1>4. CASE \E j \in tb[t].doc : "put" \in DOMAIN j /\ i.by = j.by
    <2>1. PICK j \in tb[t].doc : "put" \in DOMAIN j /\ i.by = j.by
      BY <1>4
    <2>2. Minted(n, tb, j)
      <3>1. Known(n, tb, j)
        BY DEF Known
      <3> QED  BY <3>1 DEF Inv, AllMinted
    <2>3. /\ j.by[1] \in n.used /\ j.by[2] \in Nat
          /\ \A x \in Tab : tb[x].sock = j.by[1] => j.by[2] <= tb[x].ownSent
      BY <2>1, <2>2 DEF Minted
    <2>4. \A x \in Tab : tb[x].ownSent <= up[x].ownSent /\ up[x].ownSent \in Nat
      BY <1>2
    <2>5. i.by = j.by
      BY <2>1
    <2>6. ASSUME NEW x \in Tab, up[x].sock = i.by[1] PROVE i.by[2] <= up[x].ownSent
      <3>1. j.by[2] <= tb[x].ownSent
        BY <1>2, <2>3, <2>5, <2>6
      <3>2. j.by[2] \in Nat /\ tb[x].ownSent \in Nat /\ tb[x].ownSent <= up[x].ownSent /\ up[x].ownSent \in Nat
        BY <1>2, <2>3, <2>4
      <3> QED  BY <2>5, <3>1, <3>2
    <2> QED  BY <1>1, <2>3, <2>5, <2>6
  <1> QED  BY <1>1, <1>3, <1>4

LEMMA SesFresh ==
  ASSUME NEW t \in Tab, NEW now, NEW quiet, NEW s, Ses(t, now, quiet, s), s.tab.sock # None
  PROVE  Unused(s.tab.doc, NextId(s))
  <1> DEFINE n == NetOf(t, now, quiet, s)
             tb == UpTab(t, s.tab)
             b == s.tab
  <1>1. Inv(n, tb) /\ tb[t] = b
    BY UpTabIs DEF Ses
  <1>2. b.ownSent \in Nat
    BY SesFields
  <1> HIDE DEF n, tb, b
  <1>3. ASSUME NEW i \in b.doc, "by" \in DOMAIN i, i.by = <<b.sock, b.ownSent + 1>> PROVE FALSE
    <2>1. Minted(n, tb, i)
      <3>1. Known(n, tb, i)
        BY <1>1, <1>3 DEF Known
      <3> QED  BY <1>1, <3>1 DEF Inv, AllMinted
    <2>2. i.by[1] = b.sock /\ i.by[2] = b.ownSent + 1
      BY <1>3
    <2>3. i.by[2] <= b.ownSent
      BY <1>1, <1>3, <2>1, <2>2 DEF Minted
    <2> QED  BY <1>2, <2>2, <2>3
  <1> QED  BY <1>3 DEF Unused, NextId, b

\* x is s with other items in the document, and the same on screen.
LikeTab(x, s) ==
  /\ x.tab.editor = s.tab.editor /\ x.tab.bound = s.tab.bound /\ x.tab.ready = s.tab.ready
  /\ x.tab.sock = s.tab.sock /\ x.tab.saver = s.tab.saver /\ x.tab.base = s.tab.base

\* An edit of the document with items of its own, sent as an update, ...
LEMMA SesEdit ==
  ASSUME NEW t \in Tab, NEW now, NEW quiet, NEW s, Ses(t, now, quiet, s), s.tab.sock # None,
         NEW items, OwnItems(items, s.tab.doc, NextId(s))
  PROVE  LET x == Edit(s, items)
         IN  Ses(t, now, quiet, x) /\ LikeTab(x, s) /\ x.tab.doc = s.tab.doc \cup items
  <1> DEFINE x == Edit(s, items)
             n == NetOf(t, now, quiet, s)
             tb == UpTab(t, s.tab)
             up == UpTab(t, x.tab)
             f == UpdateOf(items)
  <1>1. CASE items = {}
    <2>1. x = s
      BY <1>1 DEF Edit
    <2> QED  BY <1>1, <2>1 DEF LikeTab
  <1>2. CASE items # {}
    <2>1. DOMAIN s = {"tab", "out"} /\ DOMAIN s.tab = TabFields /\ IsSequence(s.out)
      BY SesFields
    <2>2. /\ DOMAIN x = {"tab", "out"} /\ x.out = Append(s.out, f) /\ DOMAIN x.tab = TabFields
          /\ x.tab.doc = s.tab.doc \cup items /\ x.tab.ownSent = s.tab.ownSent + 1
          /\ x.tab.open = s.tab.open /\ x.tab.lastSeq = s.tab.lastSeq /\ x.tab.job = s.tab.job
          /\ LikeTab(x, s)
      BY <1>2, <2>1 DEF Edit, UpdateOf, TabFields, LikeTab
    <2>3. /\ Inv(n, tb) /\ tb[t] = s.tab /\ up[t] = x.tab /\ tab[t].sock = s.tab.sock
          /\ DOMAIN up = Tab /\ \A u \in Tab : u # t => up[u] = tb[u]
      BY UpTabIs DEF Ses
    <2> HIDE DEF x, n, tb, up, f
    <2>4. Wrote(up, tb, t, items)
      BY <2>2, <2>3 DEF Wrote, LikeTab
    <2>5. \A i \in items : Minted(n, up, i)
      BY <2>3, <2>4, OwnMinted DEF NextId
    <2>6. Inv(Handled(n, tab[t].sock, f, quiet), up)
      BY <2>3, <2>4, <2>5, HandledUpdate DEF f
    <2>7. NetOf(t, now, quiet, x) = Handled(n, tab[t].sock, f, quiet)
      BY <2>1, <2>2, NetGrown DEF n
    <2>8. IsSequence(x.out)
      <3>1. IsSequence(Append(s.out, f))
        BY <2>1, QueueGrown
      <3> QED  BY <2>2, <3>1
    <2>9. Ses(t, now, quiet, x)
      BY <2>2, <2>6, <2>7, <2>8 DEF Ses, up, LikeTab
    <2> QED  BY <2>2, <2>9 DEF x
  <1> QED  BY <1>1, <1>2

\* ... and the text that is written into it.
LEMMA SesWrite ==
  ASSUME NEW t \in Tab, NEW now, NEW quiet, NEW s, Ses(t, now, quiet, s), s.tab.sock # None, NEW text
  PROVE  LET x == Write(s, text)
         IN  Ses(t, now, quiet, x) /\ LikeTab(x, s) /\ Text(x.tab.doc) = text
  <1> DEFINE items == Rewrite(s.tab.doc, text, NextId(s))
             x == Write(s, text)
  <1>1. x = Edit(s, items)
    BY DEF Write
  <1>2. OwnItems(items, s.tab.doc, NextId(s))
    BY RewriteOwn
  <1>3. Text(s.tab.doc \cup items) = text
    BY SesFresh, TextWritten
  <1> HIDE DEF items, x
  <1>4. Ses(t, now, quiet, x) /\ LikeTab(x, s) /\ x.tab.doc = s.tab.doc \cup items
    BY <1>1, <1>2, SesEdit
  <1> QED  BY <1>3, <1>4 DEF x

LEMMA SesAgreed ==
  ASSUME NEW t \in Tab, NEW now, NEW quiet, NEW s, Ses(t, now, quiet, s), s.tab.sock # None,
         NEW base, NEW md, NEW dirty
  PROVE  LET x == SetAgreed(s, base, md, dirty)
         IN  Ses(t, now, quiet, x) /\ LikeTab(x, s) /\ Text(x.tab.doc) = Text(s.tab.doc)
  <1> DEFINE items == Agree(s.tab.doc, s.tab.sock, base, md, dirty)
             x == SetAgreed(s, base, md, dirty)
  <1>1. x = Edit(s, items)
    BY DEF SetAgreed
  <1>2. Meta(items)
    BY AgreeMeta
  <1> HIDE DEF items, x
  <1>3. OwnItems(items, s.tab.doc, NextId(s))
    BY <1>2, MetaOwn
  <1>4. Text(s.tab.doc \cup items) = Text(s.tab.doc)
    BY <1>2, TextMeta
  <1>5. Ses(t, now, quiet, x) /\ LikeTab(x, s) /\ x.tab.doc = s.tab.doc \cup items
    BY <1>1, <1>3, SesEdit
  <1> QED  BY <1>4, <1>5 DEF x

LEMMA SesDue ==
  ASSUME NEW t \in Tab, NEW now, NEW quiet, NEW s, Ses(t, now, quiet, s)
  PROVE  LET x == Due(s) IN Ses(t, now, quiet, x) /\ LikeTab(x, s) /\ x.tab.doc = s.tab.doc
  <1> DEFINE x == Due(s)
  <1>1. /\ DOMAIN s = {"tab", "out"} /\ DOMAIN s.tab = TabFields
        /\ (s.tab.bound => s.tab.ready) /\ (~s.tab.open => s.tab.sock = None)
        /\ (s.tab.job # None => s.tab.job.sock # None)
    BY SesFields
  <1>2. /\ DOMAIN x = {"tab", "out"} /\ x.out = s.out /\ SameSession(x.tab, s.tab)
        /\ LikeTab(x, s) /\ x.tab.doc = s.tab.doc
    BY <1>1 DEF Due, SameSession, LikeTab, TabFields
  <1> HIDE DEF x
  <1>3. Ses(t, now, quiet, x)
    BY <1>2, SesSame
  <1> QED  BY <1>2, <1>3 DEF x

LEMMA SesLook ==
  ASSUME NEW t \in Tab, NEW now, NEW quiet, NEW s, Ses(t, now, quiet, s), NEW became
  PROVE  LET x == Look(s, became) IN Ses(t, now, quiet, x) /\ LikeTab(x, s) /\ x.tab.doc = s.tab.doc
  <1> DEFINE x == Look(s, became)
  <1>1. /\ DOMAIN s = {"tab", "out"} /\ DOMAIN s.tab = TabFields
        /\ (s.tab.bound => s.tab.ready) /\ (~s.tab.open => s.tab.sock = None)
        /\ (s.tab.job # None => s.tab.job.sock # None)
    BY SesFields
  <1>2. /\ DOMAIN x = {"tab", "out"} /\ x.out = s.out /\ SameSession(x.tab, s.tab)
        /\ LikeTab(x, s) /\ x.tab.doc = s.tab.doc
    BY <1>1 DEF Look, SameSession, LikeTab, TabFields
  <1> HIDE DEF x
  <1>3. Ses(t, now, quiet, x)
    BY <1>2, SesSame
  <1> QED  BY <1>2, <1>3 DEF x

\* What ShowsRoom says of one tab.
Shows(b) == b.bound => b.editor = Text(b.doc)

Good(t, now, quiet, s) == Ses(t, now, quiet, s) /\ Shows(s.tab)

LEMMA GoodDue ==
  ASSUME NEW t \in Tab, NEW now, NEW quiet, NEW s, Good(t, now, quiet, s)
  PROVE  Good(t, now, quiet, Due(s)) /\ LikeTab(Due(s), s)
  <1>1. Ses(t, now, quiet, Due(s)) /\ LikeTab(Due(s), s) /\ Due(s).tab.doc = s.tab.doc
    BY SesDue DEF Good
  <1> QED  BY <1>1 DEF Good, Shows, LikeTab

LEMMA GoodLook ==
  ASSUME NEW t \in Tab, NEW now, NEW quiet, NEW s, Good(t, now, quiet, s), NEW became
  PROVE  Good(t, now, quiet, Look(s, became)) /\ LikeTab(Look(s, became), s)
  <1>1. /\ Ses(t, now, quiet, Look(s, became)) /\ LikeTab(Look(s, became), s)
        /\ Look(s, became).tab.doc = s.tab.doc
    BY SesLook DEF Good
  <1> QED  BY <1>1 DEF Good, Shows, LikeTab

\* From the moment a tab is bound it shows the room.
LEMMA GoodBound ==
  ASSUME NEW t \in Tab, NEW now, NEW quiet, NEW s, Ses(t, now, quiet, s), s.tab.ready
  PROVE  Good(t, now, quiet, Bound(s))
  <1> DEFINE x == [s EXCEPT !.tab.bound = TRUE, !.tab.seed = FALSE, !.tab.editor = Text(s.tab.doc)]
  <1>1. /\ DOMAIN s = {"tab", "out"} /\ DOMAIN s.tab = TabFields
        /\ (s.tab.bound => s.tab.ready) /\ (~s.tab.open => s.tab.sock = None)
        /\ (s.tab.job # None => s.tab.job.sock # None)
    BY SesFields
  <1>2. /\ DOMAIN x = {"tab", "out"} /\ x.out = s.out /\ SameSession(x.tab, s.tab) /\ Shows(x.tab)
    BY <1>1 DEF SameSession, Shows, TabFields
  <1>3. Bound(s) = IF x.tab.saver THEN Look(x, TRUE) ELSE x
    BY DEF Bound
  <1> HIDE DEF x
  <1>4. Good(t, now, quiet, x)
    BY <1>2, SesSame DEF Good
  <1> QED  BY <1>3, <1>4, GoodLook

LEMMA GoodSeeded ==
  ASSUME NEW t \in Tab, NEW now, NEW quiet, NEW s, Ses(t, now, quiet, s), s.tab.ready
  PROVE  Good(t, now, quiet, Seeded(s))
  <1> DEFINE e == Write(s, s.tab.editor)
             clean == Clean(s.tab)
             a == SetAgreed(e, s.tab.base, s.tab.base, ~clean)
             x == IF clean THEN ConfirmAll(a) ELSE Due(a)
  <1>1. s.tab.sock # None
    BY SesFields
  <1>2. Ses(t, now, quiet, e) /\ LikeTab(e, s)
    BY <1>1, SesWrite
  <1>3. Ses(t, now, quiet, a) /\ LikeTab(a, e)
    <2> HIDE DEF e
    <2>1. e.tab.sock # None
      BY <1>1, <1>2 DEF LikeTab
    <2> QED  BY <1>2, <2>1, SesAgreed
  <1>4. Seeded(s) = Bound(x)
    BY DEF Seeded
  <1>5. Ses(t, now, quiet, x) /\ x.tab.ready = a.tab.ready
    <2> HIDE DEF a, clean
    <2>1. Ses(t, now, quiet, ConfirmAll(a)) /\ ConfirmAll(a).tab = a.tab
      BY <1>3, SesConfirmAll
    <2>2. Ses(t, now, quiet, Due(a)) /\ Due(a).tab.ready = a.tab.ready
      BY <1>3, SesDue DEF LikeTab
    <2> QED  BY <2>1, <2>2
  <1> HIDE DEF x, a, e, clean
  <1>6. x.tab.ready
    BY <1>2, <1>3, <1>5 DEF LikeTab
  <1> QED  BY <1>4, <1>5, <1>6, GoodBound

LEMMA GoodMaybeBind ==
  ASSUME NEW t \in Tab, NEW now, NEW quiet, NEW s, Ses(t, now, quiet, s), s.tab.bound => Shows(s.tab)
  PROVE  Good(t, now, quiet, MaybeBind(s))
  <1>1. CASE ~CanBind(s.tab)
    <2>1. MaybeBind(s) = s
      BY <1>1 DEF MaybeBind
    <2> QED  BY <2>1 DEF Good, Shows
  <1>2. CASE CanBind(s.tab)
    <2>1. s.tab.ready
      BY <1>2 DEF CanBind, Waits
    <2>2. MaybeBind(s) = Seeded(s) \/ MaybeBind(s) = Bound(s)
      BY <1>2 DEF MaybeBind
    <2> QED  BY <2>1, <2>2, GoodSeeded, GoodBound
  <1> QED  BY <1>1, <1>2

LEMMA GoodSaves ==
  ASSUME NEW t \in Tab, NEW now, NEW quiet, NEW s, Good(t, now, quiet, s)
  PROVE  Good(t, now, quiet, Saves(s))
  <1> DEFINE b == s.tab
             job == [answer |-> Answer(Base(b.doc)), text |-> b.editor,
                     recv |-> b.lastSeq, own |-> b.ownSent, sock |-> b.sock]
             x == [s EXCEPT !.tab.job = job]
  <1>1. CASE Saves(s) = s
    BY <1>1
  <1>2. CASE Saves(s) = ConfirmAll(s)
    <2>1. Ses(t, now, quiet, ConfirmAll(s)) /\ ConfirmAll(s).tab = s.tab
      BY SesConfirmAll DEF Good
    <2> QED  BY <1>2, <2>1 DEF Good
  <1>3. CASE s.tab.bound /\ Saves(s) = x
    <2>1. /\ DOMAIN s = {"tab", "out"} /\ DOMAIN s.tab = TabFields
          /\ s.tab.ready /\ s.tab.sock # None /\ (~s.tab.open => s.tab.sock = None)
      BY <1>3, SesFields DEF Good
    <2>2. job.sock = s.tab.sock
      OBVIOUS
    <2> HIDE DEF job
    <2>3. /\ DOMAIN x = {"tab", "out"} /\ x.out = s.out /\ DOMAIN x.tab = TabFields
          /\ SameSession(x.tab, s.tab) /\ LikeTab(x, s) /\ x.tab.doc = s.tab.doc
      BY <2>1, <2>2 DEF SameSession, LikeTab, TabFields
    <2> HIDE DEF x
    <2>4. Ses(t, now, quiet, x)
      BY <2>3, SesSame DEF Good
    <2> QED  BY <1>3, <2>3, <2>4 DEF Good, Shows, LikeTab
  <1> QED  BY <1>1, <1>2, <1>3 DEF Saves

LEMMA GoodChecked ==
  ASSUME NEW t \in Tab, NEW now, NEW quiet, NEW s, Good(t, now, quiet, s), NEW text
  PROVE  Good(t, now, quiet, Checked(s, text))
  <1> DEFINE b == s.tab
             clean == Unchanged(b.doc, b.editor)
             merged == IF clean THEN text ELSE Merge(Base(b.doc), b.editor, text)
             v == Write(s, merged)
             w == [v EXCEPT !.tab.editor = merged]
             a == SetAgreed(w, text, merged, ~clean)
  <1>1. CASE Checked(s, text) = s
    BY <1>1
  <1>2. CASE b.bound /\ (Checked(s, text) = a \/ Checked(s, text) = Due(a))
    <2>1. s.tab.sock # None /\ s.tab.ready
      BY <1>2, SesFields DEF Good
    <2> HIDE DEF merged
    <2>2. Ses(t, now, quiet, v) /\ LikeTab(v, s) /\ Text(v.tab.doc) = merged
      BY <2>1, SesWrite DEF Good
    <2> HIDE DEF v
    <2>3. /\ DOMAIN v = {"tab", "out"} /\ DOMAIN v.tab = TabFields /\ (~v.tab.open => v.tab.sock = None)
          /\ (v.tab.job # None => v.tab.job.sock # None)
      BY <2>2, SesFields
    <2>4. /\ DOMAIN w = {"tab", "out"} /\ w.out = v.out /\ DOMAIN w.tab = TabFields
          /\ SameSession(w.tab, v.tab) /\ w.tab.editor = merged /\ w.tab.doc = v.tab.doc /\ w.tab.sock = v.tab.sock
      BY <2>1, <2>2, <2>3 DEF SameSession, LikeTab, TabFields
    <2> HIDE DEF w
    <2>5. Ses(t, now, quiet, w) /\ w.tab.sock # None
      BY <2>1, <2>2, <2>4, SesSame DEF LikeTab
    <2>6. Ses(t, now, quiet, a) /\ LikeTab(a, w) /\ Text(a.tab.doc) = Text(w.tab.doc)
      <3> HIDE DEF clean
      <3> QED  BY <2>5, SesAgreed
    <2> HIDE DEF a
    <2>7. Good(t, now, quiet, a)
      BY <2>2, <2>4, <2>6 DEF Good, Shows, LikeTab
    <2> QED  BY <1>2, <2>7, GoodDue
  <1> QED  BY <1>1, <1>2 DEF Checked

-----------------------------------------------------------------------------
(* What happens to a socket.                                               *)

\* Tab t has read message m.
Read(up, tb, t, m) ==
  /\ Only(up, tb, t) /\ DOMAIN up[t] = TabFields
  /\ up[t].doc = TakenDoc(tb[t].doc, m) /\ up[t].lastSeq = TakenSeq(tb[t].lastSeq, m)
  /\ up[t].sock = tb[t].sock /\ up[t].ownSent = tb[t].ownSent /\ up[t].open = tb[t].open
  /\ (up[t].bound => up[t].ready) /\ up[t].job = tb[t].job

\* A tab that reads a message keeps the invariant.
LEMMA InvTaken ==
  ASSUME NEW n, NEW tb, Inv(n, tb), NEW t \in Tab, NEW c, c = tb[t].sock, c # None, n.down[c] # <<>>,
         NEW m, m = Head(n.down[c]), NEW up, Read(up, tb, t, m)
  PROVE  Inv([n EXCEPT !.down[c] = Tail(@)], up)
  <1> DEFINE p == [n EXCEPT !.down[c] = Tail(@)]
             q == n.down[c]
  <1>1. NetInv(n) /\ \A x \in Tab : TabInv(n, tb[x])
    BY DEF Inv
  <1>2. c \in Conn /\ c \in n.used /\ IsSequence(q) /\ c \in n.up
    <2>1. TabInv(n, tb[t])
      BY <1>1
    <2>2. c \in n.used
      BY <2>1 DEF TabInv
    <2> QED  BY <1>1, <2>2 DEF NetInv
  <1>3. /\ DOMAIN p = {"room", "used", "up", "down"} /\ p.room = n.room /\ p.used = n.used /\ p.up = n.up
        /\ DOMAIN p.down = Conn /\ p.down[c] = Tail(q) /\ \A x \in Conn : x # c => p.down[x] = n.down[x]
    BY <1>1, <1>2 DEF NetInv
  <1>4. /\ 1 \in DOMAIN q /\ m = q[1] /\ IsSequence(Tail(q)) /\ DOMAIN Tail(q) = 1..(Len(q) - 1) /\ Len(q) \in Nat
        /\ \A i \in DOMAIN Tail(q) : i + 1 \in DOMAIN q /\ Tail(q)[i] = q[i + 1]
    BY <1>2, QueueTaken
  <1>5. q # <<>> /\ m = Head(q)
    OBVIOUS
  <1> HIDE DEF p, q
  <1>6. NetInv(p)
    BY <1>1, <1>2, <1>3, <1>4 DEF NetInv
  <1>7. ASSUME NEW x \in Tab PROVE TabInv(p, up[x])
    <2>1. TabInv(n, tb[x])
      BY <1>1
    <2>2. CASE x # t
      <3> DEFINE b == tb[x]
      <3>1. up[x] = b /\ (b.sock # None => b.sock # c)
        BY <2>2 DEF Read, Only, Inv, OwnSockets
      <3>2. b.sock \in n.used \cup {None} /\ (b.sock \in Conn => b.sock # None) /\ n.used \subseteq Conn
        BY <1>1, <2>1, RoomAssumption DEF TabInv, NetInv
      <3> HIDE DEF b
      <3>3. b.sock \in Conn => p.down[b.sock] = n.down[b.sock]
        BY <1>3, <3>1, <3>2
      <3>4. JoinsFirst(p, b)
        BY <2>1, <3>3 DEF TabInv, JoinsFirst, b
      <3>5. TabInv(n, b)
        BY <2>1 DEF b
      <3>6. n.up \subseteq Conn
        BY <1>1 DEF NetInv
      <3>7. TabInv(p, b)
        BY <1>3, <3>3, <3>4, <3>5, <3>6 DEF TabInv
      <3> QED  BY <3>1, <3>7
    <2>3. CASE x = t
      <3> DEFINE b == tb[t]
                 y == up[t]
      <3>1. TabInv(n, b) /\ b.sock = c
        BY <2>1, <2>3
      <3>2. /\ DOMAIN y = TabFields /\ y.doc = TakenDoc(b.doc, m) /\ y.lastSeq = TakenSeq(b.lastSeq, m)
            /\ y.sock = b.sock /\ y.ownSent = b.ownSent /\ y.open = b.open
            /\ (y.bound => y.ready) /\ y.job = b.job
        BY DEF Read
      <3> HIDE DEF b, y
      <3>3. JoinsFirst(p, y)
        <4>1. \A i \in DOMAIN Tail(q) : q[i + 1].type # "joined"
          <5> SUFFICES ASSUME NEW i \in DOMAIN Tail(q), q[i + 1].type = "joined" PROVE FALSE
            OBVIOUS
          <5>1. i + 1 = 1
            BY <1>2, <1>4, <3>1 DEF TabInv, JoinsFirst, q
          <5> QED  BY <1>4, <5>1
        <4>2. \A i \in DOMAIN p.down[y.sock] : p.down[y.sock][i].type # "joined"
          BY <1>3, <1>4, <3>1, <3>2, <4>1
        <4> QED  BY <4>2 DEF JoinsFirst
      <3>4. ASSUME p.room # None, c \in p.room.members PROVE InStep(p.room, y.doc, y.lastSeq, p.down[c])
        <4>1. InStep(n.room, b.doc, b.lastSeq, q)
          BY <1>2, <1>3, <3>1, <3>4 DEF TabInv, q
        <4>2. InStep(n.room, TakenDoc(b.doc, m), TakenSeq(b.lastSeq, m), Tail(q))
          BY <1>2, <1>5, <4>1, InStepTaken
        <4> QED  BY <1>3, <3>2, <4>2
      <3>6. TabInv(p, y)
        BY <1>2, <1>3, <3>1, <3>2, <3>3, <3>4 DEF TabInv
      <3> QED  BY <2>3, <3>6 DEF y
    <2> QED  BY <2>2, <2>3
  <1>8. OwnSockets(up)
    <2>1. \A x \in Tab : up[x].sock = tb[x].sock
      BY DEF Read, Only
    <2> QED  BY <2>1 DEF Inv, OwnSockets
  <1>9. AllMinted(p, up)
    <2> SUFFICES ASSUME NEW i, Known(p, up, i) PROVE Minted(p, up, i)
      BY DEF AllMinted
    <2>1. Known(n, tb, i)
      <3>1. CASE \E x \in Tab : i \in up[x].doc
        <4>1. PICK x \in Tab : i \in up[x].doc
          BY <3>1
        <4>2. i \in tb[x].doc \/ (Brings(m) /\ i \in m.body)
          BY <4>1 DEF Read, Only, TakenDoc
        <4>3. CASE i \in tb[x].doc
          BY <4>3 DEF Known
        <4>4. CASE Brings(m) /\ i \in m.body
          BY <1>2, <1>4, <4>4 DEF Known, q
        <4> QED  BY <4>2, <4>3, <4>4
      <3>2. CASE p.room # None /\ i \in Items(p.room.log)
        BY <1>3, <3>2 DEF Known
      <3>3. CASE \E x \in Conn : \E j \in DOMAIN p.down[x] : Brings(p.down[x][j]) /\ i \in p.down[x][j].body
        <4>1. PICK x \in Conn : \E j \in DOMAIN p.down[x] : Brings(p.down[x][j]) /\ i \in p.down[x][j].body
          BY <3>3
        <4>2. PICK j \in DOMAIN p.down[x] : Brings(p.down[x][j]) /\ i \in p.down[x][j].body
          BY <4>1
        <4>3. CASE x = c
          <5>1. j \in DOMAIN Tail(q) /\ p.down[x][j] = Tail(q)[j]
            BY <1>3, <4>2, <4>3
          <5>2. j + 1 \in DOMAIN q /\ p.down[x][j] = q[j + 1]
            BY <1>4, <5>1
          <5>3. j + 1 \in DOMAIN n.down[c] /\ Brings(n.down[c][j + 1]) /\ i \in n.down[c][j + 1].body
            BY <4>2, <5>2 DEF q
          <5> QED  BY <1>2, <5>3 DEF Known
        <4>4. CASE x # c
          BY <1>3, <4>2, <4>4 DEF Known
        <4> QED  BY <4>3, <4>4
      <3> QED  BY <3>1, <3>2, <3>3 DEF Known
    <2>2. Minted(n, tb, i)
      BY <2>1 DEF Inv, AllMinted
    <2>3. \A x \in Tab : up[x].sock = tb[x].sock /\ up[x].ownSent = tb[x].ownSent
      BY DEF Read, Only
    <2> QED  BY <1>3, <2>2, <2>3 DEF Minted
  <1>10. Spoken(p)
    <2> SUFFICES ASSUME NEW x \in Conn, NEW i \in DOMAIN p.down[x] PROVE p.down[x][i].type \in MessageTypes
      BY DEF Spoken
    <2>1. \E j \in DOMAIN n.down[x] : p.down[x][i] = n.down[x][j]
      <3>1. CASE x = c
        <4>1. i \in DOMAIN Tail(q) /\ p.down[x][i] = Tail(q)[i]
          BY <1>3, <3>1
        <4>2. i + 1 \in DOMAIN q /\ p.down[x][i] = q[i + 1]
          BY <1>4, <4>1
        <4> QED  BY <3>1, <4>2 DEF q
      <3>2. CASE x # c
        BY <1>3, <3>2
      <3> QED  BY <3>1, <3>2
    <2> QED  BY <2>1 DEF Inv, Spoken
  <1>11. Inv(p, up)
    BY <1>6, <1>7, <1>8, <1>9, <1>10 DEF Inv, Read, Only
  <1> QED  BY <1>11 DEF p

\* Socket c no longer works.
Gone(p, n, c) ==
  /\ DOMAIN p = {"room", "used", "up", "down"} /\ p.room = n.room /\ p.used = n.used /\ p.up = n.up \ {c}
  /\ DOMAIN p.down = Conn /\ \A x \in Conn : p.down[x] = IF x = c THEN <<>> ELSE n.down[x]

LEMMA InvGone ==
  ASSUME NEW n, NEW tb, Inv(n, tb), NEW c, NEW p, Gone(p, n, c)
  PROVE  Inv(p, tb)
  <1>1. NetInv(n) /\ \A x \in Tab : TabInv(n, tb[x])
    BY DEF Inv
  <1>2. NetInv(p)
    BY <1>1, PlainNone DEF NetInv, Gone, Plain
  <1>3. \A x \in Conn : \A i : i \in DOMAIN p.down[x] => i \in DOMAIN n.down[x] /\ p.down[x][i] = n.down[x][i]
    BY DEF Gone
  <1>4. ASSUME NEW x \in Tab PROVE TabInv(p, tb[x])
    <2> DEFINE b == tb[x]
    <2>1. TabInv(n, b)
      BY <1>1
    <2> HIDE DEF b
    <2>2. JoinsFirst(p, b)
      BY <1>3, <2>1 DEF TabInv, JoinsFirst
    <2>3. ASSUME b.sock \in p.up, p.room # None, b.sock \in p.room.members
          PROVE  InStep(p.room, b.doc, b.lastSeq, p.down[b.sock])
      <3>1. b.sock \in n.up /\ b.sock # c /\ b.sock \in Conn
        BY <1>1, <2>3 DEF Gone, NetInv
      <3>2. p.down[b.sock] = n.down[b.sock] /\ p.room = n.room
        BY <3>1 DEF Gone
      <3> QED  BY <2>1, <2>3, <3>1, <3>2 DEF TabInv
    <2>4. TabInv(p, b)
      BY <2>1, <2>2, <2>3 DEF TabInv, Gone
    <2> QED  BY <2>4 DEF b
  <1>5. AllMinted(p, tb)
    <2> SUFFICES ASSUME NEW i, Known(p, tb, i) PROVE Minted(p, tb, i)
      BY DEF AllMinted
    <2>1. Known(n, tb, i)
      BY <1>3 DEF Known, Gone
    <2>2. Minted(n, tb, i)
      BY <2>1 DEF Inv, AllMinted
    <2> QED  BY <2>2 DEF Minted, Gone
  <1>6. Spoken(p)
    BY <1>3 DEF Inv, Spoken
  <1> QED  BY <1>2, <1>4, <1>5, <1>6 DEF Inv

\* Tab t has no socket any more, and no document.
Off(up, tb, t) ==
  /\ Only(up, tb, t) /\ DOMAIN up[t] = TabFields
  /\ up[t].sock = None /\ up[t].doc = {} /\ up[t].lastSeq = 0 /\ up[t].ownSent \in Nat
  /\ ~up[t].ready /\ ~up[t].bound /\ (up[t].job # None => up[t].job.sock # None)

LEMMA InvOff ==
  ASSUME NEW n, NEW tb, Inv(n, tb), NEW t \in Tab, NEW up, Off(up, tb, t)
  PROVE  Inv(n, up)
  <1>1. NetInv(n) /\ (\A x \in Tab : TabInv(n, tb[x])) /\ n.up \subseteq Conn /\ n.used \subseteq Conn
    BY DEF Inv, NetInv
  <1>2. ASSUME NEW x \in Tab PROVE TabInv(n, up[x])
    <2>1. CASE x # t
      BY <1>1, <2>1 DEF Off, Only
    <2>2. CASE x = t
      <3> DEFINE y == up[t]
      <3>1. /\ DOMAIN y = TabFields /\ y.sock = None /\ y.doc = {} /\ y.lastSeq = 0 /\ y.ownSent \in Nat
            /\ ~y.ready /\ ~y.bound /\ (y.job # None => y.job.sock # None)
        BY DEF Off
      <3> HIDE DEF y
      <3>2. JoinsFirst(n, y)
        BY <3>1, RoomAssumption DEF JoinsFirst
      <3>3. y.sock \notin n.up
        BY <1>1, <3>1, RoomAssumption
      <3>4. TabInv(n, y)
        BY <3>1, <3>2, <3>3 DEF TabInv
      <3> QED  BY <2>2, <3>4 DEF y
    <2> QED  BY <2>1, <2>2
  <1>3. OwnSockets(up)
    <2>1. \A x \in Tab : up[x].sock = None \/ (up[x].sock = tb[x].sock /\ x # t)
      BY DEF Off, Only
    <2> QED  BY <2>1 DEF Inv, OwnSockets
  <1>4. AllMinted(n, up)
    <2> SUFFICES ASSUME NEW i, Known(n, up, i) PROVE Minted(n, up, i)
      BY DEF AllMinted
    <2>1. \A x \in Tab : i \in up[x].doc => i \in tb[x].doc
      BY DEF Off, Only
    <2>2. Known(n, tb, i)
      BY <2>1 DEF Known
    <2>3. Minted(n, tb, i)
      BY <2>2 DEF Inv, AllMinted
    <2>4. \A x \in Tab : up[x].sock = None \/ (up[x].sock = tb[x].sock /\ up[x].ownSent = tb[x].ownSent)
      BY DEF Off, Only
    <2>5. None \notin n.used
      BY <1>1, RoomAssumption
    <2> QED  BY <2>3, <2>4, <2>5 DEF Minted
  <1> QED  BY <1>1, <1>2, <1>3, <1>4 DEF Inv, Off, Only

\* A member leaves the room.
LEMMA InvLeft ==
  ASSUME NEW n, NEW tb, Inv(n, tb), n.room # None, NEW c, NEW seeder, NEW saver
  PROVE  LET next == AfterLeave(n.room, c, seeder, saver)
         IN  Inv(Mailed(n, IF next.members = {} /\ ~HasUnsaved(next) THEN None ELSE next,
                        LeaveMail(n.room, c, seeder, saver)), tb)
  <1> DEFINE r == n.room
             next == AfterLeave(r, c, seeder, saver)
             room == IF next.members = {} /\ ~HasUnsaved(next) THEN None ELSE next
             mail == LeaveMail(r, c, seeder, saver)
  <1>1. RoomInv(r)
    BY DEF Inv, NetInv
  <1>2. SameRoom(next, r)
    <2>1. DOMAIN next = RoomFields /\ next.members = r.members \ {c} /\ next.log = r.log /\ next.seq = r.seq
      BY <1>1 DEF AfterLeave, Out, WithSaver, RoomInv, RoomFields
    <2> HIDE DEF next
    <2> QED  BY <1>1, <2>1 DEF SameRoom, RoomInv, SameLog
  <1>3. PlainMail(mail)
    BY PlainLeave
  <1>4. room = None \/ room = next
    OBVIOUS
  <1> HIDE DEF next, room, mail
  <1>5. room = None \/ SameRoom(room, n.room)
    BY <1>2, <1>4
  <1>6. Inv(Mailed(n, room, mail), tb)
    BY <1>3, <1>5, InvPlain
  <1> QED  BY <1>6 DEF room, next, mail

LEMMA InvRelieved ==
  ASSUME NEW n, NEW tb, Inv(n, tb), n.room # None, NEW c
  PROVE  Inv(Mailed(n, Relieved(n.room, c), RoleMail(n.room, c)), tb)
  <1> DEFINE r == n.room
             next == Relieved(r, c)
  <1>1. RoomInv(r)
    BY DEF Inv, NetInv
  <1>2. SameRoom(next, r)
    <2>1. DOMAIN next = RoomFields /\ next.members = r.members /\ next.log = r.log /\ next.seq = r.seq
      BY <1>1 DEF Relieved, WithSaver, RoomInv, RoomFields
    <2> HIDE DEF next
    <2> QED  BY <1>1, <2>1 DEF SameRoom, RoomInv, SameLog
  <1> QED  BY <1>2, PlainRoles, InvPlain

\* Tab t joins with the new socket c.
JoinsWith(up, tb, t, c) ==
  /\ Only(up, tb, t) /\ DOMAIN up[t] = TabFields /\ tb[t].sock = None
  /\ up[t].sock = c /\ up[t].doc = {} /\ up[t].lastSeq = 0 /\ up[t].ownSent \in Nat /\ up[t].open
  /\ ~up[t].ready /\ ~up[t].bound /\ (up[t].job # None => up[t].job.sock # None)

\* A newcomer is in step: it is sent all there is.
LEMMA InvJoined ==
  ASSUME NEW n, NEW tb, Inv(n, tb), NEW c \in Conn, c \notin n.used, NEW t \in Tab, NEW up,
         JoinsWith(up, tb, t, c), NEW r, r = IF n.room = None THEN NewRoom ELSE n.room
  PROVE  Inv(Mailed([n EXCEPT !.used = @ \cup {c}, !.up = @ \cup {c}], Joined(r, c), JoinMail(r, c)), up)
  <1> DEFINE p == [n EXCEPT !.used = @ \cup {c}, !.up = @ \cup {c}]
             a == Joined(r, c)
             mail == JoinMail(r, c)
             m == Mailed(p, a, mail)
             u == [type |-> "joined", seq |-> r.seq, body |-> Items(r.log),
                   seed |-> ~r.seeded /\ r.seeder = None /\ c \in Writable,
                   saver |-> r.saver = None /\ c \in Writable]
  <1>1. NetInv(n) /\ (\A x \in Tab : TabInv(n, tb[x])) /\ n.used \subseteq Conn /\ n.up \subseteq n.used /\ c # None
    BY RoomAssumption DEF Inv, NetInv
  <1>2. RoomInv(r) /\ r.members \subseteq n.used
    <2>1. CASE n.room = None
      <3>1. /\ DOMAIN NewRoom = RoomFields /\ NewRoom.seq = 0 /\ NewRoom.log = {} /\ NewRoom.members = {}
        BY DEF NewRoom, RoomFields
      <3>2. Items({}) = {}
        BY ItemsOf
      <3> QED  BY <2>1, <3>1, <3>2 DEF RoomInv, Covers
    <2>2. CASE n.room # None
      BY <1>1, <2>2 DEF NetInv
    <2> QED  BY <2>1, <2>2
  <1>3. RoomInv(a) /\ a.members = r.members \cup {c} /\ a.seq = r.seq /\ a.log = r.log
    <2>1. DOMAIN a = RoomFields /\ a.members = r.members \cup {c} /\ a.seq = r.seq /\ a.log = r.log
      BY <1>2 DEF Joined, RoomInv, RoomFields
    <2> HIDE DEF a
    <2> QED  BY <1>2, <2>1 DEF RoomInv
  <1>4. /\ DOMAIN p = {"room", "used", "up", "down"} /\ p.used = n.used \cup {c} /\ p.up = n.up \cup {c}
        /\ p.room = n.room /\ p.down = n.down
    BY <1>1 DEF NetInv
  <1>5. u.type = "joined" /\ u.seq = r.seq /\ u.body = Items(r.log)
    OBVIOUS
  <1>6. \A x \in Conn : mail[x] = IF x = c THEN <<u>> ELSE <<>>
    BY DEF JoinMail, To
  <1> HIDE DEF p, a, mail, u
  <1>7. NetInv(p)
    BY <1>1, <1>4 DEF NetInv
  <1>8. IsSequence(<<u>>) /\ IsSequence(<<>>)
    <2>1. <<u>> \in Seq({u}) /\ <<>> \in Seq({u})
      OBVIOUS
    <2> QED  BY <2>1, SeqOfOwn
  <1>9. \A x \in Conn : IsSequence(mail[x])
    BY <1>6, <1>8
  <1>10. IsMailed(m, p, a, mail)
    BY <1>7, <1>9, MailedIs
  <1> HIDE DEF m
  <1>11. /\ DOMAIN m = {"room", "used", "up", "down"} /\ m.room = a
         /\ m.used = n.used \cup {c} /\ m.up = n.up \cup {c} /\ DOMAIN m.down = Conn
         /\ \A x \in Conn : IsSequence(m.down[x]) /\ (x \notin m.up => m.down[x] = <<>>)
    BY <1>4, <1>10 DEF IsMailed
  <1>12. m.down[c] = <<u>>
    <2>1. n.down[c] = <<>> /\ m.down[c] = n.down[c] \o mail[c]
      BY <1>1, <1>4, <1>10 DEF IsMailed, NetInv
    <2> QED  BY <1>6, <2>1
  <1>13. \A x \in Conn : x # c => m.down[x] = n.down[x]
    <2> SUFFICES ASSUME NEW x \in Conn, x # c PROVE m.down[x] = n.down[x]
      OBVIOUS
    <2> DEFINE q == n.down[x]
    <2>1. IsSequence(q) /\ (m.down[x] = q \o <<>> \/ m.down[x] = q)
      BY <1>1, <1>4, <1>6, <1>10 DEF IsMailed, NetInv
    <2> HIDE DEF q
    <2>2. q \o <<>> = q
      BY <2>1 DEF IsSequence
    <2> QED  BY <2>1, <2>2 DEF q
  <1>14. NetInv(m)
    BY <1>1, <1>2, <1>3, <1>11 DEF NetInv
  <1>15. ASSUME NEW x \in Tab PROVE TabInv(m, up[x])
    <2>1. CASE x # t
      <3> DEFINE b == tb[x]
      <3>1. up[x] = b /\ TabInv(n, b)
        BY <1>1, <2>1 DEF JoinsWith, Only
      <3> HIDE DEF b
      <3>2. b.sock \in n.used \cup {None} /\ b.sock # c
        BY <1>1, <3>1 DEF TabInv
      <3>3. b.sock \in Conn => m.down[b.sock] = n.down[b.sock]
        BY <1>13, <3>2
      <3>4. JoinsFirst(m, b)
        BY <3>1, <3>3 DEF TabInv, JoinsFirst
      <3>5. ASSUME b.sock \in m.up, m.room # None, b.sock \in m.room.members
            PROVE  InStep(m.room, b.doc, b.lastSeq, m.down[b.sock])
        <4>1. b.sock \in n.up /\ b.sock \in r.members /\ b.sock \in Conn
          BY <1>1, <1>3, <1>11, <3>2, <3>5
        <4>2. n.room # None /\ r = n.room
          BY <4>1 DEF NewRoom
        <4>3. InStep(r, b.doc, b.lastSeq, n.down[b.sock])
          BY <3>1, <4>1, <4>2 DEF TabInv
        <4>4. SameLog(a.log, r.log) /\ r.seq = a.seq
          BY <1>3 DEF SameLog
        <4>5. InStep(a, b.doc, b.lastSeq, n.down[b.sock])
          BY <4>3, <4>4, InStepSame
        <4> QED  BY <1>11, <3>3, <4>1, <4>5
      <3>6. TabInv(m, b)
        BY <1>11, <3>1, <3>2, <3>4, <3>5 DEF TabInv
      <3> QED  BY <3>1, <3>6
    <2>2. CASE x = t
      <3> DEFINE y == up[t]
      <3>1. /\ DOMAIN y = TabFields /\ y.sock = c /\ y.doc = {} /\ y.lastSeq = 0 /\ y.ownSent \in Nat /\ y.open
            /\ ~y.ready /\ ~y.bound /\ (y.job # None => y.job.sock # None)
        BY DEF JoinsWith
      <3> HIDE DEF y
      <3>2. JoinsFirst(m, y)
        <4>1. DOMAIN m.down[y.sock] = {1}
          BY <1>12, <3>1
        <4> QED  BY <3>1, <4>1 DEF JoinsFirst
      <3>3. InStep(a, {}, 0, <<u>>)
        <4>1. u.seq = a.seq /\ u.body = Items(a.log)
          BY <1>3, <1>5
        <4> QED  BY <1>3, <1>5, <4>1, InStepJoined
      <3>4. TabInv(m, y)
        BY <1>1, <1>11, <1>12, <3>1, <3>2, <3>3 DEF TabInv
      <3> QED  BY <2>2, <3>4 DEF y
    <2> QED  BY <2>1, <2>2
  <1>16. OwnSockets(up)
    <2>1. \A x \in Tab : x # t => up[x].sock = tb[x].sock /\ up[x].sock # c
      BY <1>1 DEF JoinsWith, Only, TabInv
    <2>2. up[t].sock = c
      BY DEF JoinsWith
    <2> QED  BY <2>1, <2>2 DEF Inv, OwnSockets
  <1>17. AllMinted(m, up)
    <2> SUFFICES ASSUME NEW i, Known(m, up, i) PROVE Minted(m, up, i)
      BY DEF AllMinted
    <2>1. i \in Items(r.log) => n.room # None /\ i \in Items(n.room.log)
      BY ItemsOf DEF NewRoom
    <2>2. Known(n, tb, i)
      <3>1. CASE \E x \in Tab : i \in up[x].doc
        <4>1. PICK x \in Tab : i \in up[x].doc
          BY <3>1
        <4>2. i \in tb[x].doc
          BY <4>1 DEF JoinsWith, Only
        <4> QED  BY <4>2 DEF Known
      <3>2. CASE m.room # None /\ i \in Items(m.room.log)
        BY <1>3, <1>11, <2>1, <3>2 DEF Known
      <3>3. CASE \E x \in Conn : \E j \in DOMAIN m.down[x] : Brings(m.down[x][j]) /\ i \in m.down[x][j].body
        <4>1. PICK x \in Conn : \E j \in DOMAIN m.down[x] : Brings(m.down[x][j]) /\ i \in m.down[x][j].body
          BY <3>3
        <4>2. CASE x = c
          <5>1. i \in u.body
            BY <1>12, <4>1, <4>2
          <5> QED  BY <1>5, <2>1, <5>1 DEF Known
        <4>3. CASE x # c
          BY <1>13, <4>1, <4>3 DEF Known
        <4> QED  BY <4>2, <4>3
      <3> QED  BY <3>1, <3>2, <3>3 DEF Known
    <2>3. Minted(n, tb, i)
      BY <2>2 DEF Inv, AllMinted
    <2>4. /\ \A x \in Tab : x # t => up[x] = tb[x]
          /\ up[t].sock = c
      BY DEF JoinsWith, Only
    <2> QED  BY <1>11, <2>3, <2>4 DEF Minted
  <1>18. Spoken(m)
    <2> SUFFICES ASSUME NEW x \in Conn, NEW i \in DOMAIN m.down[x] PROVE m.down[x][i].type \in MessageTypes
      BY DEF Spoken
    <2>1. CASE x = c
      <3>1. i = 1 /\ m.down[x][i] = u
        BY <1>12, <2>1
      <3> QED  BY <1>5, <3>1 DEF MessageTypes
    <2>2. CASE x # c
      BY <1>13, <2>2 DEF Inv, Spoken
    <2> QED  BY <2>1, <2>2
  <1>19. Inv(m, up)
    BY <1>14, <1>15, <1>16, <1>17, <1>18 DEF Inv, JoinsWith, Only
  <1> QED  BY <1>19 DEF m, p, a, mail

-----------------------------------------------------------------------------
(* The steps.                                                              *)

IInv == Inv(net, tab) /\ ShowsRoom

LEMMA TabIs ==
  ASSUME IInv, NEW t \in Tab
  PROVE  /\ DOMAIN tab = Tab /\ TabInv(net, tab[t]) /\ DOMAIN tab[t] = TabFields
         /\ (tab[t].bound => tab[t].ready) /\ (tab[t].ready => tab[t].sock # None)
         /\ (~tab[t].open => tab[t].sock = None) /\ (tab[t].job # None => tab[t].job.sock # None)
         /\ Shows(tab[t]) /\ SameSession(tab[t], tab[t])
         /\ DOMAIN Same(t) = {"tab", "out"} /\ Same(t).tab = tab[t] /\ Same(t).out = <<>>
  BY DEF IInv, Inv, TabInv, ShowsRoom, Shows, Same, SameSession

LEMMA NetStart ==
  ASSUME NEW t, NEW now, NEW quiet, NEW s, s.out = <<>>
  PROVE  NetOf(t, now, quiet, s) = now
  BY NoneHandled DEF NetOf

LEMMA GoodBegin ==
  ASSUME IInv, NEW t \in Tab, NEW quiet, NEW s, DOMAIN s = {"tab", "out"}, s.out = <<>>,
         SameSession(s.tab, tab[t]), Shows(s.tab)
  PROVE  Good(t, net, quiet, s)
  <1> DEFINE up == UpTab(t, s.tab)
  <1>1. Only(up, tab, t) /\ up[t] = s.tab /\ DOMAIN tab = Tab
    BY TabIs, UpTabIs DEF Only
  <1> HIDE DEF up
  <1>2. Inv(net, up)
    BY <1>1, InvSame DEF IInv
  <1>3. IsSequence(s.out)
    BY PlainNone DEF Plain
  <1> QED  BY <1>1, <1>2, <1>3, NetStart DEF Good, Ses, SameSession, up

LEMMA GoodSame ==
  ASSUME IInv, NEW t \in Tab, NEW quiet
  PROVE  Good(t, net, quiet, Same(t))
  BY TabIs, GoodBegin

\* An action that ends a session's step well.
LEMMA Stepped ==
  ASSUME IInv, NEW t \in Tab, NEW s, NEW now, NEW plan, Steps(t, s, now, plan),
         \A quiet : Good(t, now, quiet, s)
  PROVE  IInv'
  <1>1. PICK quiet : net' = NetOf(t, now, quiet, s)
    BY DEF Steps, NetOf
  <1>2. Good(t, now, quiet, s)
    OBVIOUS
  <1>3. tab' = UpTab(t, s.tab)
    BY DEF Steps, UpTab
  <1>4. Inv(net', tab')
    BY <1>1, <1>2, <1>3 DEF Good, Ses
  <1>5. tab'[t] = s.tab /\ \A u \in Tab : u # t => tab'[u] = tab[u]
    BY <1>3, TabIs, UpTabIs
  <1>6. \A u \in Tab : tab'[u].bound => tab'[u].editor = Text(tab'[u].doc)
    BY <1>2, <1>5 DEF Good, Shows, IInv, ShowsRoom
  <1> QED  BY <1>4, <1>6 DEF IInv, ShowsRoom

LEMMA StepSame ==
  ASSUME IInv, NEW t \in Tab, net' = net, Only(tab', tab, t), SameSession(tab'[t], tab[t]), Shows(tab'[t])
  PROVE  IInv'
  <1>1. Inv(net', tab')
    BY InvSame DEF IInv
  <1>2. \A u \in Tab : tab'[u].bound => tab'[u].editor = Text(tab'[u].doc)
    BY DEF Only, Shows, IInv, ShowsRoom
  <1> QED  BY <1>1, <1>2 DEF IInv, ShowsRoom

LEMMA StepNet ==
  ASSUME IInv, Inv(net', tab), tab' = tab
  PROVE  IInv'
  BY DEF IInv, ShowsRoom

\* A tab that has read the first message of its queue.
LEMMA SesTaken ==
  ASSUME IInv, NEW t \in Tab, NEW c, c = tab[t].sock, c # None, net.down[c] # <<>>,
         NEW m, m = Head(net.down[c]), NEW quiet,
         NEW s, DOMAIN s = {"tab", "out"}, s.out = <<>>, DOMAIN s.tab = TabFields,
         s.tab.doc = TakenDoc(tab[t].doc, m), s.tab.lastSeq = TakenSeq(tab[t].lastSeq, m),
         s.tab.sock = c, s.tab.ownSent = tab[t].ownSent, s.tab.open = tab[t].open,
         s.tab.bound => s.tab.ready, s.tab.job = tab[t].job
  PROVE  Ses(t, [net EXCEPT !.down[c] = Tail(@)], quiet, s)
  <1> DEFINE up == UpTab(t, s.tab)
             now == [net EXCEPT !.down[c] = Tail(@)]
  <1>1. Only(up, tab, t) /\ up[t] = s.tab /\ DOMAIN tab = Tab
    BY TabIs, UpTabIs DEF Only
  <1> HIDE DEF up
  <1>2. Read(up, tab, t, m)
    BY <1>1 DEF Read
  <1>3. Inv(now, up)
    BY <1>2, InvTaken DEF IInv
  <1>4. IsSequence(s.out)
    BY PlainNone DEF Plain
  <1> HIDE DEF now
  <1>5. Ses(t, now, quiet, s)
    BY <1>1, <1>3, <1>4, NetStart DEF Ses, up
  <1> QED  BY <1>5 DEF now

LEMMA ReceiveStep == ASSUME IInv, NEW t \in Tab, Receive(t) PROVE IInv'
  <1> DEFINE b == tab[t]
             c == tab[t].sock
             m == Head(net.down[c])
             taken == [net EXCEPT !.down[c] = Tail(@)]
             s == Same(t)
             joined == [s EXCEPT !.tab.doc = @ \cup m.body, !.tab.lastSeq = m.seq,
                                 !.tab.seed = m.seed, !.tab.saver = m.saver, !.tab.ready = TRUE]
             d == tab[t].doc \cup m.body
             u == [s EXCEPT !.tab.doc = d, !.tab.lastSeq = m.seq,
                            !.tab.editor = IF tab[t].bound THEN Text(d) ELSE @]
             seeds == [s EXCEPT !.tab.seed = TRUE]
             r == [s EXCEPT !.tab.saver = m.saver, !.tab.due = @ /\ m.saver]
             snap == Send(s, [type |-> "snapshot", ack |-> tab[t].lastSeq, body |-> tab[t].doc])
             heard ==
               CASE m.type = "joined" -> MaybeBind(joined)
                 [] m.type = "update" -> MaybeBind(Due(u))
                 [] m.type = "seed" -> MaybeBind(seeds)
                 [] m.type = "role" -> IF m.saver /\ ~tab[t].saver /\ tab[t].bound THEN Look(r, TRUE) ELSE r
                 [] m.type = "compact" -> IF tab[t].saver THEN snap ELSE s
  <1>1. c # None /\ net.down[c] # <<>> /\ Steps(t, heard, taken, left)
    BY DEF Receive, Does
  <1>2. m.type \in MessageTypes /\ (m.type = "joined" => ~b.bound)
    <2>1. c \in Conn /\ IsSequence(net.down[c])
      <3>1. TabInv(net, tab[t])
        BY TabIs
      <3>2. c \in net.used
        BY <1>1, <3>1 DEF TabInv
      <3> QED  BY <3>2 DEF IInv, Inv, NetInv
    <2>2. 1 \in DOMAIN net.down[c] /\ m = net.down[c][1]
      BY <1>1, <2>1, QueueTaken
    <2>3. JoinsFirst(net, b)
      BY TabIs DEF TabInv
    <2>4. m.type = "joined" => ~b.ready
      BY <2>1, <2>2, <2>3 DEF JoinsFirst
    <2>5. b.bound => b.ready
      BY TabIs
    <2> QED  BY <2>1, <2>2, <2>4, <2>5 DEF IInv, Inv, Spoken
  <1>3. /\ DOMAIN s = {"tab", "out"} /\ s.out = <<>> /\ s.tab = b /\ DOMAIN b = TabFields
        /\ (b.bound => b.ready) /\ Shows(b)
    BY TabIs
  <1> SUFFICES ASSUME NEW quiet PROVE Good(t, taken, quiet, heard)
    BY <1>1, Stepped
  <1>4. \A x : /\ DOMAIN x = {"tab", "out"} /\ x.out = <<>> /\ DOMAIN x.tab = TabFields
               /\ x.tab.doc = TakenDoc(b.doc, m) /\ x.tab.lastSeq = TakenSeq(b.lastSeq, m)
               /\ x.tab.sock = c /\ x.tab.ownSent = b.ownSent /\ x.tab.open = b.open
               /\ (x.tab.bound => x.tab.ready) /\ x.tab.job = b.job
               => Ses(t, taken, quiet, x)
    BY <1>1, SesTaken
  <1>5. CASE m.type = "joined"
    <2>1. Brings(m)
      BY <1>5 DEF Brings
    <2>2. /\ DOMAIN joined = {"tab", "out"} /\ joined.out = <<>> /\ DOMAIN joined.tab = TabFields
          /\ joined.tab.doc = TakenDoc(b.doc, m) /\ joined.tab.lastSeq = TakenSeq(b.lastSeq, m)
          /\ joined.tab.sock = c /\ joined.tab.ownSent = b.ownSent /\ joined.tab.open = b.open
          /\ joined.tab.ready /\ joined.tab.job = b.job /\ joined.tab.bound = b.bound
      BY <1>3, <2>1 DEF TakenDoc, TakenSeq, TabFields
    <2>3. heard = MaybeBind(joined)
      BY <1>5
    <2> HIDE DEF joined, heard, taken, m
    <2>4. Ses(t, taken, quiet, joined)
      BY <1>4, <2>2
    <2>5. ~joined.tab.bound
      BY <1>2, <1>5, <2>2
    <2> QED  BY <2>3, <2>4, <2>5, GoodMaybeBind
  <1>6. CASE m.type = "update"
    <2>1. Brings(m)
      BY <1>6 DEF Brings
    <2>2. /\ DOMAIN u = {"tab", "out"} /\ u.out = <<>> /\ DOMAIN u.tab = TabFields
          /\ u.tab.doc = TakenDoc(b.doc, m) /\ u.tab.lastSeq = TakenSeq(b.lastSeq, m)
          /\ u.tab.sock = c /\ u.tab.ownSent = b.ownSent /\ u.tab.open = b.open
          /\ u.tab.ready = b.ready /\ u.tab.job = b.job /\ u.tab.bound = b.bound
      BY <1>3, <2>1 DEF TakenDoc, TakenSeq, TabFields
    <2>3. Shows(u.tab)
      BY <1>3 DEF Shows, TabFields
    <2>4. heard = MaybeBind(Due(u))
      BY <1>6
    <2> HIDE DEF u, heard, taken, m
    <2>5. Good(t, taken, quiet, u)
      BY <1>3, <1>4, <2>2, <2>3 DEF Good
    <2>6. Good(t, taken, quiet, Due(u))
      BY <2>5, GoodDue
    <2> QED  BY <2>4, <2>6, GoodMaybeBind DEF Good
  <1>7. CASE m.type \notin {"joined", "update"}
    <2>1. TakenDoc(b.doc, m) = b.doc /\ TakenSeq(b.lastSeq, m) = b.lastSeq
      BY <1>7 DEF TakenDoc, TakenSeq, Brings
    <2> HIDE DEF taken, m
    <2>2. Good(t, taken, quiet, s)
      BY <1>3, <1>4, <2>1 DEF Good
    <2>3. CASE m.type = "seed"
      <3>1. /\ DOMAIN seeds = {"tab", "out"} /\ seeds.out = <<>> /\ DOMAIN seeds.tab = TabFields
            /\ seeds.tab.doc = b.doc /\ seeds.tab.lastSeq = b.lastSeq
            /\ seeds.tab.sock = c /\ seeds.tab.ownSent = b.ownSent /\ seeds.tab.open = b.open
            /\ seeds.tab.ready = b.ready /\ seeds.tab.job = b.job /\ seeds.tab.bound = b.bound
            /\ seeds.tab.editor = b.editor
        BY <1>3 DEF TabFields
      <3>2. heard = MaybeBind(seeds)
        BY <2>3
      <3> HIDE DEF seeds, heard
      <3>3. Ses(t, taken, quiet, seeds) /\ Shows(seeds.tab)
        BY <1>3, <1>4, <2>1, <3>1 DEF Shows
      <3> QED  BY <3>2, <3>3, GoodMaybeBind
    <2>4. CASE m.type = "role"
      <3>1. /\ DOMAIN r = {"tab", "out"} /\ r.out = <<>> /\ DOMAIN r.tab = TabFields
            /\ r.tab.doc = b.doc /\ r.tab.lastSeq = b.lastSeq
            /\ r.tab.sock = c /\ r.tab.ownSent = b.ownSent /\ r.tab.open = b.open
            /\ r.tab.ready = b.ready /\ r.tab.job = b.job /\ r.tab.bound = b.bound
            /\ r.tab.editor = b.editor
        BY <1>3 DEF TabFields
      <3>2. heard = r \/ heard = Look(r, TRUE)
        BY <2>4
      <3> HIDE DEF r, heard
      <3>3. Good(t, taken, quiet, r)
        BY <1>3, <1>4, <2>1, <3>1 DEF Shows, Good
      <3> QED  BY <3>2, <3>3, GoodLook
    <2>5. CASE m.type = "compact"
      <3>1. heard = s \/ heard = snap
        BY <2>5
      <3>2. Ses(t, taken, quiet, snap) /\ snap.tab = b
        BY <1>3, <2>2, SesSnapshot DEF Good
      <3> HIDE DEF snap, heard
      <3>3. Good(t, taken, quiet, snap)
        BY <1>3, <3>2 DEF Good
      <3> QED  BY <2>2, <3>1, <3>3
    <2> QED  BY <1>2, <1>7, <2>3, <2>4, <2>5 DEF MessageTypes
  <1> QED  BY <1>5, <1>6, <1>7

LEMMA RejoinStep == ASSUME IInv, NEW t \in Tab, Rejoin(t) PROVE IInv'
  <1>1. Steps(t, MaybeBind(Same(t)), net, left)
    BY DEF Rejoin, Does
  <1>2. ASSUME NEW quiet PROVE Good(t, net, quiet, MaybeBind(Same(t)))
    BY GoodSame, GoodMaybeBind DEF Good
  <1> QED  BY <1>1, <1>2, Stepped

LEMMA JoinReadsStep == ASSUME IInv, NEW t \in Tab, JoinReads(t) PROVE IInv'
  <1> DEFINE b == tab[t]
             j == [text |-> file, editor |-> tab[t].editor, sock |-> tab[t].sock]
  <1>1. tab' = UpTab(t, [b EXCEPT !.join = j]) /\ net' = net
    BY DEF JoinReads, UpTab
  <1>2. SameSession([b EXCEPT !.join = j], b) /\ Shows([b EXCEPT !.join = j])
    BY TabIs DEF SameSession, Shows, TabFields
  <1>3. Only(tab', tab, t) /\ tab'[t] = [b EXCEPT !.join = j]
    BY <1>1, TabIs, UpTabIs DEF Only
  <1> QED  BY <1>1, <1>2, <1>3, StepSame

LEMMA JoinMergesStep == ASSUME IInv, NEW t \in Tab, JoinMerges(t) PROVE IInv'
  <1> DEFINE b == tab[t]
             j == b.join
             s == [Same(t) EXCEPT !.tab.join = None]
             agreed == IF Agreed(b.doc) THEN Base(b.doc) ELSE j.text
             merged == Merge(agreed, Text(b.doc), j.text)
             w == Write(s, merged)
             a == SetAgreed(w, j.text, j.text, merged # j.text)
             x == Bound(IF merged # j.text THEN Due(a) ELSE ConfirmAll(a))
             y == IF MustMerge(b) /\ j.sock = b.sock /\ b.editor = j.editor THEN x ELSE s
  <1>1. Steps(t, y, net, left)
    BY DEF JoinMerges, Does
  <1>2. /\ DOMAIN s = {"tab", "out"} /\ s.out = <<>> /\ SameSession(s.tab, b) /\ Shows(s.tab)
        /\ s.tab.ready = b.ready /\ s.tab.sock = b.sock
    BY TabIs DEF SameSession, Shows, TabFields
  <1> SUFFICES ASSUME NEW quiet PROVE Good(t, net, quiet, y)
    BY <1>1, Stepped
  <1>3. Good(t, net, quiet, s)
    BY <1>2, GoodBegin
  <1>4. CASE y = s
    BY <1>3, <1>4
  <1>5. CASE MustMerge(b) /\ y = x
    <2>1. s.tab.ready /\ s.tab.sock # None
      BY <1>2, <1>5, TabIs DEF MustMerge, Waits
    <2> HIDE DEF s, merged, y
    <2>2. Ses(t, net, quiet, w) /\ LikeTab(w, s)
      BY <1>3, <2>1, SesWrite DEF Good
    <2> HIDE DEF w
    <2>3. w.tab.sock # None /\ w.tab.ready
      BY <2>1, <2>2 DEF LikeTab
    <2>4. Ses(t, net, quiet, a) /\ LikeTab(a, w)
      BY <2>2, <2>3, SesAgreed
    <2> HIDE DEF a
    <2>5. a.tab.ready
      BY <2>3, <2>4 DEF LikeTab
    <2>6. Ses(t, net, quiet, Due(a)) /\ LikeTab(Due(a), a)
      BY <2>4, SesDue
    <2>7. Ses(t, net, quiet, ConfirmAll(a)) /\ ConfirmAll(a).tab = a.tab
      BY <2>4, SesConfirmAll
    <2>8. Due(a).tab.ready /\ ConfirmAll(a).tab.ready
      BY <2>5, <2>6, <2>7 DEF LikeTab
    <2> QED  BY <1>5, <2>6, <2>7, <2>8, GoodBound
  <1> QED  BY <1>4, <1>5

LEMMA TypeStep == ASSUME IInv, NEW t \in Tab, NEW p, Type(t, p) PROVE IInv'
  <1> DEFINE b == tab[t]
             s == [Same(t) EXCEPT !.tab.editor = @ \cup {p}]
             w == Write(s, s.tab.editor)
             y == IF tab[t].bound THEN Due(w) ELSE s
  <1>1. PICK plan : Steps(t, y, net, plan)
    BY DEF Type
  <1>2. /\ DOMAIN s = {"tab", "out"} /\ s.out = <<>> /\ SameSession(s.tab, b)
        /\ s.tab.bound = b.bound /\ s.tab.sock = b.sock
    BY TabIs DEF SameSession, TabFields
  <1> SUFFICES ASSUME NEW quiet PROVE Good(t, net, quiet, y)
    BY <1>1, Stepped
  <1>3. Ses(t, net, quiet, s)
    <2> DEFINE up == UpTab(t, s.tab)
    <2>1. Only(up, tab, t) /\ up[t] = s.tab /\ DOMAIN tab = Tab
      BY TabIs, UpTabIs DEF Only
    <2> HIDE DEF up, s
    <2>2. Inv(net, up)
      BY <1>2, <2>1, InvSame DEF IInv
    <2>3. IsSequence(s.out)
      BY <1>2, PlainNone DEF Plain
    <2> QED  BY <1>2, <2>1, <2>2, <2>3, NetStart DEF Ses, SameSession, up
  <1>4. CASE b.bound
    <2>1. s.tab.sock # None
      BY <1>2, <1>4, TabIs
    <2> HIDE DEF s
    <2>2. Ses(t, net, quiet, w) /\ LikeTab(w, s) /\ Text(w.tab.doc) = s.tab.editor
      BY <1>3, <2>1, SesWrite
    <2>3. Good(t, net, quiet, w)
      BY <2>2 DEF Good, Shows, LikeTab
    <2> HIDE DEF w
    <2>4. Good(t, net, quiet, Due(w))
      BY <2>3, GoodDue
    <2> QED  BY <1>4, <2>4
  <1>5. CASE ~b.bound
    BY <1>2, <1>3, <1>5 DEF Good, Shows
  <1> QED  BY <1>4, <1>5

LEMMA AppPutStep ==
  ASSUME IInv, NEW t \in Tab, NEW text, NEW etag, NEW base, NEW ours, AppPut(t, text, etag, base, ours)
  PROVE  IInv'
  <1> DEFINE b == tab[t]
             k == [answer |-> Answer(etag), text |-> text, base |-> base, ours |-> ours]
  <1>1. tab' = UpTab(t, [b EXCEPT !.app = k]) /\ net' = net
    BY DEF AppPut, UpTab
  <1>2. SameSession([b EXCEPT !.app = k], b) /\ Shows([b EXCEPT !.app = k])
    BY TabIs DEF SameSession, Shows, TabFields
  <1>3. Only(tab', tab, t) /\ tab'[t] = [b EXCEPT !.app = k]
    BY <1>1, TabIs, UpTabIs DEF Only
  <1> QED  BY <1>1, <1>2, <1>3, StepSame

LEMMA AppSaveStep == ASSUME IInv, NEW t \in Tab, AppSave(t) PROVE IInv'
  BY AppPutStep DEF AppSave

LEMMA AppSavedStep == ASSUME IInv, NEW t \in Tab, AppSaved(t) PROVE IInv'
  <1> DEFINE b == tab[t]
             a == tab[t].app
             y == [b EXCEPT !.app = None, !.base = a.text, !.etag = a.text,
                            !.editor = IF tab[t].bound THEN @ ELSE Merge(a.ours, @, a.text)]
  <1>1. tab' = UpTab(t, y) /\ net' = net
    <2>1. DOMAIN tab = Tab
      BY TabIs
    <2> QED  BY <2>1 DEF AppSaved, UpTab
  <1>2. SameSession(y, b) /\ Shows(y)
    BY TabIs DEF SameSession, Shows, TabFields
  <1> HIDE DEF y
  <1>3. Only(tab', tab, t) /\ tab'[t] = y
    BY <1>1, TabIs, UpTabIs DEF Only
  <1> QED  BY <1>1, <1>2, <1>3, StepSame

LEMMA AppRefusedStep == ASSUME IInv, NEW t \in Tab, AppRefused(t) PROVE IInv'
  <1> DEFINE b == tab[t]
             y == [b EXCEPT !.app.answer = "ok"]
             z == [b EXCEPT !.app = None]
  <1>1. CASE tab' = UpTab(t, y) /\ net' = net
    <2>1. SameSession(y, b) /\ Shows(y)
      BY TabIs DEF SameSession, Shows, TabFields
    <2> HIDE DEF y
    <2>2. Only(tab', tab, t) /\ tab'[t] = y
      BY <1>1, TabIs, UpTabIs DEF Only
    <2> QED  BY <1>1, <2>1, <2>2, StepSame
  <1>2. CASE tab' = UpTab(t, z) /\ net' = net
    <2>1. SameSession(z, b) /\ Shows(z)
      BY TabIs DEF SameSession, Shows, TabFields
    <2> HIDE DEF z
    <2>2. Only(tab', tab, t) /\ tab'[t] = z
      BY <1>2, TabIs, UpTabIs DEF Only
    <2> QED  BY <1>2, <2>1, <2>2, StepSame
  <1>3. CASE \E text, etag, base, ours : AppPut(t, text, etag, base, ours)
    BY <1>3, AppPutStep
  <1>4. DOMAIN tab = Tab
    BY TabIs
  <1> QED  BY <1>1, <1>2, <1>3, <1>4 DEF AppRefused, UpTab

LEMMA AppLoadStep == ASSUME IInv, NEW t \in Tab, AppLoad(t) PROVE IInv'
  <1> DEFINE b == tab[t]
             y == [b EXCEPT !.editor = file, !.base = file, !.etag = file]
  <1>1. tab' = UpTab(t, y) /\ net' = net /\ ~b.bound
    <2>1. DOMAIN tab = Tab
      BY TabIs
    <2> QED  BY <2>1 DEF AppLoad, UpTab
  <1>2. SameSession(y, b) /\ Shows(y)
    BY <1>1, TabIs DEF SameSession, Shows, TabFields
  <1> HIDE DEF y
  <1>3. Only(tab', tab, t) /\ tab'[t] = y
    BY <1>1, TabIs, UpTabIs DEF Only
  <1> QED  BY <1>1, <1>2, <1>3, StepSame

LEMMA SaveDueStep == ASSUME IInv, NEW t \in Tab, SaveDue(t) PROVE IInv'
  <1> DEFINE s == [Same(t) EXCEPT !.tab.due = FALSE]
             y == IF tab[t].saver THEN Saves(s) ELSE s
  <1>1. Steps(t, y, net, left)
    BY DEF SaveDue, Does
  <1>2. DOMAIN s = {"tab", "out"} /\ s.out = <<>> /\ SameSession(s.tab, tab[t]) /\ Shows(s.tab)
    BY TabIs DEF SameSession, Shows, TabFields
  <1> HIDE DEF s
  <1>3. ASSUME NEW quiet PROVE Good(t, net, quiet, y)
    BY <1>2, GoodBegin, GoodSaves
  <1> QED  BY <1>1, <1>3, Stepped

LEMMA SaveAnsweredStep == ASSUME IInv, NEW t \in Tab, SaveAnswered(t) PROVE IInv'
  <1> DEFINE b == tab[t]
             j == b.job
             s == [Same(t) EXCEPT !.tab.job = None]
             a == SetAgreed(s, j.text, j.text, FALSE)
             own == IF b.ownSent = j.own THEN a.tab.ownSent ELSE j.own
             x == Confirm(a, j.recv, own)
             y == IF j.sock # b.sock THEN s
                  ELSE IF j.answer = "ok" THEN x
                  ELSE IF b.saver THEN Look(s, TRUE) ELSE s
  <1>1. Steps(t, y, net, left) /\ j # None
    BY DEF SaveAnswered, Does
  <1>2. /\ DOMAIN s = {"tab", "out"} /\ s.out = <<>> /\ SameSession(s.tab, b) /\ Shows(s.tab)
        /\ s.tab.sock = b.sock
    BY TabIs DEF SameSession, Shows, TabFields
  <1> SUFFICES ASSUME NEW quiet PROVE Good(t, net, quiet, y)
    BY <1>1, Stepped
  <1> HIDE DEF s
  <1>3. Good(t, net, quiet, s)
    BY <1>2, GoodBegin
  <1>4. Good(t, net, quiet, Look(s, TRUE))
    BY <1>3, GoodLook
  <1>5. CASE j.sock = b.sock
    <2>1. s.tab.sock # None
      BY <1>1, <1>2, <1>5, TabIs
    <2>2. Ses(t, net, quiet, a) /\ LikeTab(a, s) /\ Text(a.tab.doc) = Text(s.tab.doc)
      <3>1. Ses(t, net, quiet, s)
        BY <1>3 DEF Good
      <3>2. ASSUME NEW text, NEW dirty
            PROVE  LET z == SetAgreed(s, text, text, dirty)
                   IN  Ses(t, net, quiet, z) /\ LikeTab(z, s) /\ Text(z.tab.doc) = Text(s.tab.doc)
        BY <2>1, <3>1, SesAgreed
      <3> QED  BY <3>2, Zenon
    <2>3. Good(t, net, quiet, a)
      BY <1>3, <2>2 DEF Good, Shows, LikeTab
    <2> HIDE DEF a, own
    <2>4. Good(t, net, quiet, x)
      BY <2>3, SesConfirm DEF Good
    <2> QED  BY <1>3, <1>4, <1>5, <2>4
  <1> QED  BY <1>3, <1>5

LEMMA PollStep == ASSUME IInv, NEW t \in Tab, Poll(t) PROVE IInv'
  <1>1. Steps(t, Look(Same(t), FALSE), net, left)
    BY DEF Poll, Does
  <1>2. ASSUME NEW quiet PROVE Good(t, net, quiet, Look(Same(t), FALSE))
    BY GoodSame, GoodLook
  <1> QED  BY <1>1, <1>2, Stepped

LEMMA CheckAnsweredStep == ASSUME IInv, NEW t \in Tab, CheckAnswered(t) PROVE IInv'
  <1> DEFINE k == tab[t].check
             s0 == [Same(t) EXCEPT !.tab.check = None]
             s == Checked(s0, k.text)
             y == IF k.save THEN Due(s) ELSE s
  <1>1. Steps(t, y, net, left)
    BY DEF CheckAnswered, Does
  <1>2. DOMAIN s0 = {"tab", "out"} /\ s0.out = <<>> /\ SameSession(s0.tab, tab[t]) /\ Shows(s0.tab)
    BY TabIs DEF SameSession, Shows, TabFields
  <1> HIDE DEF s0
  <1>3. ASSUME NEW quiet PROVE Good(t, net, quiet, y)
    <2>1. Good(t, net, quiet, s0)
      BY <1>2, GoodBegin
    <2>2. Good(t, net, quiet, s)
      BY <2>1, GoodChecked
    <2> HIDE DEF s
    <2> QED  BY <2>2, GoodDue
  <1> QED  BY <1>1, <1>3, Stepped

LEMMA LeaveStep == ASSUME IInv, NEW t \in Tab, Leave(t) PROVE IInv'
  <1> DEFINE s == [Same(t) EXCEPT !.tab.leaving = "flush", !.tab.due = FALSE]
             y == IF Unchanged(tab[t].doc, tab[t].editor) THEN s ELSE Saves(s)
  <1>1. Steps(t, y, net, left)
    BY DEF Leave, Does
  <1>2. DOMAIN s = {"tab", "out"} /\ s.out = <<>> /\ SameSession(s.tab, tab[t]) /\ Shows(s.tab)
    <2>1. DOMAIN Same(t) = {"tab", "out"} /\ Same(t).tab = tab[t] /\ Same(t).out = <<>> /\ DOMAIN tab[t] = TabFields
      BY TabIs
    <2>2. /\ DOMAIN s = {"tab", "out"} /\ s.out = <<>> /\ DOMAIN s.tab = TabFields
          /\ s.tab.doc = tab[t].doc /\ s.tab.ownSent = tab[t].ownSent /\ s.tab.sock = tab[t].sock
          /\ s.tab.lastSeq = tab[t].lastSeq /\ s.tab.ready = tab[t].ready /\ s.tab.bound = tab[t].bound
          /\ s.tab.open = tab[t].open /\ s.tab.job = tab[t].job /\ s.tab.editor = tab[t].editor
      BY <2>1 DEF TabFields
    <2> HIDE DEF s
    <2> QED  BY <2>2, TabIs DEF SameSession, Shows
  <1> HIDE DEF s
  <1>3. ASSUME NEW quiet PROVE Good(t, net, quiet, y)
    BY <1>2, GoodBegin, GoodSaves
  <1> QED  BY <1>1, <1>3, Stepped

\* Another tab's record is as before.
LEMMA StepOff ==
  ASSUME IInv, NEW t \in Tab, Inv(net', tab'), NEW y, tab' = UpTab(t, y), ~y.bound
  PROVE  IInv'
  <1>1. tab'[t] = y /\ \A u \in Tab : u # t => tab'[u] = tab[u]
    BY TabIs, UpTabIs
  <1>2. \A u \in Tab : tab'[u].bound => tab'[u].editor = Text(tab'[u].doc)
    BY <1>1 DEF IInv, ShowsRoom
  <1> QED  BY <1>2 DEF IInv, ShowsRoom

LEMMA OpenStep == ASSUME IInv, NEW t \in Tab, NEW c \in Conn, Open(t, c) PROVE IInv'
  <1> DEFINE b == tab[t]
             y == [b EXCEPT !.open = TRUE, !.editor = file, !.base = file,
                            !.etag = file, !.start = file, !.sock = c]
             r == IF net.room = None THEN NewRoom ELSE net.room
  <1>1. /\ c \notin net.used /\ ~b.open
        /\ net' = Mailed([net EXCEPT !.used = @ \cup {c}, !.up = @ \cup {c}], Joined(r, c), JoinMail(r, c))
    BY DEF Open, Joins
  <1>2. tab' = UpTab(t, y)
    BY TabIs DEF Open, UpTab
  <1>3. /\ b.sock = None /\ b.doc = {} /\ b.lastSeq = 0 /\ b.ownSent \in Nat /\ ~b.ready /\ ~b.bound
        /\ (b.job # None => b.job.sock # None) /\ DOMAIN b = TabFields
    BY <1>1, TabIs DEF TabInv
  <1>4. /\ DOMAIN y = TabFields /\ y.sock = c /\ y.doc = {} /\ y.lastSeq = 0 /\ y.ownSent \in Nat /\ y.open
        /\ ~y.ready /\ ~y.bound /\ (y.job # None => y.job.sock # None)
    BY <1>3 DEF TabFields
  <1> HIDE DEF y, r
  <1>5. JoinsWith(tab', tab, t, c)
    BY <1>2, <1>3, <1>4, TabIs, UpTabIs DEF JoinsWith, Only
  <1>6. Inv(net', tab')
    BY <1>1, <1>5, InvJoined DEF IInv, r
  <1> QED  BY <1>2, <1>4, <1>6, StepOff

LEMMA ReconnectStep == ASSUME IInv, NEW t \in Tab, NEW c \in Conn, Reconnect(t, c) PROVE IInv'
  <1> DEFINE b == tab[t]
             y == [b EXCEPT !.sock = c]
             r == IF net.room = None THEN NewRoom ELSE net.room
  <1>1. /\ c \notin net.used /\ b.open /\ b.sock = None
        /\ net' = Mailed([net EXCEPT !.used = @ \cup {c}, !.up = @ \cup {c}], Joined(r, c), JoinMail(r, c))
    BY DEF Reconnect, Joins
  <1>2. tab' = UpTab(t, y)
    BY TabIs DEF Reconnect, UpTab
  <1>3. /\ b.sock = None /\ b.doc = {} /\ b.lastSeq = 0 /\ b.ownSent \in Nat /\ ~b.ready /\ ~b.bound
        /\ (b.job # None => b.job.sock # None) /\ DOMAIN b = TabFields
    BY <1>1, TabIs DEF TabInv
  <1>4. /\ DOMAIN y = TabFields /\ y.sock = c /\ y.doc = {} /\ y.lastSeq = 0 /\ y.ownSent \in Nat /\ y.open
        /\ ~y.ready /\ ~y.bound /\ (y.job # None => y.job.sock # None)
    BY <1>1, <1>3 DEF TabFields
  <1> HIDE DEF y, r
  <1>5. JoinsWith(tab', tab, t, c)
    BY <1>2, <1>3, <1>4, TabIs, UpTabIs DEF JoinsWith, Only
  <1>6. Inv(net', tab')
    BY <1>1, <1>5, InvJoined DEF IInv, r
  <1> QED  BY <1>2, <1>4, <1>6, StepOff

LEMMA LeavesInv ==
  ASSUME NEW n, NEW tb, Inv(n, tb), n.room # None, NEW c, LeavesRoom(n, c)
  PROVE  Inv(net', tb)
  <1>1. PICK seeder \in SeederHeirs(n.room, c), saver \in SaverHeirs(n.room, c) :
          net' = Mailed(n, IF AfterLeave(n.room, c, seeder, saver).members = {}
                              /\ ~HasUnsaved(AfterLeave(n.room, c, seeder, saver))
                           THEN None ELSE AfterLeave(n.room, c, seeder, saver),
                        LeaveMail(n.room, c, seeder, saver))
    BY DEF LeavesRoom
  <1> QED  BY <1>1, InvLeft

LEMMA DepartStep == ASSUME IInv, NEW t \in Tab, Depart(t) PROVE IInv'
  <1> DEFINE b == tab[t]
             s == Same(t)
             same == Unchanged(b.doc, b.editor)
             heard == IF b.bound /\ b.saver /\ same
                      THEN AllHandled(net, b.sock, ConfirmAll(s).out, TRUE)
                      ELSE net
             gone == [heard EXCEPT !.up = @ \ {b.sock},
                                   !.down = [c \in Conn |-> IF c = b.sock THEN <<>> ELSE @[c]]]
             y == [Idle EXCEPT !.leaving = "left"]
             tb == UpTab(t, b)
  <1>1. /\ tab' = UpTab(t, y)
        /\ IF b.sock \in net.up /\ heard.room # None /\ b.sock \in heard.room.members
           THEN LeavesRoom(gone, b.sock) ELSE net' = gone
    BY DEF Depart, UpTab
  <1>2. Inv(heard, tb)
    <2> HIDE DEF same
    <2>1. Good(t, net, TRUE, s) /\ s.tab = b
      BY GoodSame, TabIs
    <2>2. Inv(net, tb)
      <3>1. Same(t).out = <<>>
        BY TabIs
      <3>2. ASSUME NEW quiet PROVE NetOf(t, net, quiet, s) = net
        BY <3>1, NetStart
      <3>3. ASSUME NEW quiet PROVE Inv(NetOf(t, net, quiet, s), UpTab(t, s.tab))
        BY GoodSame DEF Good, Ses
      <3> QED  BY <2>1, <3>2, <3>3
    <2> HIDE DEF s
    <2>3. Ses(t, net, TRUE, ConfirmAll(s)) /\ ConfirmAll(s).tab = b
      BY <2>1, SesConfirmAll DEF Good
    <2>4. Inv(AllHandled(net, b.sock, ConfirmAll(s).out, TRUE), tb)
      BY <2>3 DEF Ses, NetOf
    <2> QED  BY <2>2, <2>4
  <1>3. /\ DOMAIN y = TabFields /\ y.sock = None /\ y.doc = {} /\ y.lastSeq = 0 /\ y.ownSent = 0
        /\ ~y.ready /\ ~y.bound /\ y.job = None
    BY DEF Idle, TabFields
  <1> HIDE DEF y, heard
  <1>4. Off(tab', tb, t)
    <2>1. \A u \in Tab : u # t => tab'[u] = tb[u]
      BY <1>1, TabIs, UpTabIs
    <2>2. DOMAIN tab' = Tab /\ tab'[t] = y
      BY <1>1, TabIs, UpTabIs
    <2> QED  BY <1>3, <2>1, <2>2 DEF Off, Only
  <1> HIDE DEF tb
  <1>5. Inv(heard, tab')
    BY <1>2, <1>4, InvOff
  <1>6. Gone(gone, heard, b.sock)
    BY <1>5 DEF Gone, Inv, NetInv
  <1>7. gone.room = heard.room
    BY <1>6 DEF Gone
  <1> HIDE DEF gone
  <1>8. Inv(gone, tab')
    BY <1>5, <1>6, InvGone
  <1>9. Inv(net', tab')
    BY <1>1, <1>7, <1>8, LeavesInv
  <1> QED  BY <1>1, <1>3, <1>9, StepOff

LEMMA SocketGoneStep == ASSUME IInv, NEW t \in Tab, SocketGone(t) PROVE IInv'
  <1> DEFINE b == tab[t]
             base == IF Agreed(b.doc) THEN Base(b.doc) ELSE b.editor
             apart == [b EXCEPT !.sock = None, !.doc = {}, !.lastSeq = 0, !.ownSent = 0,
                                !.ready = FALSE, !.seed = FALSE, !.saver = FALSE, !.bound = FALSE,
                                !.due = FALSE, !.check = None, !.join = None]
             over == [apart EXCEPT !.base = base, !.start = base,
                                   !.etag = IF Agreed(b.doc) THEN base ELSE None,
                                   !.editor = IF Unchanged(b.doc, @) THEN base ELSE @]
             y == IF b.bound THEN over ELSE apart
  <1>1. tab' = UpTab(t, y) /\ net' = net
    BY DEF SocketGone, UpTab
  <1>2. /\ DOMAIN apart = TabFields /\ apart.sock = None /\ apart.doc = {} /\ apart.lastSeq = 0
        /\ apart.ownSent = 0 /\ ~apart.ready /\ ~apart.bound /\ apart.job = b.job
    BY TabIs DEF TabFields
  <1> HIDE DEF apart, base
  <1>3. /\ DOMAIN over = TabFields /\ over.sock = None /\ over.doc = {} /\ over.lastSeq = 0
        /\ over.ownSent = 0 /\ ~over.ready /\ ~over.bound /\ over.job = b.job
    BY <1>2 DEF TabFields
  <1> HIDE DEF over
  <1>4. /\ DOMAIN y = TabFields /\ y.sock = None /\ y.doc = {} /\ y.lastSeq = 0
        /\ y.ownSent = 0 /\ ~y.ready /\ ~y.bound /\ y.job = b.job
    BY <1>2, <1>3
  <1> HIDE DEF y
  <1>5. Off(tab', tab, t)
    BY <1>1, <1>4, TabIs, UpTabIs DEF Off, Only
  <1>6. Inv(net', tab')
    BY <1>1, <1>5, InvOff DEF IInv
  <1> QED  BY <1>1, <1>4, <1>6, StepOff

LEMMA CutStep == ASSUME IInv, NEW t \in Tab, Cut(t) PROVE IInv'
  <1> DEFINE c == tab[t].sock
  <1>1. net' = [net EXCEPT !.up = @ \ {c}, !.down[c] = <<>>] /\ tab' = tab
    BY DEF Cut
  <1>2. Gone(net', net, c)
    BY <1>1 DEF Gone, IInv, Inv, NetInv
  <1>3. Inv(net', tab)
    BY <1>2, InvGone DEF IInv
  <1> QED  BY <1>1, <1>3, StepNet

LEMMA ServerDropsStep == ASSUME IInv, NEW c, ServerDrops(c) PROVE IInv'
  <1>1. net.room # None /\ LeavesRoom(net, c) /\ tab' = tab
    BY DEF ServerDrops
  <1>2. Inv(net', tab)
    BY <1>1, LeavesInv DEF IInv
  <1> QED  BY <1>1, <1>2, StepNet

LEMMA SaverCheckStep == ASSUME IInv, SaverCheck PROVE IInv'
  <1>1. /\ net.room # None /\ tab' = tab
        /\ \E c : net' = Mailed(net, Relieved(net.room, c), RoleMail(net.room, c))
    BY DEF SaverCheck
  <1>2. Inv(net', tab)
    BY <1>1, InvRelieved DEF IInv
  <1> QED  BY <1>1, <1>2, StepNet

LEMMA GraceEndsStep == ASSUME IInv, GraceEnds PROVE IInv'
  <1>1. tab' = tab /\ net' = [net EXCEPT !.room = None]
    BY DEF GraceEnds
  <1>2. Inv(net, tab)
    BY DEF IInv
  <1>3. /\ DOMAIN net' = {"room", "used", "up", "down"} /\ net'.room = None /\ net'.used = net.used
        /\ net'.up = net.up /\ net'.down = net.down
    BY <1>1, <1>2 DEF Inv, NetInv
  <1>4. NetInv(net') /\ Spoken(net')
    BY <1>2, <1>3 DEF Inv, NetInv, Spoken
  <1>5. ASSUME NEW t \in Tab PROVE TabInv(net', tab[t])
    <2>1. TabInv(net, tab[t])
      BY <1>2 DEF Inv
    <2>2. JoinsFirst(net', tab[t])
      BY <1>3, <2>1 DEF TabInv, JoinsFirst
    <2> QED  BY <1>3, <2>1, <2>2 DEF TabInv
  <1>6. AllMinted(net', tab)
    <2> SUFFICES ASSUME NEW i, Known(net', tab, i) PROVE Minted(net', tab, i)
      BY DEF AllMinted
    <2>1. Known(net, tab, i)
      BY <1>3 DEF Known
    <2> QED  BY <1>2, <1>3, <2>1 DEF Inv, AllMinted, Minted
  <1>7. Inv(net', tab)
    BY <1>2, <1>4, <1>5, <1>6 DEF Inv
  <1> QED  BY <1>1, <1>7, StepNet

LEMMA OutsideWritesStep == ASSUME IInv, NEW o, OutsideWrites(o) PROVE IInv'
  BY DEF OutsideWrites, IInv, ShowsRoom

LEMMA InitInv == Init => IInv
  <1> SUFFICES ASSUME Init PROVE IInv
    OBVIOUS
  <1>1. /\ DOMAIN net = {"room", "used", "up", "down"} /\ net.room = None /\ net.used = {} /\ net.up = {}
        /\ DOMAIN net.down = Conn /\ (\A c \in Conn : net.down[c] = <<>>)
        /\ DOMAIN tab = Tab /\ \A t \in Tab : tab[t] = Idle
    BY DEF Init
  <1>2. /\ DOMAIN Idle = TabFields /\ Idle.ownSent = 0 /\ Idle.sock = None /\ ~Idle.bound
        /\ Idle.doc = {} /\ Idle.lastSeq = 0 /\ ~Idle.ready /\ Idle.job = None
    BY DEF Idle, TabFields
  <1>3. NetInv(net)
    <2>1. IsSequence(<<>>)
      BY PlainNone DEF Plain
    <2> QED  BY <1>1, <2>1 DEF NetInv
  <1>4. Spoken(net)
    BY <1>1 DEF Spoken
  <1>5. ASSUME NEW t \in Tab PROVE TabInv(net, tab[t])
    <2>1. JoinsFirst(net, tab[t])
      BY <1>1, <1>2, RoomAssumption DEF JoinsFirst
    <2> QED  BY <1>1, <1>2, <2>1 DEF TabInv
  <1>6. OwnSockets(tab)
    BY <1>1, <1>2 DEF OwnSockets
  <1>7. AllMinted(net, tab)
    <2> SUFFICES ASSUME NEW i, Known(net, tab, i) PROVE FALSE
      BY DEF AllMinted
    <2> QED  BY <1>1, <1>2 DEF Known
  <1>8. ShowsRoom
    BY <1>1, <1>2 DEF ShowsRoom
  <1> QED  BY <1>1, <1>3, <1>4, <1>5, <1>6, <1>7, <1>8 DEF IInv, Inv

LEMMA NextInv == ASSUME IInv, [Next]_vars PROVE IInv'
  <1>1. CASE UNCHANGED vars
    BY <1>1 DEF vars, IInv, ShowsRoom
  <1>2. CASE \E t \in Tab : Session(t)
    <2>1. PICK t \in Tab : Session(t)
      BY <1>2
    <2>2. CASE Receive(t)  BY <2>2, ReceiveStep
    <2>3. CASE Rejoin(t)  BY <2>3, RejoinStep
    <2>4. CASE JoinReads(t)  BY <2>4, JoinReadsStep
    <2>5. CASE JoinMerges(t)  BY <2>5, JoinMergesStep
    <2>6. CASE AppSave(t)  BY <2>6, AppSaveStep
    <2>7. CASE AppSaved(t)  BY <2>7, AppSavedStep
    <2>8. CASE AppRefused(t)  BY <2>8, AppRefusedStep
    <2>9. CASE AppLoad(t)  BY <2>9, AppLoadStep
    <2>10. CASE SaveDue(t)  BY <2>10, SaveDueStep
    <2>11. CASE SaveAnswered(t)  BY <2>11, SaveAnsweredStep
    <2>12. CASE CheckAnswered(t)  BY <2>12, CheckAnsweredStep
    <2>13. CASE Depart(t)  BY <2>13, DepartStep
    <2>14. CASE SocketGone(t)  BY <2>14, SocketGoneStep
    <2> QED  BY <2>1, <2>2, <2>3, <2>4, <2>5, <2>6, <2>7, <2>8, <2>9, <2>10, <2>11, <2>12, <2>13, <2>14 DEF Session
  <1>3. CASE \E t \in Tab : Poll(t) \/ Leave(t) \/ Cut(t)
    BY <1>3, PollStep, LeaveStep, CutStep
  <1>4. CASE \E t \in Tab : \E c \in Conn : Open(t, c) \/ Reconnect(t, c)
    BY <1>4, OpenStep, ReconnectStep
  <1>5. CASE \E t \in Tab : \E p \in left.typed : Type(t, p)
    BY <1>5, TypeStep
  <1>6. CASE \E c \in Conn : ServerDrops(c)
    BY <1>6, ServerDropsStep
  <1>7. CASE SaverCheck
    BY <1>7, SaverCheckStep
  <1>8. CASE GraceEnds
    BY <1>8, GraceEndsStep
  <1>9. CASE \E o \in left.outside : OutsideWrites(o)
    BY <1>9, OutsideWritesStep
  <1> QED  BY <1>1, <1>2, <1>3, <1>4, <1>5, <1>6, <1>7, <1>8, <1>9 DEF Next

LEMMA InvConverged == IInv => Converged
  <1> SUFFICES ASSUME IInv, NEW t \in Tab, NEW c, c = tab[t].sock, c \in net.up, InRoom(c), net.down[c] = <<>>
               PROVE  tab[t].doc = Items(net.room.log)
    BY DEF Converged
  <1>1. InStep(net.room, tab[t].doc, tab[t].lastSeq, <<>>)
    BY TabIs DEF TabInv, InRoom
  <1>2. Arrived(tab[t].doc, <<>>, Len(<<>>)) = Items(net.room.log)
    BY <1>1 DEF InStep
  <1>3. DOMAIN <<>> = {}
    OBVIOUS
  <1>4. \A x : x \in Arrived(tab[t].doc, <<>>, Len(<<>>)) <=> x \in tab[t].doc
    BY <1>3, ArrivedIs
  <1> QED  BY <1>2, <1>4

LEMMA EditingInv == Spec => []IInv
  <1>1. IInv /\ [Next]_vars => IInv'
    BY NextInv
  <1> QED  BY <1>1, InitInv, PTL DEF Spec

\* A bound tab in the room whose queue is empty has all the room has, for any
\* tabs, sockets, typing, writes from outside, cuts, compactions and changes
\* of the saver: sharedDoc.js and yjs.go lose no update and keep none back.
THEOREM TabsConverge == Spec => []Converged
  BY EditingInv, InvConverged, PTL

\* A bound tab shows the text of its document, whatever the order in which
\* answers, updates and merges of outside changes come (sharedDoc.js).
THEOREM TabsShowTheRoom == Spec => []ShowsRoom
  <1>1. IInv => ShowsRoom
    BY DEF IInv
  <1> QED  BY <1>1, EditingInv, PTL
=============================================================================
