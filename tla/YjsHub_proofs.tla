----------------------------- MODULE YjsHub_proofs -----------------------------
(***************************************************************************)
(* What holds of the rooms for any connections, notes, caps and sizes.     *)
(* Each lemma about a room says what one handler keeps (RoomInv); the      *)
(* theorems lift it to the hub.                                            *)
(*                                                                         *)
(* The byte budgets are sums over finite sets (MapThenSumSet). The first   *)
(* part says how a sum grows by what is added, splits over a disjoint      *)
(* union, and does not change when the elements are renamed. The library   *)
(* defines such a sum by recursion over the subsets of a set; induction is *)
(* used in its first-order form: every set of finite sets has a minimal    *)
(* member.                                                                 *)
(***************************************************************************)
EXTENDS YjsHub, FiniteSetsExt, FiniteSetTheorems, TLAPS

\* The element the library's fold takes out of S first.
One(S) == CHOOSE x \in S : TRUE

\* The sum of f[x] for x in S.
SumOf(f, S) == MapThenSumSet(LAMBDA x : f[x], S)

\* g gives the sum of f over every subset of S, by the fold's equation.
Iterates(g, f, S) ==
  g = [s \in SUBSET S |-> IF s = {} THEN 0 ELSE f[One(s)] + g[s \ {One(s)}]]

\* What holds of a set when it holds of all smaller ones holds of all subsets
\* of a finite set.
LEMMA SubsetInduction ==
  ASSUME NEW S, IsFiniteSet(S), NEW G,
         \A T \in SUBSET S : (\A U \in SUBSET T : U # T => U \in G) => T \in G
  PROVE  \A T \in SUBSET S : T \in G
  <1> DEFINE Bad == {T \in SUBSET S : T \notin G}
             R   == StrictSubsetOrdering(S)
  <1>1. IsWellFoundedOn(R, SUBSET S)
    BY FS_StrictSubsetOrderingWellFounded, FS_FiniteSubsetsOfFinite
  <1>2. SUFFICES ASSUME Bad # {} PROVE FALSE
    OBVIOUS
  <1>3. PICK T \in Bad : \A U \in Bad : <<U, T>> \notin R
    <2> HIDE DEF R
    <2>1. Bad \subseteq SUBSET S
      OBVIOUS
    <2> HIDE DEF Bad
    <2> QED  BY <1>1, <1>2, <2>1, WFMin
  <1>4. \A U \in SUBSET T : U # T => U \in G
    BY <1>3 DEF StrictSubsetOrdering
  <1> QED  BY <1>4

\* The same, adding one element at a time.
LEMMA ElementInduction ==
  ASSUME NEW S, IsFiniteSet(S), NEW G, {} \in G,
         \A T \in SUBSET S : \A x \in S : T \in G /\ x \notin T => T \cup {x} \in G
  PROVE  S \in G
  <1>1. ASSUME NEW T \in SUBSET S, \A U \in SUBSET T : U # T => U \in G
        PROVE  T \in G
    <2>1. CASE T = {}
      BY <2>1
    <2>2. CASE T # {}
      <3>1. PICK x \in T : TRUE
        BY <2>2
      <3>2. T \ {x} \in G /\ T = (T \ {x}) \cup {x}
        BY <1>1
      <3>3. (T \ {x}) \cup {x} \in G
        BY <3>2
      <3> QED  BY <3>2, <3>3
    <2> QED  BY <2>1, <2>2
  <1>2. \A T \in SUBSET S : T \in G
    BY <1>1, SubsetInduction
  <1> QED  BY <1>2

LEMMA OneIn == \A S : S # {} => One(S) \in S
  BY DEF One

\* Two functions that give the sums agree where both do.
LEMMA IteratesAgree ==
  ASSUME NEW f, NEW h, NEW S, NEW T, IsFiniteSet(S), NEW a, NEW b,
         Iterates(a, f, S), Iterates(b, h, T),
         NEW U, U \subseteq S, U \subseteq T, \A x \in U : f[x] = h[x]
  PROVE  a[U] = b[U]
  <1> DEFINE G == {V \in SUBSET U : a[V] = b[V]}
  <1>1. IsFiniteSet(U)
    BY FS_Subset
  <1>2. \A V \in SUBSET U :
          /\ a[V] = IF V = {} THEN 0 ELSE f[One(V)] + a[V \ {One(V)}]
          /\ b[V] = IF V = {} THEN 0 ELSE h[One(V)] + b[V \ {One(V)}]
    BY DEF Iterates
  <1>3. ASSUME NEW V \in SUBSET U, \A W \in SUBSET V : W # V => W \in G
        PROVE  V \in G
    <2>1. CASE V = {}
      BY <1>2, <2>1
    <2>2. CASE V # {}
      <3>1. One(V) \in V
        BY <2>2, OneIn
      <3>2. a[V \ {One(V)}] = b[V \ {One(V)}] /\ f[One(V)] = h[One(V)]
        BY <1>3, <3>1
      <3> QED  BY <1>2, <2>2, <3>2
    <2> QED  BY <2>1, <2>2
  <1> HIDE DEF G
  <1>4. \A V \in SUBSET U : V \in G
    BY <1>1, <1>3, SubsetInduction
  <1> QED  BY <1>4 DEF G

\* There is such a function for every finite set.
LEMMA IteratesExist ==
  ASSUME NEW f, NEW S, IsFiniteSet(S)
  PROVE  \E g : Iterates(g, f, S)
  <1> DEFINE G == {V \in SUBSET S : \E g : Iterates(g, f, V)}
             The(V) == CHOOSE g : Iterates(g, f, V)
  <1>1. ASSUME NEW V \in SUBSET S, \A W \in SUBSET V : W # V => W \in G
        PROVE  V \in G
    <2> DEFINE sum(W) == IF W = {} THEN 0
                         ELSE f[One(W)] + The(W \ {One(W)})[W \ {One(W)}]
               g == [W \in SUBSET V |-> sum(W)]
    <2>1. \A W \in SUBSET V : W # V => Iterates(The(W), f, W)
      BY <1>1
    <2>2. ASSUME NEW W \in SUBSET V, W # V
          PROVE  The(W)[W] = sum(W)
      <3>1. CASE W = {}
        <4>1. Iterates(The(W), f, W)
          BY <2>1, <2>2
        <4> HIDE DEF The
        <4>2. The(W)[W] = 0
          BY <3>1, <4>1 DEF Iterates
        <4> QED  BY <3>1, <4>2
      <3>2. CASE W # {}
        <4>1. One(W) \in W
          BY <3>2, OneIn
        <4>2. W \ {One(W)} \in SUBSET V /\ W \ {One(W)} # V /\ IsFiniteSet(W)
          BY <2>2, <4>1, FS_Subset
        <4>3. Iterates(The(W), f, W) /\ Iterates(The(W \ {One(W)}), f, W \ {One(W)})
          BY <2>1, <2>2, <4>2
        <4> HIDE DEF The
        <4>4. The(W)[W \ {One(W)}] = The(W \ {One(W)})[W \ {One(W)}]
          <5>1. W \ {One(W)} \subseteq W
            OBVIOUS
          <5> QED  BY <4>2, <4>3, <5>1, IteratesAgree
        <4>5. The(W)[W] = f[One(W)] + The(W)[W \ {One(W)}]
          BY <3>2, <4>3 DEF Iterates
        <4> QED  BY <3>2, <4>4, <4>5
      <3> QED  BY <3>1, <3>2
    <2>3. \A W \in SUBSET V : g[W] = IF W = {} THEN 0 ELSE f[One(W)] + g[W \ {One(W)}]
      <3> SUFFICES ASSUME NEW W \in SUBSET V
                   PROVE  g[W] = IF W = {} THEN 0 ELSE f[One(W)] + g[W \ {One(W)}]
        OBVIOUS
      <3>0. CASE W = {}
        BY <3>0
      <3>5. CASE W # {}
        <4>1. One(W) \in W
          BY <3>5, OneIn
        <4>2. W \ {One(W)} \in SUBSET V /\ W \ {One(W)} # V
          BY <4>1
        <4>3. The(W \ {One(W)})[W \ {One(W)}] = sum(W \ {One(W)})
          BY <2>2, <4>2
        <4>4. g[W] = sum(W) /\ g[W \ {One(W)}] = sum(W \ {One(W)})
          BY <4>2
        <4>5. sum(W) = f[One(W)] + The(W \ {One(W)})[W \ {One(W)}]
          BY <3>5
        <4> HIDE DEF The, sum, g
        <4> QED  BY <3>5, <4>3, <4>4, <4>5
      <3> QED  BY <3>0, <3>5
    <2>4. Iterates(g, f, V)
      <3>1. g = [W \in SUBSET V |-> g[W]]
        OBVIOUS
      <3> HIDE DEF g
      <3> QED  BY <2>3, <3>1 DEF Iterates
    <2> QED  BY <2>4
  <1> HIDE DEF G
  <1>2. S \in G
    BY <1>1, SubsetInduction
  <1> QED  BY <1>2 DEF G

LEMMA Unfold ==
  ASSUME NEW f, NEW S
  PROVE  SumOf(f, S) = (CHOOSE g : Iterates(g, f, S))[S]
  BY DEF SumOf, MapThenSumSet, MapThenFoldSet, Iterates, One

\* A sum depends on the values added only.
LEMMA SumSame ==
  ASSUME NEW S, IsFiniteSet(S), NEW f, NEW h, \A x \in S : f[x] = h[x]
  PROVE  SumOf(f, S) = SumOf(h, S)
  <1> DEFINE a == CHOOSE g : Iterates(g, f, S)
             b == CHOOSE g : Iterates(g, h, S)
  <1>1. Iterates(a, f, S) /\ Iterates(b, h, S)
    BY IteratesExist
  <1> HIDE DEF a, b
  <1>2. a[S] = b[S]
    <2> DEFINE T == S
    <2>1. S \subseteq S /\ S \subseteq T /\ Iterates(b, h, T)
      BY <1>1
    <2> HIDE DEF T
    <2> QED  BY <1>1, <2>1, IteratesAgree
  <1> QED  BY <1>2, Unfold DEF a, b

LEMMA SumEmpty == \A f : SumOf(f, {}) = 0
  <1> SUFFICES ASSUME NEW f PROVE SumOf(f, {}) = 0
    OBVIOUS
  <1> DEFINE a == CHOOSE g : Iterates(g, f, {})
  <1>1. Iterates(a, f, {})
    BY IteratesExist, FS_EmptySet
  <1> HIDE DEF a
  <1>2. a[{}] = 0
    BY <1>1 DEF Iterates
  <1> QED  BY <1>2, Unfold DEF a

\* The fold's own step.
LEMMA SumOne ==
  ASSUME NEW S, IsFiniteSet(S), S # {}, NEW f
  PROVE  SumOf(f, S) = f[One(S)] + SumOf(f, S \ {One(S)})
  <1> DEFINE T == S \ {One(S)}
             a == CHOOSE g : Iterates(g, f, S)
             b == CHOOSE g : Iterates(g, f, T)
  <1>1. IsFiniteSet(T) /\ T \subseteq S
    BY FS_Subset
  <1>2. Iterates(a, f, S) /\ Iterates(b, f, T)
    BY <1>1, IteratesExist
  <1>3. SumOf(f, S) = a[S] /\ SumOf(f, T) = b[T]
    BY Unfold
  <1> HIDE DEF a, b
  <1>4. a[S] = f[One(S)] + a[T]
    BY <1>2 DEF Iterates
  <1>5. a[T] = b[T]
    <2>1. T \subseteq S /\ T \subseteq T
      BY <1>1
    <2> HIDE DEF T
    <2> QED  BY <1>2, <2>1, IteratesAgree
  <1> QED  BY <1>3, <1>4, <1>5

LEMMA SumNat ==
  ASSUME NEW S, IsFiniteSet(S), NEW f, \A x \in S : f[x] \in Nat
  PROVE  SumOf(f, S) \in Nat
  <1> DEFINE G == {V \in SUBSET S : SumOf(f, V) \in Nat}
  <1>1. ASSUME NEW V \in SUBSET S, \A W \in SUBSET V : W # V => W \in G
        PROVE  V \in G
    <2>1. CASE V = {}
      BY <2>1, SumEmpty
    <2>2. CASE V # {}
      <3>1. One(V) \in V /\ IsFiniteSet(V)
        BY <2>2, OneIn, FS_Subset
      <3>2. SumOf(f, V \ {One(V)}) \in Nat /\ f[One(V)] \in Nat
        BY <1>1, <3>1
      <3>3. SumOf(f, V) = f[One(V)] + SumOf(f, V \ {One(V)})
        BY <2>2, <3>1, SumOne
      <3> QED  BY <3>2, <3>3
    <2> QED  BY <2>1, <2>2
  <1> HIDE DEF G
  <1>2. S \in G
    BY <1>1, SubsetInduction
  <1> QED  BY <1>2 DEF G

\* Any element may be taken out first.
LEMMA SumRemove ==
  ASSUME NEW S, IsFiniteSet(S), NEW f, \A x \in S : f[x] \in Nat
  PROVE  \A x \in S : SumOf(f, S) = f[x] + SumOf(f, S \ {x})
  <1> DEFINE G == {V \in SUBSET S : \A x \in V : SumOf(f, V) = f[x] + SumOf(f, V \ {x})}
  <1>1. ASSUME NEW V \in SUBSET S, \A W \in SUBSET V : W # V => W \in G
        PROVE  V \in G
    <2> SUFFICES ASSUME NEW x \in V PROVE SumOf(f, V) = f[x] + SumOf(f, V \ {x})
      OBVIOUS
    <2> DEFINE y == One(V)
    <2>1. y \in V /\ IsFiniteSet(V) /\ SumOf(f, V) = f[y] + SumOf(f, V \ {y})
      BY OneIn, FS_Subset, SumOne
    <2> HIDE DEF y
    <2>2. CASE x = y
      BY <2>1, <2>2
    <2>3. CASE x # y
      <3> DEFINE W == V \ {x, y}
      <3>1. W = (V \ {y}) \ {x} /\ W = (V \ {x}) \ {y} /\ IsFiniteSet(W)
        BY <2>1, FS_Subset
      <3>2. V \ {y} \in G /\ V \ {x} \in G /\ x \in V \ {y} /\ y \in V \ {x}
        BY <1>1, <2>1, <2>3
      <3>3. /\ SumOf(f, V \ {y}) = f[x] + SumOf(f, (V \ {y}) \ {x})
            /\ SumOf(f, V \ {x}) = f[y] + SumOf(f, (V \ {x}) \ {y})
        BY <3>2
      <3>4. f[x] \in Nat /\ f[y] \in Nat /\ SumOf(f, W) \in Nat
        BY <2>1, <3>1, SumNat
      <3>5. SumOf(f, (V \ {y}) \ {x}) = SumOf(f, W) /\ SumOf(f, (V \ {x}) \ {y}) = SumOf(f, W)
        BY <3>1
      <3> DEFINE v == SumOf(f, V) vx == SumOf(f, V \ {x}) vy == SumOf(f, V \ {y}) w == SumOf(f, W)
                 fx == f[x] fy == f[y]
      <3>6. v = fy + vy /\ vy = fx + w /\ vx = fy + w /\ fx \in Nat /\ fy \in Nat /\ w \in Nat
        BY <2>1, <3>3, <3>4, <3>5
      <3> HIDE DEF v, vx, vy, w, fx, fy
      <3>7. v = fx + vx
        BY <3>6
      <3> QED  BY <3>7 DEF v, vx, fx
    <2> QED  BY <2>2, <2>3
  <1> HIDE DEF G
  <1>2. S \in G
    BY <1>1, SubsetInduction
  <1> QED  BY <1>2 DEF G

LEMMA SumAdd ==
  ASSUME NEW S, IsFiniteSet(S), NEW x, x \notin S, NEW f,
         \A y \in S \cup {x} : f[y] \in Nat
  PROVE  SumOf(f, S \cup {x}) = SumOf(f, S) + f[x]
  <1>1. IsFiniteSet(S \cup {x}) /\ (S \cup {x}) \ {x} = S
    BY FS_AddElement
  <1>2. SumOf(f, S \cup {x}) = f[x] + SumOf(f, (S \cup {x}) \ {x})
    BY <1>1, SumRemove
  <1>3. SumOf(f, S) \in Nat /\ f[x] \in Nat
    BY SumNat
  <1>4. SumOf(f, S \cup {x}) = f[x] + SumOf(f, S)
    BY <1>1, <1>2
  <1> QED  BY <1>3, <1>4

\* The sum over a disjoint union.
LEMMA SumUnion ==
  ASSUME NEW S, NEW T, IsFiniteSet(S), IsFiniteSet(T), S \cap T = {},
         NEW f, \A x \in S \cup T : f[x] \in Nat
  PROVE  SumOf(f, S \cup T) = SumOf(f, S) + SumOf(f, T)
  <1> DEFINE G == {V \in SUBSET T : SumOf(f, S \cup V) = SumOf(f, S) + SumOf(f, V)}
  <1>1. {} \in G
    <2>1. SumOf(f, S) \in Nat /\ SumOf(f, {}) = 0 /\ S \cup {} = S
      BY SumNat, SumEmpty
    <2> QED  BY <2>1
  <1>2. ASSUME NEW V \in SUBSET T, NEW x \in T, V \in G, x \notin V
        PROVE  V \cup {x} \in G
    <2>1. IsFiniteSet(V) /\ IsFiniteSet(S \cup V)
      BY FS_Subset, FS_Union
    <2>2. SumOf(f, V \cup {x}) = SumOf(f, V) + f[x]
      BY <1>2, <2>1, SumAdd
    <2>3. SumOf(f, (S \cup V) \cup {x}) = SumOf(f, S \cup V) + f[x]
      BY <1>2, <2>1, SumAdd
    <2>4. (S \cup V) \cup {x} = S \cup (V \cup {x})
      OBVIOUS
    <2>5. SumOf(f, S) \in Nat /\ SumOf(f, V) \in Nat /\ f[x] \in Nat
      BY <2>1, SumNat
    <2>6. SumOf(f, S \cup (V \cup {x})) = SumOf(f, S \cup V) + f[x]
      BY <2>3, <2>4
    <2>7. SumOf(f, S \cup V) = SumOf(f, S) + SumOf(f, V)
      BY <1>2
    <2>8. SumOf(f, S \cup (V \cup {x})) = SumOf(f, S) + SumOf(f, V \cup {x})
      BY <2>2, <2>5, <2>6, <2>7
    <2> QED  BY <2>8
  <1> HIDE DEF G
  <1>3. T \in G
    BY <1>1, <1>2, ElementInduction
  <1> QED  BY <1>3 DEF G

\* The sum over a set of elements renamed by r, no two alike.
LEMMA SumRenamed ==
  ASSUME NEW S, IsFiniteSet(S), NEW r, NEW f, NEW h,
         \A x \in S : f[r[x]] = h[x] /\ h[x] \in Nat,
         \A x, y \in S : r[x] = r[y] => x = y
  PROVE  /\ IsFiniteSet({r[x] : x \in S})
         /\ SumOf(f, {r[x] : x \in S}) = SumOf(h, S)
  <1> DEFINE Im(V) == {r[x] : x \in V}
             G == {V \in SUBSET S : IsFiniteSet(Im(V)) /\ SumOf(f, Im(V)) = SumOf(h, V)}
  <1>1. {} \in G
    <2>1. Im({}) = {}
      OBVIOUS
    <2> QED  BY <2>1, SumEmpty, FS_EmptySet
  <1>2. ASSUME NEW V \in SUBSET S, NEW x \in S, V \in G, x \notin V
        PROVE  V \cup {x} \in G
    <2>1. IsFiniteSet(V) /\ IsFiniteSet(Im(V)) /\ SumOf(f, Im(V)) = SumOf(h, V)
      BY <1>2, FS_Subset
    <2>2. Im(V \cup {x}) = Im(V) \cup {r[x]} /\ r[x] \notin Im(V)
      BY <1>2
    <2>3. \A y \in Im(V) \cup {r[x]} : f[y] \in Nat
      OBVIOUS
    <2> HIDE DEF Im
    <2> DEFINE e == r[x]
    <2>4. SumOf(f, Im(V) \cup {e}) = SumOf(f, Im(V)) + f[e]
      <3>1. e \notin Im(V) /\ \A y \in Im(V) \cup {e} : f[y] \in Nat
        BY <2>2, <2>3
      <3> DEFINE I == Im(V)
      <3> HIDE DEF e, I
      <3>2. IsFiniteSet(I) /\ e \notin I /\ \A y \in I \cup {e} : f[y] \in Nat
        BY <2>1, <3>1 DEF I
      <3>3. SumOf(f, I \cup {e}) = SumOf(f, I) + f[e]
        BY <3>2, SumAdd
      <3> QED  BY <3>3 DEF I
    <2>5. SumOf(h, V \cup {x}) = SumOf(h, V) + h[x]
      BY <1>2, <2>1, SumAdd
    <2>6. IsFiniteSet(Im(V) \cup {r[x]})
      BY <2>1, FS_AddElement
    <2> QED  BY <2>1, <2>2, <2>4, <2>5, <2>6
  <1> HIDE DEF G
  <1>3. S \in G
    BY <1>1, <1>2, ElementInduction
  <1> QED  BY <1>3 DEF G

-------------------------------------------------------------------------------

\* What every handler keeps of a room, an empty new one included.
RoomInv(r) ==
  /\ RoomOK(r)
  /\ r.saver \in (r.members \cap Writable) \cup {None}
  /\ r.seeder \in (r.members \cap Writable) \cup {None}
  /\ r.log # {} => r.seeded
  /\ r.asked => r.seeded
  /\ r.seeded => r.seeder = None
  /\ HasUnsaved(r) => r.watch

\* An empty room is one that waits for somebody to save it.
Kept(r) == r.members = {} => HasUnsaved(r) /\ r.grace

\* What CompactionKeepsUnsaved says of a step.
UnsavedKept(r, next) ==
  {e.seq : e \in r.log} # {e.seq : e \in next.log} => Unsaved(r) \subseteq Unsaved(next)

LEMMA NewRoomInv == RoomInv(NewRoom)
  BY RoomAssumption DEF RoomInv, RoomOK, NewRoom, HasUnsaved

\* yjs-hello
LEMMA JoinedInv ==
  ASSUME NEW r, RoomInv(r), NEW c \in Conn
  PROVE  /\ RoomInv(Joined(r, c)) /\ Kept(Joined(r, c))
         /\ Joined(r, c).log = r.log
  <1> DEFINE j == Joined(r, c)
  <1>1. RoomOK(j)
    BY DEF RoomInv, RoomOK, NewRoom, Joined, Writable
  <1>2. /\ j.members = r.members \cup {c} /\ j.log = r.log /\ j.watch = r.watch
        /\ j.seeded = r.seeded /\ j.asked = r.asked
        /\ j.seeder = IF ~r.seeded /\ r.seeder = None /\ c \in Writable THEN c ELSE r.seeder
        /\ j.saver = IF r.saver = None /\ c \in Writable THEN c ELSE r.saver
    BY DEF RoomInv, RoomOK, NewRoom, Joined
  <1> QED  BY <1>1, <1>2 DEF RoomInv, Kept, HasUnsaved

\* An update: it is in the log, unsaved, and the room is on the watch.
LEMMA UpdatedInv ==
  ASSUME NEW r, RoomInv(r), NEW c \in r.members \cap Writable, NEW uid \in User,
         NEW body \in SUBSET Item, NEW size \in Sizes, NEW quiet,
         NEW u, u = AfterUpdate(r, c, uid, body, size, quiet)
  PROVE  /\ RoomInv(u) /\ u.members = r.members
         /\ \E e \in Entry : e.body = body /\ ~e.saved /\ u.log = r.log \cup {e}
  <1> DEFINE a == Appended(r, c, uid, body, size)
             e == [seq |-> r.seq + 1, size |-> size, from |-> c, uid |-> uid,
                   own |-> r.own[c] + 1, saved |-> FALSE, body |-> body]
             s == SaverAfter(a, c, quiet)
             p == WithSaver(a, s)
  <1>1. c \in Conn /\ r.own[c] \in Nat /\ size \in Nat
    BY HubAssumption DEF RoomInv, RoomOK
  <1>2. e \in Entry
    BY <1>1 DEF Entry, RoomInv, RoomOK
  <1>3. /\ RoomOK(a) /\ a.log = r.log \cup {e} /\ a.members = r.members /\ a.watch = TRUE
        /\ a.seeded = TRUE /\ a.seeder = None /\ a.saver = r.saver
    <2>1. /\ DOMAIN a = DOMAIN r /\ a.members = r.members /\ a.stuck = r.stuck \ {c}
          /\ a.seq = r.seq + 1 /\ a.snapSeq = r.snapSeq /\ a.compacted = r.compacted
          /\ a.saver = r.saver /\ a.seeder = None /\ a.seeded = TRUE
          /\ a.asked = r.asked /\ a.grace = r.grace /\ a.watch = TRUE
      BY DEF RoomInv, RoomOK, NewRoom, Appended
    <2>2. a.own = [r.own EXCEPT ![c] = @ + 1]
      BY DEF RoomInv, RoomOK, NewRoom, Appended
    <2>3. a.log = r.log \cup {e}
      BY DEF RoomInv, RoomOK, NewRoom, Appended
    <2> HIDE DEF e, a
    <2>4. a.own \in [Conn -> Nat]
      BY <1>1, <2>2 DEF RoomInv, RoomOK
    <2>5. a.log \in SUBSET Entry
      BY <1>2, <2>3 DEF RoomInv, RoomOK
    <2>6. RoomOK(r)
      BY DEF RoomInv
    <2>7. RoomOK(a)
      <3>1. DOMAIN a = DOMAIN NewRoom
        BY <2>1, <2>6 DEF RoomOK
      <3>2. a.members \in SUBSET Conn /\ a.stuck \in SUBSET Conn
        BY <2>1, <2>6 DEF RoomOK
      <3>3. a.seq \in Nat /\ a.snapSeq \in Nat /\ a.compacted \in Nat
        BY <2>1, <2>6 DEF RoomOK
      <3>4. a.saver \in Conn \cup {None} /\ a.seeder \in Conn \cup {None}
        BY <2>1, <2>6 DEF RoomOK
      <3>5. /\ a.seeded \in BOOLEAN /\ a.asked \in BOOLEAN
            /\ a.grace \in BOOLEAN /\ a.watch \in BOOLEAN
        BY <2>1, <2>6 DEF RoomOK
      <3> QED  BY <2>4, <2>5, <3>1, <3>2, <3>3, <3>4, <3>5 DEF RoomOK
    <2> QED  BY <2>1, <2>3, <2>7
  <1>4. s \in (r.members \cap Writable) \cup {None}
    BY <1>3 DEF SaverAfter, RoomInv
  <1>5. /\ RoomOK(p) /\ p.log = a.log /\ p.members = a.members /\ p.watch = TRUE
        /\ p.seeded = TRUE /\ p.seeder = None /\ p.saver = s
    BY <1>3, <1>4 DEF WithSaver, RoomOK, NewRoom, RoomInv
  <1>6. AsksCompaction(p) \in BOOLEAN
    BY DEF AsksCompaction
  <1>7. u = [p EXCEPT !.asked = @ \/ AsksCompaction(p)]
    BY DEF AfterUpdate
  <1>8. /\ RoomOK(u) /\ u.log = a.log /\ u.members = r.members /\ u.watch = TRUE
        /\ u.seeded = TRUE /\ u.seeder = None /\ u.saver = s
    <2> HIDE DEF p
    <2> QED  BY <1>3, <1>5, <1>6, <1>7 DEF RoomOK, NewRoom
  <1> HIDE DEF s, a
  <1>9. RoomInv(u)
    BY <1>4, <1>8 DEF RoomInv
  <1> QED  BY <1>2, <1>3, <1>8, <1>9

\* A snapshot that holds what it covers, in its place in the log: the text is
\* the same, and unsaved while anything of what it covers is.
LEMMA CompactedInv ==
  ASSUME NEW r, RoomInv(r), r.asked, NEW ack \in Nat,
         NEW body \in SUBSET Items(r.log), Items(Covered(r, ack)) \subseteq body,
         body \in SUBSET Item, NEW size \in Sizes,
         NEW d, d = Compacted(r, ack, body, size)
  PROVE  /\ RoomInv(d) /\ d.members = r.members
         /\ Items(d.log) = Items(r.log) /\ UnsavedKept(r, d)
  <1> DEFINE e == [seq |-> ack, size |-> size, from |-> None, uid |-> None, own |-> 0,
                   saved |-> \A x \in Covered(r, ack) : x.saved, body |-> body]
             kept == {e} \cup (r.log \ Covered(r, ack))
  <1>1. e \in Entry /\ size \in Nat
    BY HubAssumption DEF Entry
  <1>2. d = [r EXCEPT !.log = kept, !.bytes = Bytes(kept), !.compacted = size,
                      !.asked = FALSE, !.snapSeq = ack]
    BY DEF Compacted
  <1>3. /\ RoomOK(d) /\ d.log = kept /\ d.members = r.members /\ d.watch = r.watch
        /\ d.seeded = r.seeded /\ d.seeder = r.seeder /\ d.saver = r.saver /\ d.asked = FALSE
    <2>1. kept \in SUBSET Entry
      BY <1>1 DEF RoomInv, RoomOK
    <2> HIDE DEF kept
    <2> QED  BY <1>1, <1>2, <2>1 DEF RoomInv, RoomOK, NewRoom
  <1>4. HasUnsaved(d) => HasUnsaved(r)
    BY <1>3 DEF HasUnsaved, Covered
  <1>5. RoomInv(d)
    BY <1>3, <1>4 DEF RoomInv
  <1>6. e.body = body /\ (e.saved => \A x \in Covered(r, ack) : x.saved)
    OBVIOUS
  <1> HIDE DEF e
  <1>7. Items(d.log) = Items(r.log)
    BY <1>3, <1>6 DEF Items, Covered
  <1>8. Unsaved(r) \subseteq Unsaved(d)
    <2> SUFFICES ASSUME NEW y \in r.log, ~y.saved, NEW i \in y.body
                 PROVE  i \in Unsaved(d)
      BY DEF Unsaved, Items
    <2>1. CASE y \in Covered(r, ack)
      <3>1. i \in e.body /\ ~e.saved /\ e \in d.log
        BY <1>3, <1>6, <2>1 DEF Items
      <3> QED  BY <3>1 DEF Unsaved, Items
    <2>2. CASE y \notin Covered(r, ack)
      BY <1>3, <2>2 DEF Unsaved, Items
    <2> QED  BY <2>1, <2>2
  <1> QED  BY <1>3, <1>5, <1>7, <1>8 DEF UnsavedKept

LEMMA MarkedInv ==
  ASSUME NEW r, RoomInv(r), NEW c \in Conn, NEW recv \in Nat, NEW own \in Nat,
         NEW d, d = MarkedSaved(r, c, recv, own)
  PROVE  /\ RoomInv(d) /\ d.members = r.members
         /\ Items(d.log) = Items(r.log) /\ UnsavedKept(r, d)
  <1> DEFINE mark(e) == [e EXCEPT !.saved = @ \/ Confirms(e, c, recv, own)]
  <1>1. \A e \in Entry : /\ mark(e) \in Entry /\ mark(e).body = e.body /\ mark(e).seq = e.seq
                         /\ e.saved => mark(e).saved
    BY DEF Entry, Confirms
  <1>2. r.log \subseteq Entry
    BY DEF RoomInv, RoomOK
  <1>3. d = [r EXCEPT !.stuck = @ \ {c}, !.log = {mark(e) : e \in @}]
    BY DEF MarkedSaved
  <1> HIDE DEF mark
  <1>4. /\ RoomOK(d) /\ d.log = {mark(e) : e \in r.log} /\ d.members = r.members
        /\ d.watch = r.watch /\ d.seeded = r.seeded /\ d.seeder = r.seeder
        /\ d.saver = r.saver /\ d.asked = r.asked
    BY <1>1, <1>2, <1>3 DEF RoomInv, RoomOK, NewRoom
  <1>5. HasUnsaved(d) => HasUnsaved(r)
    BY <1>1, <1>2, <1>4 DEF HasUnsaved
  <1>6. RoomInv(d)
    BY <1>4, <1>5 DEF RoomInv
  <1>7. Items(d.log) = Items(r.log)
    BY <1>1, <1>2, <1>4 DEF Items
  <1>8. {e.seq : e \in d.log} = {e.seq : e \in r.log}
    BY <1>1, <1>2, <1>4
  <1> QED  BY <1>4, <1>6, <1>7, <1>8 DEF UnsavedKept

LEMMA LeftInv ==
  ASSUME NEW r, RoomInv(r), NEW c \in Conn,
         NEW seeder \in SeederHeirs(r, c), NEW saver \in SaverHeirs(r, c),
         NEW w, w = AfterLeave(r, c, seeder, saver)
  PROVE  /\ RoomInv(w) /\ w.log = r.log
         /\ ~(w.members = {} /\ ~HasUnsaved(w)) => Kept(w)
  <1> DEFINE o == Out(r, c)
             s == [o EXCEPT !.seeder = IF seeder = None THEN @ ELSE seeder]
             v == IF r.saver = c THEN WithSaver(s, saver) ELSE s
  <1>1. /\ RoomOK(o) /\ o.members = r.members \ {c} /\ o.log = r.log /\ o.watch = r.watch
        /\ o.seeded = r.seeded /\ o.asked = r.asked
        /\ o.seeder = (IF r.seeder = c THEN None ELSE r.seeder)
        /\ o.saver = (IF r.saver = c THEN None ELSE r.saver)
    BY DEF Out, RoomInv, RoomOK, NewRoom
  <1> HIDE DEF o
  <1>2. /\ seeder \in (o.members \cap Writable) \cup {None}
        /\ seeder # None => ~r.seeded
    BY DEF SeederHeirs, o
  <1>3. saver \in (o.members \cap Writable) \cup {None}
    BY DEF SaverHeirs, Candidates, o
  <1>4. /\ RoomOK(s) /\ s.members = o.members /\ s.log = o.log /\ s.watch = o.watch
        /\ s.seeded = o.seeded /\ s.asked = o.asked /\ s.saver = o.saver
        /\ s.seeder = IF seeder = None THEN o.seeder ELSE seeder
    BY <1>1, <1>2 DEF RoomOK, NewRoom
  <1> HIDE DEF s
  <1>5. /\ RoomOK(v) /\ v.members = o.members /\ v.log = o.log /\ v.watch = o.watch
        /\ v.seeded = o.seeded /\ (v.asked => o.asked)
        /\ v.saver = (IF r.saver = c THEN saver ELSE o.saver) /\ v.seeder = s.seeder
    BY <1>1, <1>3, <1>4 DEF RoomOK, NewRoom, WithSaver
  <1>6. w = [v EXCEPT !.grace = v.members = {} /\ HasUnsaved(v)]
    BY DEF AfterLeave, v, s, o
  <1> HIDE DEF v
  <1>7. HasUnsaved(v) \in BOOLEAN
    BY DEF HasUnsaved
  <1>8. /\ RoomOK(w) /\ w.members = o.members /\ w.log = o.log /\ w.watch = o.watch
        /\ w.seeded = o.seeded /\ (w.asked => o.asked) /\ w.saver = v.saver /\ w.seeder = v.seeder
        /\ w.grace = (v.members = {} /\ HasUnsaved(v))
    BY <1>5, <1>6, <1>7 DEF RoomOK, NewRoom
  <1>9. RoomInv(w)
    BY <1>1, <1>2, <1>3, <1>4, <1>5, <1>8 DEF RoomInv, HasUnsaved
  <1>10. ~(w.members = {} /\ ~HasUnsaved(w)) => Kept(w)
    BY <1>5, <1>8 DEF Kept, HasUnsaved
  <1> QED  BY <1>1, <1>8, <1>9, <1>10

LEMMA RelievedInv ==
  ASSUME NEW r, RoomInv(r), NEW next \in Candidates(r, r.saver),
         NEW d, d = Relieved(r, next)
  PROVE  RoomInv(d) /\ d.log = r.log /\ d.members = r.members
  <1> DEFINE x == [r EXCEPT !.stuck = IF r.saver = None THEN @ ELSE @ \cup {r.saver}]
  <1>1. next \in r.members \cap Writable
    BY DEF Candidates
  <1>2. /\ RoomOK(x) /\ x.members = r.members /\ x.log = r.log /\ x.watch = r.watch
        /\ x.seeded = r.seeded /\ x.asked = r.asked /\ x.saver = r.saver /\ x.seeder = r.seeder
    BY DEF RoomInv, RoomOK, NewRoom
  <1>3. d = WithSaver(x, next)
    BY DEF Relieved
  <1> HIDE DEF x
  <1>4. /\ RoomOK(d) /\ d.members = r.members /\ d.log = r.log /\ d.watch = r.watch
        /\ d.seeded = r.seeded /\ (d.asked => r.asked) /\ d.saver = next /\ d.seeder = r.seeder
    BY <1>1, <1>2, <1>3 DEF WithSaver, RoomInv, RoomOK, NewRoom
  <1>5. RoomInv(d)
    BY <1>1, <1>4 DEF RoomInv, HasUnsaved
  <1> QED  BY <1>4, <1>5

\* The snapshot that is refused.
LEMMA RefusedInv ==
  ASSUME NEW r, RoomInv(r), NEW d, d = [r EXCEPT !.asked = FALSE]
  PROVE  RoomInv(d) /\ d.log = r.log /\ d.members = r.members
  BY DEF RoomInv, RoomOK, NewRoom, HasUnsaved

\* The watch that ends.
LEMMA UnwatchedInv ==
  ASSUME NEW r, RoomInv(r), ~HasUnsaved(r), NEW d, d = [r EXCEPT !.watch = FALSE]
  PROVE  RoomInv(d) /\ d.log = r.log /\ d.members = r.members
  BY DEF RoomInv, RoomOK, NewRoom, HasUnsaved

-----------------------------------------------------------------------------
(* The hub.                                                                *)

GoodRoom(n) == /\ RoomInv(rooms[n]) /\ (Open(n) => Kept(rooms[n]))
               /\ Items(rooms[n].log) = accepted[n]

KeepsUnsaved == \A n \in Note : Open(n) /\ Open(n)' => UnsavedKept(rooms[n], rooms'[n])

\* The inductive invariant.
HubInv == TypeOK /\ \A n \in Note : GoodRoom(n)

LEMMA HubInit == Init => HubInv
  <1> SUFFICES ASSUME Init PROVE HubInv
    OBVIOUS
  <1>1. \A n \in Note : rooms[n] = NewRoom /\ accepted[n] = {}
    BY DEF Init
  <1>2. RoomInv(NewRoom) /\ RoomOK(NewRoom) /\ Items(NewRoom.log) = {}
    BY NewRoomInv DEF RoomInv, NewRoom, Items
  <1>3. \A n \in Note : GoodRoom(n) /\ RoomOK(rooms[n])
    BY <1>1, <1>2 DEF GoodRoom, Open
  <1> QED  BY <1>3 DEF Init, HubInv, TypeOK

\* A step that turns n's room into r and keeps what it accepted complete.
LEMMA RoomStep ==
  ASSUME HubInv, NEW n \in Note, NEW r, Becomes(n, r), RoomInv(r), r = NewRoom \/ Kept(r),
         accepted' = [accepted EXCEPT ![n] = Items(r.log)],
         Items(r.log) \in SUBSET Item,
         fired' \in [Note -> BOOLEAN], exists' \in [Note -> BOOLEAN],
         told' \in [Note -> Conn \cup {None}], DOMAIN held' = DOMAIN held,
         r = NewRoom \/ UnsavedKept(rooms[n], r)
  PROVE  HubInv' /\ KeepsUnsaved
  <1>1. /\ DOMAIN rooms' = Note /\ rooms'[n] = r
        /\ \A m \in Note : m # n => rooms'[m] = rooms[m] /\ accepted'[m] = accepted[m]
        /\ accepted'[n] = Items(r.log) /\ accepted' \in [Note -> SUBSET Item]
    BY DEF HubInv, TypeOK, Becomes
  <1>2. ASSUME NEW m \in Note
        PROVE  GoodRoom(m)' /\ RoomOK(rooms[m])'
    <2>1. CASE m = n
      BY <1>1, <2>1 DEF GoodRoom, RoomInv, Open
    <2>2. CASE m # n
      BY <1>1, <2>2 DEF HubInv, Open, GoodRoom, RoomInv
    <2> QED  BY <2>1, <2>2
  <1>3. HubInv'
    BY <1>1, <1>2 DEF HubInv, TypeOK
  <1>4. ASSUME NEW m \in Note, Open(m)'
        PROVE  UnsavedKept(rooms[m], rooms'[m])
    BY <1>1, <1>4 DEF Open, UnsavedKept
  <1> QED  BY <1>3, <1>4 DEF KeepsUnsaved

\* A room that goes takes nothing of the others with it.
LEMMA DropStep ==
  ASSUME HubInv, NEW n \in Note, Drop(n), exists' \in [Note -> BOOLEAN]
  PROVE  HubInv' /\ KeepsUnsaved
  <1>1. Becomes(n, NewRoom) /\ DOMAIN held' = DOMAIN held
    BY DEF Drop, Account
  <1>2. Items(NewRoom.log) = {}
    BY DEF Items, NewRoom
  <1>3. /\ fired' \in [Note -> BOOLEAN] /\ told' \in [Note -> Conn \cup {None}]
        /\ accepted' = [accepted EXCEPT ![n] = {}]
    BY DEF HubInv, TypeOK, Drop
  <1> QED  BY <1>1, <1>2, <1>3, NewRoomInv, RoomStep

LEMMA RoomFacts ==
  ASSUME HubInv, NEW n \in Note
  PROVE  /\ RoomInv(rooms[n]) /\ RoomOK(rooms[n])
         /\ Items(rooms[n].log) = accepted[n] /\ accepted[n] \in SUBSET Item
         /\ accepted = [accepted EXCEPT ![n] = Items(rooms[n].log)]
  <1>1. GoodRoom(n) /\ accepted \in [Note -> SUBSET Item]
    BY DEF HubInv, TypeOK
  <1>2. accepted = [accepted EXCEPT ![n] = accepted[n]]
    BY <1>1
  <1> QED  BY <1>1, <1>2 DEF GoodRoom, RoomInv

\* A step of n's room to r that adds nothing to the text and nobody's bytes.
LEMMA QuietStep ==
  ASSUME HubInv, NEW n \in Note, NEW r, Becomes(n, r), RoomInv(r), Kept(r),
         Items(r.log) = Items(rooms[n].log), UNCHANGED <<exists, accepted, told>>,
         fired' \in [Note -> BOOLEAN], DOMAIN held' = DOMAIN held,
         UnsavedKept(rooms[n], r)
  PROVE  HubInv' /\ KeepsUnsaved
  <1>1. /\ exists' \in [Note -> BOOLEAN] /\ told' \in [Note -> Conn \cup {None}]
    BY DEF HubInv, TypeOK
  <1>2. /\ Items(r.log) \in SUBSET Item
        /\ accepted' = [accepted EXCEPT ![n] = Items(r.log)]
    BY RoomFacts
  <1> QED  BY <1>1, <1>2, RoomStep

LEMMA HelloStep ==
  ASSUME HubInv, NEW n \in Note, NEW c \in Conn, Hello(n, c)
  PROVE  HubInv' /\ KeepsUnsaved
  <1> DEFINE j == Joined(rooms[n], c)
  <1>1. RoomInv(j) /\ Kept(j) /\ j.log = rooms[n].log
    BY RoomFacts, JoinedInv
  <1>2. Becomes(n, j) /\ UNCHANGED <<held, fired, exists, accepted, told>>
    BY DEF Hello, budget
  <1>3. fired' \in [Note -> BOOLEAN]
    BY <1>2 DEF HubInv, TypeOK
  <1> HIDE DEF j
  <1>4. UnsavedKept(rooms[n], j)
    BY <1>1 DEF UnsavedKept
  <1> QED  BY <1>1, <1>2, <1>3, <1>4, QuietStep

\* An update joins what the room accepted and what its log holds.
LEMMA UpdateStep ==
  ASSUME HubInv, NEW n \in Note, NEW c \in Conn, NEW size \in Sizes, NEW quiet \in BOOLEAN,
         Update(n, c, {rooms[n].seq + 1}, size, quiet)
  PROVE  HubInv' /\ KeepsUnsaved
  <1> DEFINE body == {rooms[n].seq + 1}
             u == AfterUpdate(rooms[n], c, UserOf[c], body, size, quiet)
  <1>1. /\ c \in rooms[n].members \cap Writable /\ rooms[n].seq < MaxSeq[n]
        /\ Becomes(n, u) /\ DOMAIN held' = DOMAIN held /\ UNCHANGED <<fired, exists>>
        /\ accepted' = [accepted EXCEPT ![n] = @ \cup body]
        /\ told' = [told EXCEPT ![n] = IF u.asked /\ ~(rooms[n].asked /\ u.saver = rooms[n].saver)
                                       THEN u.saver ELSE @]
    BY DEF Update, InRoom, Account
  <1>2. body \in SUBSET Item
    <2>1. rooms[n].seq \in Nat /\ MaxSeq[n] \in Nat /\ 1..MaxSeq[n] \subseteq Item
      BY RoomFacts, HubAssumption DEF RoomOK
    <2>2. rooms[n].seq + 1 \in 1..MaxSeq[n]
      BY <1>1, <2>1
    <2> QED  BY <2>1, <2>2
  <1>3. UserOf[c] \in User
    BY HubAssumption
  <1> HIDE DEF body
  <1>4. /\ RoomInv(u) /\ u.members = rooms[n].members
        /\ \E e \in Entry : e.body = body /\ ~e.saved /\ u.log = rooms[n].log \cup {e}
    <2>1. RoomInv(rooms[n])
      BY RoomFacts
    <2>2. c \in rooms[n].members \cap Writable
      BY <1>1
    <2> HIDE DEF u
    <2>3. u = AfterUpdate(rooms[n], c, UserOf[c], body, size, quiet)
      BY DEF u
    <2> QED  BY <1>2, <1>3, <2>1, <2>2, <2>3, UpdatedInv
  <1>5. Items(u.log) = accepted[n] \cup body
    BY <1>4, RoomFacts DEF Items
  <1>6. Kept(u)
    BY <1>1, <1>4 DEF Kept
  <1>7. /\ accepted' = [accepted EXCEPT ![n] = Items(u.log)] /\ Items(u.log) \in SUBSET Item
    BY <1>1, <1>2, <1>5, RoomFacts
  <1>8. /\ fired' \in [Note -> BOOLEAN] /\ exists' \in [Note -> BOOLEAN]
        /\ told' \in [Note -> Conn \cup {None}]
    BY <1>1, <1>4 DEF HubInv, TypeOK, RoomInv, RoomOK
  <1>9. UnsavedKept(rooms[n], u)
    BY <1>4 DEF UnsavedKept, Unsaved, Items
  <1> HIDE DEF u
  <1> QED  BY <1>1, <1>4, <1>6, <1>7, <1>8, <1>9, RoomStep

\* A snapshot that holds all it covers takes nothing from the text; refused,
\* it only ends the request.
LEMMA SnapshotStep ==
  ASSUME HubInv, NEW n \in Note, NEW c \in Conn, NEW ack \in 0..rooms[n].seq,
         NEW size \in Sizes, NEW body \in Honest(n, ack), Snapshot(n, c, ack, body, size)
  PROVE  HubInv' /\ KeepsUnsaved
  <1> DEFINE r == rooms[n]
             d == Compacted(r, ack, body, size)
             x == [r EXCEPT !.asked = FALSE]
  <1>1. /\ c \in r.members /\ r.asked /\ (Becomes(n, d) \/ Becomes(n, x))
        /\ DOMAIN held' = DOMAIN held /\ UNCHANGED <<fired, exists, accepted, told>>
    BY DEF Snapshot, InRoom, Account, budget
  <1>2. /\ RoomInv(r) /\ Items(r.log) = accepted[n] /\ accepted[n] \in SUBSET Item
        /\ r.log \in SUBSET Entry /\ r.seq \in Nat
    BY RoomFacts DEF RoomOK
  <1>3. fired' \in [Note -> BOOLEAN]
    BY <1>1 DEF HubInv, TypeOK
  <1>4. CASE Becomes(n, x)
    <2> HIDE DEF x, r
    <2>1. RoomInv(x) /\ x.log = r.log /\ x.members = r.members
      BY <1>2, RefusedInv DEF x
    <2>2. Kept(x) /\ UnsavedKept(r, x) /\ Items(x.log) = Items(r.log)
      BY <1>1, <2>1 DEF Kept, UnsavedKept
    <2> QED  BY <1>1, <1>3, <1>4, <2>1, <2>2, QuietStep DEF r
  <1>5. CASE Becomes(n, d)
    <2>1. /\ ack \in Nat /\ body \in SUBSET Item
          /\ body \in SUBSET Items(r.log) /\ Items(Covered(r, ack)) \subseteq body
      BY <1>2 DEF Honest
    <2> HIDE DEF r, d
    <2>2. d = Compacted(r, ack, body, size)
      BY DEF d
    <2>3. /\ RoomInv(d) /\ d.members = r.members
          /\ Items(d.log) = Items(r.log) /\ UnsavedKept(r, d)
      BY <1>1, <1>2, <2>1, <2>2, CompactedInv
    <2>4. Kept(d)
      BY <1>1, <2>3 DEF Kept
    <2> QED  BY <1>1, <1>3, <1>5, <2>3, <2>4, QuietStep DEF r
  <1> QED  BY <1>1, <1>4, <1>5

LEMMA SavedStep ==
  ASSUME HubInv, NEW n \in Note, NEW c \in Conn, NEW recv \in Nat, NEW own \in Nat,
         Saved(n, c, recv, own)
  PROVE  HubInv' /\ KeepsUnsaved
  <1> DEFINE d == MarkedSaved(rooms[n], c, recv, own)
  <1>1. /\ c \in rooms[n].members /\ Becomes(n, d)
        /\ UNCHANGED <<held, fired, exists, accepted, told>>
    BY DEF Saved, InRoom, budget
  <1>2. /\ RoomInv(d) /\ d.members = rooms[n].members
        /\ Items(d.log) = Items(rooms[n].log) /\ UnsavedKept(rooms[n], d)
    <2> HIDE DEF d
    <2>1. d = MarkedSaved(rooms[n], c, recv, own)
      BY DEF d
    <2> QED  BY <2>1, RoomFacts, MarkedInv
  <1> HIDE DEF d
  <1>3. Kept(d) /\ fired' \in [Note -> BOOLEAN]
    BY <1>1, <1>2 DEF Kept, HubInv, TypeOK
  <1> QED  BY <1>1, <1>2, <1>3, QuietStep

LEMMA LeaveStep ==
  ASSUME HubInv, NEW n \in Note, NEW c \in Conn, Leave(n, c)
  PROVE  HubInv' /\ KeepsUnsaved
  <1>1. PICK seeder \in SeederHeirs(rooms[n], c), saver \in SaverHeirs(rooms[n], c) :
          LET w == AfterLeave(rooms[n], c, seeder, saver)
          IN  IF w.members = {} /\ ~HasUnsaved(w)
              THEN Drop(n) /\ UNCHANGED exists
              ELSE Becomes(n, w) /\ UNCHANGED <<budget, fired, exists, accepted, told>>
    BY DEF Leave
  <1> DEFINE w == AfterLeave(rooms[n], c, seeder, saver)
  <1>2. /\ RoomInv(w) /\ w.log = rooms[n].log
        /\ ~(w.members = {} /\ ~HasUnsaved(w)) => Kept(w)
    BY RoomFacts, LeftInv
  <1>3. exists \in [Note -> BOOLEAN] /\ fired \in [Note -> BOOLEAN]
    BY DEF HubInv, TypeOK
  <1>4. CASE w.members = {} /\ ~HasUnsaved(w)
    BY <1>1, <1>3, <1>4, DropStep
  <1>5. CASE ~(w.members = {} /\ ~HasUnsaved(w))
    <2>1. Becomes(n, w) /\ UNCHANGED <<held, fired, exists, accepted, told>>
      BY <1>1, <1>5 DEF budget
    <2> HIDE DEF w
    <2>2. Kept(w) /\ UnsavedKept(rooms[n], w) /\ Items(w.log) = Items(rooms[n].log)
      BY <1>2, <1>5 DEF UnsavedKept
    <2> QED  BY <1>2, <1>3, <2>1, <2>2, QuietStep
  <1> QED  BY <1>4, <1>5

\* The timers and the note that goes.
LEMMA TimerStep ==
  ASSUME HubInv, NEW n \in Note,
         \/ WatchEnds(n) \/ SaverRelieved(n) \/ GraceFires(n) \/ GraceEnds(n)
         \/ NoteGoes(n) \/ CloseRoom(n)
  PROVE  HubInv' /\ KeepsUnsaved
  <1>1. /\ exists \in [Note -> BOOLEAN] /\ fired \in [Note -> BOOLEAN]
        /\ RoomInv(rooms[n]) /\ (Open(n) => Kept(rooms[n]))
    BY DEF HubInv, TypeOK, GoodRoom
  <1>2. CASE WatchEnds(n)
    <2> DEFINE x == [rooms[n] EXCEPT !.watch = FALSE]
    <2>1. /\ rooms[n].watch /\ ~HasUnsaved(rooms[n]) /\ Becomes(n, x)
          /\ UNCHANGED <<held, fired, exists, accepted, told>>
      BY <1>2 DEF WatchEnds, budget
    <2>2. Open(n)
      BY <2>1 DEF Open, NewRoom
    <2>3. RoomInv(x) /\ x.log = rooms[n].log /\ x.members = rooms[n].members
      BY <1>1, <2>1, UnwatchedInv
    <2> HIDE DEF x
    <2>4. Kept(x) /\ UnsavedKept(rooms[n], x) /\ Items(x.log) = Items(rooms[n].log)
      BY <1>1, <2>1, <2>2, <2>3 DEF Kept, UnsavedKept
    <2> QED  BY <1>1, <2>1, <2>3, <2>4, QuietStep
  <1>3. CASE SaverRelieved(n)
    <2>1. PICK c \in Candidates(rooms[n], rooms[n].saver) : Becomes(n, Relieved(rooms[n], c))
      BY <1>3 DEF SaverRelieved
    <2> DEFINE x == Relieved(rooms[n], c)
    <2>2. c \in rooms[n].members /\ UNCHANGED <<held, fired, exists, accepted, told>>
      BY <1>3 DEF SaverRelieved, Candidates, budget
    <2>3. RoomInv(x) /\ x.log = rooms[n].log /\ x.members = rooms[n].members
      <3> HIDE DEF x
      <3>1. x = Relieved(rooms[n], c)
        BY DEF x
      <3> QED  BY <1>1, <3>1, RelievedInv
    <2>4. Becomes(n, x)
      BY <2>1
    <2> HIDE DEF x
    <2>5. Kept(x) /\ UnsavedKept(rooms[n], x) /\ Items(x.log) = Items(rooms[n].log)
      BY <2>2, <2>3 DEF Kept, UnsavedKept
    <2> QED  BY <1>1, <2>2, <2>3, <2>4, <2>5, QuietStep
  <1>4. CASE GraceFires(n) \/ NoteGoes(n) \/ (GraceEnds(n) /\ rooms[n].members # {})
    <2>1. /\ UNCHANGED <<rooms, held, accepted, told>>
          /\ exists' \in [Note -> BOOLEAN] /\ fired' \in [Note -> BOOLEAN]
      BY <1>1, <1>4 DEF GraceFires, NoteGoes, GraceEnds, budget
    <2>2. HubInv'
      BY <2>1 DEF HubInv, TypeOK, GoodRoom, Open
    <2> QED  BY <2>1, <2>2 DEF KeepsUnsaved, UnsavedKept
  <1>5. CASE CloseRoom(n) \/ (GraceEnds(n) /\ rooms[n].members = {})
    <2>1. Drop(n) /\ exists' \in [Note -> BOOLEAN]
      BY <1>1, <1>5 DEF CloseRoom, GraceEnds
    <2> QED  BY <2>1, DropStep
  <1> QED  BY <1>2, <1>3, <1>4, <1>5

LEMMA NextStep == HubInv /\ [Next]_vars => HubInv' /\ KeepsUnsaved
  <1> SUFFICES ASSUME HubInv, [Next]_vars PROVE HubInv' /\ KeepsUnsaved
    OBVIOUS
  <1>1. CASE UNCHANGED vars
    <2>1. HubInv'
      BY <1>1 DEF vars, budget, HubInv, TypeOK, GoodRoom, Open
    <2> QED  BY <1>1, <2>1 DEF vars, KeepsUnsaved, UnsavedKept
  <1>2. CASE Next
    <2>1. PICK n \in Note :
            \/ \E c \in Conn :
                 \/ Hello(n, c)
                 \/ Leave(n, c)
                 \/ InRoom(n, c) /\
                      \/ \E size \in Sizes, quiet \in BOOLEAN :
                          Update(n, c, {rooms[n].seq + 1}, size, quiet)
                      \/ \E ack \in 0..rooms[n].seq, size \in Sizes :
                           \E body \in Honest(n, ack) : Snapshot(n, c, ack, body, size)
                      \/ \E recv \in 0..rooms[n].seq, own \in 0..rooms[n].own[c] :
                           Saved(n, c, recv, own)
            \/ WatchEnds(n) \/ SaverRelieved(n)
            \/ GraceFires(n) \/ GraceEnds(n)
            \/ NoteGoes(n) \/ CloseRoom(n)
      BY <1>2 DEF Next
    <2>2. ASSUME NEW c \in Conn, Hello(n, c)
          PROVE  HubInv' /\ KeepsUnsaved
      BY <2>2, HelloStep
    <2>3. ASSUME NEW c \in Conn, Leave(n, c)
          PROVE  HubInv' /\ KeepsUnsaved
      BY <2>3, LeaveStep
    <2>4. ASSUME NEW c \in Conn, NEW size \in Sizes, NEW quiet \in BOOLEAN,
                 Update(n, c, {rooms[n].seq + 1}, size, quiet)
          PROVE  HubInv' /\ KeepsUnsaved
      BY <2>4, UpdateStep
    <2>5. ASSUME NEW c \in Conn, NEW ack \in 0..rooms[n].seq, NEW size \in Sizes,
                 NEW body \in Honest(n, ack), Snapshot(n, c, ack, body, size)
          PROVE  HubInv' /\ KeepsUnsaved
      BY <2>5, SnapshotStep
    <2>6. ASSUME NEW c \in Conn, NEW recv \in 0..rooms[n].seq,
                 NEW own \in 0..rooms[n].own[c], Saved(n, c, recv, own)
          PROVE  HubInv' /\ KeepsUnsaved
      <3>1. recv \in Nat /\ own \in Nat
        BY RoomFacts DEF RoomOK
      <3> QED  BY <2>6, <3>1, SavedStep
    <2> QED  BY <2>1, <2>2, <2>3, <2>4, <2>5, <2>6, TimerStep
  <1> QED  BY <1>1, <1>2

THEOREM HubCorrect == Spec => [](HubInv)
  <1>1. Init => HubInv
    BY HubInit
  <1>2. HubInv /\ [Next]_vars => HubInv'
    BY NextStep
  <1> QED  BY <1>1, <1>2, PTL DEF Spec

\* Every variable keeps its type (YjsHub!TypeOK).
THEOREM RoomsTyped == Spec => []TypeOK
  <1>1. HubInv => TypeOK
    BY DEF HubInv
  <1> QED  BY <1>1, HubCorrect, PTL

\* Through any compactions, a room's log holds all the text it accepted, so
\* whoever joins (YjsHello) gets all of it.
THEOREM LogComplete == Spec => []RoomComplete
  <1>1. HubInv => RoomComplete
    BY DEF HubInv, GoodRoom, RoomComplete
  <1> QED  BY <1>1, HubCorrect, PTL

\* The saver and the seeder are writers in the room, whoever leaves (YjsLeave).
THEOREM RolesInside == Spec => []RolesHeldInside
  <1>1. HubInv => RolesHeldInside
    BY DEF HubInv, GoodRoom, RoomInv, RolesHeldInside
  <1> QED  BY <1>1, HubCorrect, PTL

\* Nobody is asked to seed a room that has text.
THEOREM SeededOnce == Spec => []SeedOnce
  <1>1. HubInv => SeedOnce
    BY DEF HubInv, GoodRoom, RoomInv, SeedOnce
  <1> QED  BY <1>1, HubCorrect, PTL

\* An unsaved update has the saver watch running, and an empty room is open
\* only while its grace timer is (watchSaverLocked, YjsLeave).
THEOREM UnsavedWatched == Spec => []NeverForgotten
  <1>1. HubInv => NeverForgotten
    BY DEF HubInv, GoodRoom, RoomInv, Kept, NeverForgotten
  <1> QED  BY <1>1, HubCorrect, PTL

\* No snapshot passes an unsaved update off as saved (YjsFrame).
THEOREM CompactionSafe == Spec => CompactionKeepsUnsaved
  <1> DEFINE P == \A n \in Note :
                    Open(n) /\ Open(n)' /\ {e.seq : e \in rooms[n].log} # {e.seq : e \in rooms'[n].log}
                      => Unsaved(rooms[n]) \subseteq Unsaved(rooms'[n])
  <1>1. HubInv /\ [Next]_vars => [P]_vars
    <2>1. KeepsUnsaved => P
      BY DEF KeepsUnsaved, UnsavedKept
    <2> QED  BY <2>1, NextStep
  <1> QED  BY <1>1, HubCorrect, PTL DEF Spec, CompactionKeepsUnsaved

-----------------------------------------------------------------------------
(* The budgets.                                                            *)

SizeIn(S)  == [e \in S |-> e.size]
PairSize(X) == [x \in X |-> x[2].size]

LEMMA BytesAreSum ==
  ASSUME NEW S, IsFiniteSet(S)
  PROVE  Bytes(S) = SumOf(SizeIn(S), S)
  <1> DEFINE P(g) == g = [s \in SUBSET S |-> IF s = {} THEN 0 ELSE One(s).size + g[s \ {One(s)}]]
             c == CHOOSE g : P(g)
             d == CHOOSE g : Iterates(g, SizeIn(S), S)
  <1>1. \A g : P(g) <=> Iterates(g, SizeIn(S), S)
    <2>1. \A s \in SUBSET S : s # {} => SizeIn(S)[One(s)] = One(s).size
      BY OneIn DEF SizeIn
    <2> QED  BY <2>1 DEF Iterates
  <1>2. Bytes(S) = c[S]
    BY DEF Bytes, MapThenSumSet, MapThenFoldSet, One
  <1>3. SumOf(SizeIn(S), S) = d[S]
    BY Unfold
  <1>4. Iterates(d, SizeIn(S), S)
    BY IteratesExist
  <1> HIDE DEF d, P
  <1>5. P(c)
    BY <1>1, <1>4
  <1>6. Iterates(c, SizeIn(S), S)
    BY <1>1, <1>5
  <1> HIDE DEF c
  <1> DEFINE T == S
  <1>7. Iterates(d, SizeIn(S), T) /\ S \subseteq S /\ S \subseteq T
    BY <1>4
  <1> HIDE DEF T
  <1>8. c[S] = d[S]
    BY <1>6, <1>7, IteratesAgree
  <1> QED  BY <1>2, <1>3, <1>8

LEMMA LogBytesAreSum ==
  ASSUME NEW S, IsFiniteSet(S)
  PROVE  LogBytes(S) = SumOf(PairSize(S), S)
  <1> DEFINE P(g) == g = [s \in SUBSET S |-> IF s = {} THEN 0 ELSE One(s)[2].size + g[s \ {One(s)}]]
             c == CHOOSE g : P(g)
             d == CHOOSE g : Iterates(g, PairSize(S), S)
  <1>1. \A g : P(g) <=> Iterates(g, PairSize(S), S)
    <2>1. \A s \in SUBSET S : s # {} => PairSize(S)[One(s)] = One(s)[2].size
      BY OneIn DEF PairSize
    <2> QED  BY <2>1 DEF Iterates
  <1>2. LogBytes(S) = c[S]
    BY DEF LogBytes, MapThenSumSet, MapThenFoldSet, One
  <1>3. SumOf(PairSize(S), S) = d[S]
    BY Unfold
  <1>4. Iterates(d, PairSize(S), S)
    BY IteratesExist
  <1> HIDE DEF d, P
  <1>5. P(c)
    BY <1>1, <1>4
  <1>6. Iterates(c, PairSize(S), S)
    BY <1>1, <1>5
  <1> HIDE DEF c
  <1> DEFINE T == S
  <1>7. Iterates(d, PairSize(S), T) /\ S \subseteq S /\ S \subseteq T
    BY <1>4
  <1> HIDE DEF T
  <1>8. c[S] = d[S]
    BY <1>6, <1>7, IteratesAgree
  <1> QED  BY <1>2, <1>3, <1>8

\* Finite sets of entries, and of entries with their notes.
Sized(S)  == IsFiniteSet(S) /\ \A e \in S : e.size \in Nat
PSized(X) == IsFiniteSet(X) /\ \A x \in X : x[2].size \in Nat

LEMMA BytesNat ==
  ASSUME NEW S, Sized(S)
  PROVE  Bytes(S) \in Nat /\ Bytes({}) = 0
  <1>1. SumOf(SizeIn(S), S) \in Nat
    <2>1. \A x \in S : SizeIn(S)[x] \in Nat
      BY DEF Sized, SizeIn
    <2> QED  BY <2>1, SumNat DEF Sized
  <1>2. Bytes(S) = SumOf(SizeIn(S), S) /\ Bytes({}) = SumOf(SizeIn({}), {})
    BY BytesAreSum, FS_EmptySet DEF Sized
  <1> QED  BY <1>1, <1>2, SumEmpty

LEMMA BytesUnion ==
  ASSUME NEW S, NEW T, Sized(S), Sized(T), S \cap T = {}
  PROVE  Sized(S \cup T) /\ Bytes(S \cup T) = Bytes(S) + Bytes(T)
  <1> DEFINE f == SizeIn(S \cup T)
  <1>1. IsFiniteSet(S \cup T) /\ IsFiniteSet(S) /\ IsFiniteSet(T)
    BY FS_Union DEF Sized
  <1>2. /\ \A x \in S \cup T : f[x] \in Nat
        /\ \A x \in S : f[x] = SizeIn(S)[x]
        /\ \A x \in T : f[x] = SizeIn(T)[x]
    BY DEF Sized, SizeIn
  <1> HIDE DEF f
  <1>3. SumOf(f, S) = SumOf(SizeIn(S), S) /\ SumOf(f, T) = SumOf(SizeIn(T), T)
    BY <1>1, <1>2, SumSame
  <1>4. SumOf(f, S \cup T) = SumOf(f, S) + SumOf(f, T)
    BY <1>1, <1>2, SumUnion
  <1>5. /\ Bytes(S \cup T) = SumOf(f, S \cup T)
        /\ Bytes(S) = SumOf(SizeIn(S), S) /\ Bytes(T) = SumOf(SizeIn(T), T)
    BY <1>1, BytesAreSum DEF f
  <1> QED  BY <1>1, <1>3, <1>4, <1>5 DEF Sized

LEMMA BytesSingle ==
  ASSUME NEW e, e.size \in Nat
  PROVE  Sized({e}) /\ Bytes({e}) = e.size
  <1> DEFINE f == SizeIn({e})
  <1>1. Sized({e}) /\ IsFiniteSet({e}) /\ IsFiniteSet({})
    BY FS_Singleton, FS_EmptySet DEF Sized
  <1>2. f[e] = e.size /\ \A y \in {} \cup {e} : f[y] \in Nat
    BY DEF SizeIn
  <1> HIDE DEF f
  <1>3. SumOf(f, {} \cup {e}) = SumOf(f, {}) + f[e]
    BY <1>1, <1>2, SumAdd
  <1>4. {} \cup {e} = {e} /\ SumOf(f, {}) = 0
    BY SumEmpty
  <1>5. SumOf(f, {e}) = e.size
    BY <1>2, <1>3, <1>4
  <1> QED  BY <1>1, <1>5, BytesAreSum DEF f

LEMMA BytesSubset ==
  ASSUME NEW S, Sized(S), NEW T, T \subseteq S
  PROVE  /\ Sized(T) /\ Sized(S \ T)
         /\ Bytes(S) = Bytes(T) + Bytes(S \ T)
         /\ Bytes(T) \in Nat /\ Bytes(S \ T) \in Nat
  <1>1. Sized(T) /\ Sized(S \ T)
    BY FS_Subset DEF Sized
  <1>2. S = T \cup (S \ T) /\ T \cap (S \ T) = {}
    OBVIOUS
  <1>3. Bytes(T \cup (S \ T)) = Bytes(T) + Bytes(S \ T)
    BY <1>1, <1>2, BytesUnion
  <1> QED  BY <1>1, <1>2, <1>3, BytesNat

\* Entries changed in anything but their size weigh the same.
LEMMA BytesRenamed ==
  ASSUME NEW S, Sized(S), NEW r,
         \A x \in S : r[x].size = x.size,
         \A x, y \in S : r[x] = r[y] => x = y
  PROVE  Sized({r[x] : x \in S}) /\ Bytes({r[x] : x \in S}) = Bytes(S)
  <1> DEFINE q == [x \in S |-> r[x]]
             I == {q[x] : x \in S}
             f == SizeIn(I)
             h == SizeIn(S)
  <1>1. /\ \A x \in S : f[q[x]] = h[x] /\ h[x] \in Nat
        /\ \A x, y \in S : q[x] = q[y] => x = y
    BY DEF SizeIn, Sized
  <1>2. IsFiniteSet(S) /\ I = {r[x] : x \in S} /\ \A x \in I : x.size \in Nat
    BY DEF Sized
  <1> HIDE DEF f, h, q
  <1>3. IsFiniteSet(I) /\ SumOf(f, I) = SumOf(h, S)
    BY <1>1, <1>2, SumRenamed, Z3
  <1> HIDE DEF I
  <1>4. Bytes(I) = SumOf(f, I) /\ Bytes(S) = SumOf(h, S)
    BY <1>2, <1>3, BytesAreSum DEF f, h
  <1> QED  BY <1>2, <1>3, <1>4 DEF Sized

-----------------------------------------------------------------------------
\* The entries of one room among those of all.
Pairs(n, S)  == {<<n, e>> : e \in S}
OfNote(n, X) == {x \in X : x[1] = n}
Others(n, X) == {x \in X : x[1] # n}

LEMMA PairsSum ==
  ASSUME NEW n, NEW S, Sized(S)
  PROVE  PSized(Pairs(n, S)) /\ LogBytes(Pairs(n, S)) = Bytes(S)
  <1> DEFINE r == [e \in S |-> <<n, e>>]
             I == {r[x] : x \in S}
             f == PairSize(I)
             h == SizeIn(S)
  <1>1. /\ \A x \in S : f[r[x]] = h[x] /\ h[x] \in Nat
        /\ \A x, y \in S : r[x] = r[y] => x = y
    BY DEF SizeIn, PairSize, Sized
  <1>2. IsFiniteSet(S) /\ I = Pairs(n, S) /\ \A x \in I : x[2].size \in Nat
    BY DEF Sized, Pairs
  <1> HIDE DEF f, h, r
  <1>3. IsFiniteSet(I) /\ SumOf(f, I) = SumOf(h, S)
    BY <1>1, <1>2, SumRenamed
  <1> HIDE DEF I
  <1>4. LogBytes(I) = SumOf(f, I) /\ Bytes(S) = SumOf(h, S)
    BY <1>2, <1>3, BytesAreSum, LogBytesAreSum DEF f, h
  <1> QED  BY <1>2, <1>3, <1>4 DEF PSized

LEMMA LogBytesUnion ==
  ASSUME NEW X, NEW Y, PSized(X), PSized(Y), X \cap Y = {}
  PROVE  /\ PSized(X \cup Y) /\ LogBytes(X \cup Y) = LogBytes(X) + LogBytes(Y)
         /\ LogBytes(X) \in Nat /\ LogBytes(Y) \in Nat
  <1> DEFINE f == PairSize(X \cup Y)
  <1>1. IsFiniteSet(X \cup Y) /\ IsFiniteSet(X) /\ IsFiniteSet(Y)
    BY FS_Union DEF PSized
  <1>2. /\ \A x \in X \cup Y : f[x] \in Nat
        /\ \A x \in X : f[x] \in Nat
        /\ \A x \in Y : f[x] \in Nat
        /\ \A x \in X : f[x] = PairSize(X)[x]
        /\ \A x \in Y : f[x] = PairSize(Y)[x]
    BY DEF PSized, PairSize
  <1> HIDE DEF f
  <1>3. SumOf(f, X) = SumOf(PairSize(X), X) /\ SumOf(f, Y) = SumOf(PairSize(Y), Y)
    BY <1>1, <1>2, SumSame
  <1>4. SumOf(f, X \cup Y) = SumOf(f, X) + SumOf(f, Y)
    BY <1>1, <1>2, SumUnion
  <1>5. /\ LogBytes(X \cup Y) = SumOf(f, X \cup Y)
        /\ LogBytes(X) = SumOf(PairSize(X), X) /\ LogBytes(Y) = SumOf(PairSize(Y), Y)
    BY <1>1, LogBytesAreSum DEF f
  <1>6. SumOf(f, X) \in Nat /\ SumOf(f, Y) \in Nat
    BY <1>1, <1>2, SumNat
  <1> QED  BY <1>1, <1>3, <1>4, <1>5, <1>6 DEF PSized

\* Among the entries X of all rooms, one room's entries S become T.
LEMMA LogBytesReplaced ==
  ASSUME NEW n, NEW X, PSized(X), NEW S, Sized(S), Pairs(n, S) = OfNote(n, X),
         NEW T, Sized(T), NEW Y, Y = Others(n, X) \cup Pairs(n, T)
  PROVE  PSized(Y) /\ LogBytes(Y) = LogBytes(X) - Bytes(S) + Bytes(T) /\ LogBytes(X) \in Nat
  <1> DEFINE O == Others(n, X)
             A == Pairs(n, S)
             B == Pairs(n, T)
  <1>1. /\ X = O \cup A /\ O \cap A = {} /\ Y = O \cup B /\ O \cap B = {} /\ O \subseteq X
    BY DEF Pairs, OfNote, Others
  <1>2. PSized(O)
    BY FS_Subset DEF PSized, Others
  <1>3. PSized(A) /\ PSized(B) /\ LogBytes(A) = Bytes(S) /\ LogBytes(B) = Bytes(T)
    BY PairsSum
  <1> HIDE DEF O, A, B
  <1>4. LogBytes(O \cup A) = LogBytes(O) + LogBytes(A)
    BY <1>1, <1>2, <1>3, LogBytesUnion
  <1>5. /\ PSized(O \cup B) /\ LogBytes(O \cup B) = LogBytes(O) + LogBytes(B)
        /\ LogBytes(O) \in Nat
    BY <1>1, <1>2, <1>3, LogBytesUnion
  <1>6. Bytes(S) \in Nat /\ Bytes(T) \in Nat
    BY BytesNat
  <1>7. LogBytes(X) = LogBytes(O) + Bytes(S) /\ LogBytes(Y) = LogBytes(O) + Bytes(T)
    BY <1>1, <1>3, <1>4, <1>5
  <1>8. PSized(Y)
    BY <1>1, <1>5
  <1> DEFINE o == LogBytes(O) s == Bytes(S) t == Bytes(T)
  <1>9. o \in Nat /\ s \in Nat /\ t \in Nat /\ LogBytes(X) = o + s /\ LogBytes(Y) = o + t
    BY <1>5, <1>6, <1>7
  <1> HIDE DEF o, s, t
  <1>10. LogBytes(Y) = LogBytes(X) - s + t /\ LogBytes(X) \in Nat
    BY <1>9
  <1> QED  BY <1>8, <1>10 DEF s, t

-----------------------------------------------------------------------------
\* A room's log is finite, its entries are told apart by their numbers, and
\* r.bytes is what they weigh.
LogOK(r) ==
  /\ Sized(r.log) /\ r.bytes = Bytes(r.log)
  /\ \A e \in r.log : e.seq <= r.seq
  /\ \A d, e \in r.log : d.seq = e.seq => d = e

\* The budgets match the logs and keep within the caps: inductive with HubInv.
BudgetInv ==
  /\ \A n \in Note : LogOK(rooms[n])
  /\ PSized(Logs)
  /\ BudgetsRight

Of(u, S) == {e \in S : e.uid = u}

\* What a step moves in the budgets when the entries gone become come.
Charges(gone, come) ==
  /\ total' = total - Bytes(gone) + Bytes(come)
  /\ DOMAIN held' = DOMAIN held
  /\ \A u \in DOMAIN held : held'[u] = held[u] - Charged(u, gone) + Charged(u, come)

LEMMA AccountCharges ==
  ASSUME NEW gone, NEW come, Account(gone, come)
  PROVE  Charges(gone, come)
  BY DEF Account, Charges

\* The sums are numbers.
LEMMA BudgetNumbers ==
  ASSUME HubInv, BudgetInv, NEW n \in Note
  PROVE  /\ total \in Nat /\ \A u \in DOMAIN held : held[u] \in Nat
         /\ DOMAIN held = User \cup {None}
         /\ LogOK(rooms[n]) /\ rooms[n].bytes \in Nat /\ Bytes(rooms[n].log) \in Nat
         /\ Pairs(n, rooms[n].log) = OfNote(n, Logs)
         /\ total = LogBytes(Logs)
         /\ \A u \in DOMAIN held : held[u] = LogBytes({x \in Logs : x[2].uid = u})
  <1>1. PSized(Logs) /\ LogOK(rooms[n])
    BY DEF BudgetInv
  <1>2. /\ total = LogBytes(Logs)
        /\ \A u \in DOMAIN held : held[u] = LogBytes({x \in Logs : x[2].uid = u})
    BY DEF BudgetInv, BudgetsRight, BudgetMatches
  <1>3. ASSUME NEW X, PSized(X) PROVE LogBytes(X) \in Nat
    <2>1. PSized({}) /\ X \cap {} = {}
      BY FS_EmptySet DEF PSized
    <2> QED  BY <1>3, <2>1, LogBytesUnion
  <1>4. \A u : PSized({x \in Logs : x[2].uid = u})
    <2> SUFFICES ASSUME NEW u PROVE PSized({x \in Logs : x[2].uid = u})
      OBVIOUS
    <2> DEFINE L == Logs
    <2> HIDE DEF L
    <2>1. {x \in L : x[2].uid = u} \in SUBSET L /\ IsFiniteSet(L)
      BY <1>1 DEF L, PSized
    <2>2. IsFiniteSet({x \in L : x[2].uid = u})
      BY <2>1, FS_Subset
    <2> QED  BY <1>1, <2>2 DEF PSized, L
  <1>5. total \in Nat
    BY <1>1, <1>2, <1>3
  <1>6. \A u \in DOMAIN held : held[u] \in Nat
    BY <1>2, <1>3, <1>4
  <1>7. Bytes(rooms[n].log) \in Nat
    BY <1>1, BytesNat DEF LogOK
  <1>8. Pairs(n, rooms[n].log) = OfNote(n, Logs)
    BY DEF Pairs, Logs, OfNote
  <1> QED  BY <1>1, <1>2, <1>5, <1>6, <1>7, <1>8 DEF HubInv, TypeOK, LogOK

\* A step that turns n's room into r and moves the budgets by the difference.
LEMMA BudgetStep ==
  ASSUME HubInv, BudgetInv, NEW n \in Note, NEW r, Becomes(n, r), LogOK(r),
         Charges(rooms[n].log, r.log),
         total' <= MaxTotal, \A u \in User : held'[u] <= MaxUser, r.bytes <= MaxLog
  PROVE  BudgetInv'
  <1> DEFINE S == rooms[n].log
             T == r.log
  <1>1. /\ DOMAIN rooms = Note /\ rooms' = [rooms EXCEPT ![n] = r]
        /\ DOMAIN held = User \cup {None} /\ DOMAIN held' = User \cup {None}
        /\ rooms'[n] = r /\ \A m \in Note : m # n => rooms'[m] = rooms[m]
    BY DEF HubInv, TypeOK, Becomes, Charges
  <1>2. /\ total \in Nat /\ LogOK(rooms[n]) /\ PSized(Logs) /\ Sized(S) /\ Sized(T)
        /\ Pairs(n, S) = OfNote(n, Logs)
        /\ total = LogBytes(Logs)
        /\ \A u \in DOMAIN held : held[u] = LogBytes({x \in Logs : x[2].uid = u})
    BY BudgetNumbers DEF BudgetInv, LogOK
  <1>3. Logs' = Others(n, Logs) \cup Pairs(n, T)
    <2>1. Logs' = UNION {{<<m, e>> : e \in rooms'[m].log} : m \in Note}
      BY DEF Logs
    <2> QED  BY <1>1, <2>1 DEF Logs, Pairs, Others
  <1>4. PSized(Logs') /\ LogBytes(Logs') = LogBytes(Logs) - Bytes(S) + Bytes(T)
    <2> DEFINE X == Logs
               Y == Logs'
    <2>1. PSized(X) /\ Pairs(n, S) = OfNote(n, X) /\ Y = Others(n, X) \cup Pairs(n, T)
      BY <1>2, <1>3
    <2> HIDE DEF X, Y, S, T
    <2>2. PSized(Y) /\ LogBytes(Y) = LogBytes(X) - Bytes(S) + Bytes(T)
      BY <1>2, <2>1, LogBytesReplaced
    <2> QED  BY <2>2 DEF X, Y
  <1>5. total' = LogBytes(Logs')
    BY <1>2, <1>4 DEF Charges
  <1>6. ASSUME NEW u \in DOMAIN held
        PROVE  held'[u] = LogBytes({x \in Logs' : x[2].uid = u})
    <2> DEFINE L == Logs
               M == Logs'
               X == {x \in L : x[2].uid = u}
               Y == {x \in M : x[2].uid = u}
               A == Of(u, S)
               B == Of(u, T)
    <2>1. Sized(A) /\ Sized(B)
      BY <1>2, BytesSubset DEF Of
    <2>2. PSized(X)
      <3>1. PSized(L)
        BY <1>2
      <3> HIDE DEF L
      <3>2. X \in SUBSET L
        OBVIOUS
      <3> HIDE DEF X
      <3>3. IsFiniteSet(X)
        BY <3>1, <3>2, FS_Subset DEF PSized
      <3> QED  BY <3>1, <3>2, <3>3 DEF PSized
    <2>3. Pairs(n, A) = OfNote(n, X)
      <3>1. Pairs(n, S) = OfNote(n, L)
        BY <1>2
      <3> HIDE DEF L, S
      <3>2. Pairs(n, A) = {x \in Pairs(n, S) : x[2].uid = u}
        BY DEF Pairs, Of
      <3> QED  BY <3>1, <3>2 DEF OfNote
    <2>4. Y = Others(n, X) \cup Pairs(n, B)
      <3>1. M = Others(n, L) \cup Pairs(n, T)
        BY <1>3
      <3> HIDE DEF M, L, T
      <3>2. Pairs(n, B) = {x \in Pairs(n, T) : x[2].uid = u}
        BY DEF Pairs, Of
      <3> QED  BY <3>1, <3>2 DEF Others
    <2>5. held[u] = LogBytes(X)
      BY <1>2
    <2>6. held'[u] = held[u] - Bytes(A) + Bytes(B)
      BY DEF Charges, Charged, Of
    <2> HIDE DEF X, Y, A, B
    <2>7. LogBytes(Y) = LogBytes(X) - Bytes(A) + Bytes(B)
      BY <2>1, <2>2, <2>3, <2>4, LogBytesReplaced
    <2> QED  BY <2>5, <2>6, <2>7 DEF Y
  <1>7. \A m \in Note : LogOK(rooms'[m]) /\ rooms'[m].bytes <= MaxLog
    BY <1>1 DEF BudgetInv, BudgetsRight, WithinCaps
  <1>8. BudgetMatches'
    <2>1. (total = LogBytes(Logs))'
      BY <1>5
    <2>2. (\A u \in DOMAIN held : held[u] = LogBytes({x \in Logs : x[2].uid = u}))'
      BY <1>1, <1>6
    <2>3. (\A m \in Note : rooms[m].bytes = Bytes(rooms[m].log))'
      BY <1>7 DEF LogOK
    <2> QED  BY <2>1, <2>2, <2>3 DEF BudgetMatches
  <1>9. WithinCaps'
    BY <1>7 DEF WithinCaps
  <1>10. (\A m \in Note : LogOK(rooms[m]))' /\ PSized(Logs)'
    BY <1>4, <1>7
  <1> QED  BY <1>8, <1>9, <1>10 DEF BudgetInv, BudgetsRight

\* A step that changes no entry's weight and no budget.
LEMMA QuietBudget ==
  ASSUME HubInv, BudgetInv, NEW n \in Note, NEW r, Becomes(n, r), LogOK(r),
         Bytes(r.log) = Bytes(rooms[n].log),
         \A u : Charged(u, r.log) = Charged(u, rooms[n].log),
         total' = total, DOMAIN held' = DOMAIN held, \A u \in DOMAIN held : held'[u] = held[u]
  PROVE  BudgetInv'
  <1>1. /\ total \in Nat /\ \A u \in DOMAIN held : held[u] \in Nat
        /\ Bytes(rooms[n].log) \in Nat /\ rooms[n].bytes = Bytes(rooms[n].log) /\ Sized(rooms[n].log)
        /\ r.bytes = Bytes(r.log) /\ DOMAIN held = User \cup {None}
    BY BudgetNumbers DEF LogOK
  <1>2. \A u : Charged(u, rooms[n].log) \in Nat
    BY <1>1, BytesSubset DEF Charged
  <1>3. Charges(rooms[n].log, r.log)
    BY <1>1, <1>2 DEF Charges
  <1>4. total' <= MaxTotal /\ (\A u \in User : held'[u] <= MaxUser) /\ r.bytes <= MaxLog
    BY <1>1 DEF BudgetInv, BudgetsRight, WithinCaps
  <1> QED  BY <1>3, <1>4, BudgetStep

\* The log stays as it is.
SameLog(r, d) == d.log = r.log /\ d.bytes = r.bytes /\ d.seq = r.seq

LEMMA SameBudget ==
  ASSUME HubInv, BudgetInv, NEW n \in Note, NEW r, Becomes(n, r), SameLog(rooms[n], r),
         total' = total, DOMAIN held' = DOMAIN held, \A u \in DOMAIN held : held'[u] = held[u]
  PROVE  BudgetInv'
  <1>1. LogOK(r) /\ r.log = rooms[n].log
    BY DEF BudgetInv, SameLog, LogOK
  <1> QED  BY <1>1, QuietBudget

\* A room that goes gives back what it weighed.
LEMMA DropBudget ==
  ASSUME HubInv, BudgetInv, NEW n \in Note, Drop(n)
  PROVE  BudgetInv'
  <1>1. /\ Becomes(n, NewRoom) /\ NewRoom.log = {} /\ NewRoom.bytes = 0
        /\ Charges(rooms[n].log, NewRoom.log)
    BY AccountCharges DEF Drop, NewRoom
  <1>2. Sized({}) /\ Bytes({}) = 0
    BY FS_EmptySet, BytesNat DEF Sized
  <1>3. LogOK(NewRoom)
    BY <1>1, <1>2 DEF LogOK
  <1>4. /\ total \in Nat /\ \A u \in DOMAIN held : held[u] \in Nat
        /\ Sized(rooms[n].log) /\ DOMAIN held = User \cup {None}
    BY BudgetNumbers DEF LogOK
  <1>5. \A u : Charged(u, rooms[n].log) \in Nat /\ Charged(u, NewRoom.log) = 0
    <2> SUFFICES ASSUME NEW u
                 PROVE  Charged(u, rooms[n].log) \in Nat /\ Charged(u, NewRoom.log) = 0
      OBVIOUS
    <2>1. Charged(u, rooms[n].log) \in Nat
      BY <1>4, BytesSubset DEF Charged
    <2>2. {e \in NewRoom.log : e.uid = u} = {}
      BY <1>1
    <2> QED  BY <1>2, <2>1, <2>2 DEF Charged
  <1>6. Bytes(rooms[n].log) \in Nat
    BY <1>4, BytesNat
  <1>7. total' <= total /\ \A u \in User : held'[u] <= held[u]
    BY <1>1, <1>2, <1>4, <1>5, <1>6 DEF Charges
  <1>8. /\ total <= MaxTotal /\ (\A u \in User : held[u] <= MaxUser)
        /\ MaxTotal \in Nat /\ MaxUser \in Nat /\ MaxLog \in Nat
    BY HubAssumption DEF BudgetInv, BudgetsRight, WithinCaps
  <1>9. /\ total' \in Int /\ \A u \in User : held'[u] \in Int
    BY <1>1, <1>2, <1>4, <1>5, <1>6 DEF Charges
  <1>10. /\ total' <= MaxTotal /\ (\A u \in User : held'[u] <= MaxUser) /\ NewRoom.bytes <= MaxLog
    BY <1>1, <1>4, <1>7, <1>8, <1>9
  <1> QED  BY <1>1, <1>3, <1>10, BudgetStep

LEMMA JoinedSame ==
  ASSUME NEW r, RoomInv(r), NEW c PROVE SameLog(r, Joined(r, c))
  BY DEF RoomInv, RoomOK, NewRoom, Joined, SameLog

LEMMA LeftSame ==
  ASSUME NEW r, RoomInv(r), NEW c, NEW seeder, NEW saver
  PROVE  SameLog(r, AfterLeave(r, c, seeder, saver))
  <1> DEFINE o == Out(r, c)
             s == [o EXCEPT !.seeder = IF seeder = None THEN @ ELSE seeder]
             v == IF r.saver = c THEN WithSaver(s, saver) ELSE s
             w == AfterLeave(r, c, seeder, saver)
  <1>1. DOMAIN o = DOMAIN NewRoom /\ SameLog(r, o)
    BY DEF Out, RoomInv, RoomOK, NewRoom, SameLog
  <1> HIDE DEF o
  <1>2. DOMAIN s = DOMAIN NewRoom /\ SameLog(r, s)
    BY <1>1 DEF NewRoom, SameLog
  <1> HIDE DEF s
  <1>3. DOMAIN v = DOMAIN NewRoom /\ SameLog(r, v)
    BY <1>2 DEF WithSaver, NewRoom, SameLog
  <1>4. w = [v EXCEPT !.grace = v.members = {} /\ HasUnsaved(v)]
    BY DEF AfterLeave, v, s, o
  <1> HIDE DEF v, w
  <1>5. SameLog(r, w)
    BY <1>3, <1>4 DEF NewRoom, SameLog
  <1> QED  BY <1>5 DEF w

LEMMA RelievedSame ==
  ASSUME NEW r, RoomInv(r), NEW c PROVE SameLog(r, Relieved(r, c))
  BY DEF RoomInv, RoomOK, NewRoom, Relieved, WithSaver, SameLog

LEMMA FlagsSame ==
  ASSUME NEW r, RoomInv(r)
  PROVE  SameLog(r, [r EXCEPT !.asked = FALSE]) /\ SameLog(r, [r EXCEPT !.watch = FALSE])
  BY DEF RoomInv, RoomOK, NewRoom, SameLog

\* The steps that only change who is in a room, its roles and its timers.
LEMMA RolesBudget ==
  ASSUME HubInv, BudgetInv, NEW n \in Note,
         \/ \E c \in Conn : Hello(n, c) \/ Leave(n, c)
         \/ WatchEnds(n) \/ SaverRelieved(n) \/ GraceFires(n) \/ GraceEnds(n)
         \/ NoteGoes(n) \/ CloseRoom(n)
  PROVE  BudgetInv'
  <1>1. RoomInv(rooms[n])
    BY RoomFacts
  <1>2. ASSUME NEW r, Becomes(n, r), SameLog(rooms[n], r), UNCHANGED budget
        PROVE  BudgetInv'
    BY <1>2, SameBudget DEF budget
  <1>3. ASSUME UNCHANGED <<rooms, budget>>
        PROVE  BudgetInv'
    <2>1. UNCHANGED Logs
      BY <1>3 DEF Logs
    <2> QED  BY <1>3, <2>1 DEF budget, BudgetInv, BudgetsRight, BudgetMatches, WithinCaps
  <1>4. CASE \E c \in Conn : Hello(n, c)
    BY <1>1, <1>2, <1>4, JoinedSame DEF Hello
  <1>5. ASSUME NEW c \in Conn, Leave(n, c)
        PROVE  BudgetInv'
    <2>1. PICK seeder \in SeederHeirs(rooms[n], c), saver \in SaverHeirs(rooms[n], c) :
            LET w == AfterLeave(rooms[n], c, seeder, saver)
            IN  IF w.members = {} /\ ~HasUnsaved(w)
                THEN Drop(n) /\ UNCHANGED exists
                ELSE Becomes(n, w) /\ UNCHANGED <<budget, fired, exists, accepted, told>>
      BY <1>5 DEF Leave
    <2> DEFINE w == AfterLeave(rooms[n], c, seeder, saver)
    <2>2. SameLog(rooms[n], w)
      BY <1>1, LeftSame
    <2>3. Drop(n) \/ (Becomes(n, w) /\ UNCHANGED budget)
      BY <2>1
    <2> HIDE DEF w
    <2> QED  BY <1>2, <2>2, <2>3, DropBudget
  <1>6. CASE WatchEnds(n)
    <2>1. Becomes(n, [rooms[n] EXCEPT !.watch = FALSE]) /\ UNCHANGED budget
      BY <1>6 DEF WatchEnds
    <2> QED  BY <1>1, <1>2, <2>1, FlagsSame
  <1>7. CASE SaverRelieved(n)
    BY <1>1, <1>2, <1>7, RelievedSame DEF SaverRelieved
  <1>8. CASE GraceFires(n) \/ NoteGoes(n)
    BY <1>3, <1>8 DEF GraceFires, NoteGoes
  <1>9. CASE GraceEnds(n) \/ CloseRoom(n)
    BY <1>3, <1>9, DropBudget DEF GraceEnds, CloseRoom
  <1> QED  BY <1>4, <1>5, <1>6, <1>7, <1>8, <1>9

\* An update weighs what it adds, and is refused where that is too much.
LEMMA UpdateBudget ==
  ASSUME HubInv, BudgetInv, NEW n \in Note, NEW c \in Conn, NEW body, NEW size \in Sizes,
         NEW quiet, Update(n, c, body, size, quiet)
  PROVE  BudgetInv'
  <1> DEFINE r == rooms[n]
             e == [seq |-> r.seq + 1, size |-> size, from |-> c, uid |-> UserOf[c],
                   own |-> r.own[c] + 1, saved |-> FALSE, body |-> body]
             a == Appended(r, c, UserOf[c], body, size)
             p == WithSaver(a, SaverAfter(a, c, quiet))
             u == AfterUpdate(r, c, UserOf[c], body, size, quiet)
  <1>1. /\ Becomes(n, u) /\ Charges(r.log, u.log)
        /\ r.bytes + size <= MaxLog /\ total + size <= MaxTotal /\ held[UserOf[c]] + size <= MaxUser
    BY AccountCharges DEF Update
  <1>2. RoomInv(r) /\ r.seq \in Nat
    BY RoomFacts DEF RoomOK
  <1>3. DOMAIN a = DOMAIN NewRoom /\ a.log = r.log \cup {e} /\ a.bytes = r.bytes + size /\ a.seq = r.seq + 1
    BY <1>2 DEF Appended, RoomInv, RoomOK, NewRoom
  <1> HIDE DEF a
  <1>4. DOMAIN p = DOMAIN NewRoom /\ SameLog(a, p)
    BY <1>3 DEF WithSaver, NewRoom, SameLog
  <1>5. u = [p EXCEPT !.asked = @ \/ AsksCompaction(p)]
    BY DEF AfterUpdate, a
  <1> HIDE DEF p, u
  <1>6. SameLog(a, u)
    BY <1>4, <1>5 DEF NewRoom, SameLog
  <1>7. u.log = r.log \cup {e} /\ u.bytes = r.bytes + size /\ u.seq = r.seq + 1
    BY <1>3, <1>6 DEF SameLog
  <1>8. /\ size \in Nat /\ e.size = size /\ e.seq = r.seq + 1 /\ e.uid = UserOf[c] /\ UserOf[c] \in User
    BY HubAssumption
  <1>9. /\ total \in Nat /\ \A x \in DOMAIN held : held[x] \in Nat
        /\ DOMAIN held = User \cup {None} /\ LogOK(r) /\ Sized(r.log)
        /\ \A x : Charged(x, r.log) \in Nat
        /\ r.bytes = Bytes(r.log) /\ Bytes(r.log) \in Nat
    <2>1. LogOK(r) /\ Sized(r.log)
      BY BudgetNumbers DEF LogOK
    <2> HIDE DEF r
    <2>2. \A x : Charged(x, r.log) \in Nat
      BY <2>1, BytesSubset DEF Charged
    <2> QED  BY <2>1, <2>2, BudgetNumbers DEF LogOK, r
  <1>10. /\ \A x \in r.log : x.seq <= r.seq
         /\ \A x, y \in r.log : x.seq = y.seq => x = y
         /\ \A x \in r.log : x.seq \in Nat
    BY <1>2, <1>9 DEF LogOK, RoomInv, RoomOK, Entry
  <1> HIDE DEF r, e
  <1>11. e \notin r.log /\ r.log \cap {e} = {}
    BY <1>2, <1>8, <1>10
  <1> DEFINE B == {e}
  <1>21. Sized(B) /\ Bytes(B) = size
    BY <1>8, BytesSingle
  <1> HIDE DEF B
  <1>12. Sized(u.log) /\ Bytes(u.log) = Bytes(r.log) + size
    BY <1>7, <1>9, <1>11, <1>21, BytesUnion DEF B
  <1>13. LogOK(u)
    <2>1. \A x \in u.log : x.seq <= u.seq
      BY <1>2, <1>7, <1>8, <1>10
    <2>2. \A x, y \in u.log : x.seq = y.seq => x = y
      BY <1>2, <1>7, <1>8, <1>10
    <2> QED  BY <1>7, <1>9, <1>12, <2>1, <2>2 DEF LogOK
  <1>14. ASSUME NEW x
         PROVE  Charged(x, u.log) = Charged(x, r.log) + (IF x = UserOf[c] THEN size ELSE 0)
    <2> DEFINE A == {y \in r.log : y.uid = x}
    <2>1. Sized(A)
      BY <1>9, BytesSubset
    <2>2. CASE x = UserOf[c]
      <3>1. {y \in u.log : y.uid = x} = A \cup {e} /\ A \cap {e} = {}
        BY <1>7, <1>8, <1>11, <2>2
      <3> HIDE DEF A
      <3>2. Bytes(A \cup {e}) = Bytes(A) + size
        <4>1. Bytes(A \cup B) = Bytes(A) + Bytes(B)
          BY <1>21, <2>1, <3>1, BytesUnion DEF B
        <4> QED  BY <1>21, <4>1 DEF B
      <3> QED  BY <2>2, <3>1, <3>2 DEF Charged, A
    <2>3. CASE x # UserOf[c]
      <3>1. {y \in u.log : y.uid = x} = A
        BY <1>7, <1>8, <2>3
      <3>2. Charged(x, u.log) = Charged(x, r.log)
        BY <3>1 DEF Charged
      <3> QED  BY <1>9, <2>3, <3>2
    <2> QED  BY <2>2, <2>3
  <1>15. total' = total + size
    BY <1>1, <1>8, <1>9, <1>12 DEF Charges
  <1>16. ASSUME NEW x \in User
         PROVE  held'[x] <= MaxUser
    <2>1. held'[x] = held[x] - Charged(x, r.log) + Charged(x, u.log) /\ held[x] \in Nat
      BY <1>1, <1>9 DEF Charges
    <2>2. held'[x] = held[x] + (IF x = UserOf[c] THEN size ELSE 0)
      BY <1>8, <1>9, <1>14, <2>1
    <2>3. held[x] <= MaxUser
      BY DEF BudgetInv, BudgetsRight, WithinCaps
    <2> QED  BY <1>1, <2>1, <2>2, <2>3
  <1> QED  BY <1>1, <1>7, <1>13, <1>15, <1>16, BudgetStep DEF r

\* What a snapshot leaves of a log, and how much that weighs.
LEMMA SnapshotWeighs ==
  ASSUME NEW r, RoomInv(r), LogOK(r), NEW ack \in 0..r.seq, NEW body, NEW size \in Sizes,
         NEW d, d = Compacted(r, ack, body, size)
  PROVE  /\ LogOK(d) /\ d.bytes = Bytes(d.log)
         /\ Bytes(d.log) = size + Bytes(r.log) - Bytes(Covered(r, ack))
         /\ Bytes(Covered(r, ack)) \in Nat
         /\ \A u \in User : /\ Charged(u, d.log) \in Nat /\ Charged(u, r.log) \in Nat
                            /\ Charged(u, d.log) <= Charged(u, r.log)
  <1> DEFINE e == [seq |-> ack, size |-> size, from |-> None, uid |-> None, own |-> 0,
                   saved |-> \A x \in Covered(r, ack) : x.saved, body |-> body]
             C == Covered(r, ack)
             rest == r.log \ C
             B == {e}
             kept == B \cup rest
  <1>1. /\ size \in Nat /\ e.size = size /\ e.seq = ack /\ e.uid = None /\ None \notin User
        /\ ack \in Nat /\ ack <= r.seq /\ r.seq \in Nat
    BY HubAssumption DEF RoomInv, RoomOK
  <1>2. d = [r EXCEPT !.log = kept, !.bytes = Bytes(kept), !.compacted = size,
                      !.asked = FALSE, !.snapSeq = ack]
    BY DEF Compacted
  <1> HIDE DEF kept
  <1>3. d.log = kept /\ d.bytes = Bytes(kept) /\ d.seq = r.seq
    BY <1>2 DEF RoomInv, RoomOK, NewRoom
  <1>4. /\ \A x \in r.log : x.seq \in Nat /\ x.seq <= r.seq
        /\ \A x, y \in r.log : x.seq = y.seq => x = y
        /\ Sized(r.log)
    BY DEF LogOK, RoomInv, RoomOK, Entry
  <1>5. C \subseteq r.log /\ \A x \in rest : x.seq > ack
    BY <1>1, <1>4 DEF Covered
  <1> HIDE DEF e, C
  <1>6. /\ Sized(C) /\ Sized(rest) /\ Bytes(r.log) = Bytes(C) + Bytes(rest)
        /\ Bytes(C) \in Nat /\ Bytes(rest) \in Nat
    BY <1>4, <1>5, BytesSubset
  <1>7. Sized(B) /\ Bytes(B) = size
    BY <1>1, BytesSingle
  <1>8. B \cap rest = {}
    BY <1>1, <1>5
  <1>9. \A x \in kept : x = e \/ (x \in r.log /\ x.seq > ack)
    BY <1>5 DEF kept
  <1> HIDE DEF B, rest
  <1>10. Sized(kept) /\ Bytes(kept) = size + Bytes(rest)
    BY <1>6, <1>7, <1>8, BytesUnion DEF kept
  <1>11. /\ \A x \in kept : x.seq <= r.seq
         /\ \A x, y \in kept : x.seq = y.seq => x = y
    BY <1>1, <1>4, <1>9
  <1>12. LogOK(d)
    BY <1>3, <1>10, <1>11 DEF LogOK
  <1>13. Bytes(d.log) = size + Bytes(r.log) - Bytes(C)
    BY <1>1, <1>3, <1>6, <1>10
  <1>14. ASSUME NEW u \in User
         PROVE  /\ Charged(u, d.log) \in Nat /\ Charged(u, r.log) \in Nat
                /\ Charged(u, d.log) <= Charged(u, r.log)
    <2> DEFINE R == {x \in r.log : x.uid = u}
               K == {x \in kept : x.uid = u}
    <2>1. K \subseteq R
      BY <1>1, <1>9
    <2>2. Sized(R)
      BY <1>4, BytesSubset
    <2>3. Charged(u, d.log) = Bytes(K) /\ Charged(u, r.log) = Bytes(R)
      BY <1>3 DEF Charged
    <2> HIDE DEF K, R
    <2>4. /\ Bytes(R) = Bytes(K) + Bytes(R \ K)
          /\ Bytes(K) \in Nat /\ Bytes(R \ K) \in Nat
      BY <2>1, <2>2, BytesSubset
    <2>5. Bytes(R) \in Nat
      BY <2>2, BytesNat
    <2> DEFINE k == Bytes(K) q == Bytes(R) z == Bytes(R \ K)
    <2> HIDE DEF k, q, z
    <2>6. k \in Nat /\ q \in Nat /\ k <= q
      <3>1. k \in Nat /\ z \in Nat /\ q = k + z
        BY <2>4 DEF k, q, z
      <3> QED  BY <3>1
    <2> QED  BY <2>3, <2>6 DEF k, q
  <1> QED  BY <1>3, <1>6, <1>12, <1>13, <1>14 DEF C

\* A snapshot is held to the caps with what it replaces taken off; refused, it
\* moves no budget.
LEMMA SnapshotBudget ==
  ASSUME HubInv, BudgetInv, NEW n \in Note, NEW c \in Conn, NEW ack \in 0..rooms[n].seq,
         NEW size \in Sizes, NEW body, Snapshot(n, c, ack, body, size)
  PROVE  BudgetInv'
  <1> DEFINE r == rooms[n]
             d == Compacted(r, ack, body, size)
             x == [r EXCEPT !.asked = FALSE]
  <1>1. RoomInv(r) /\ LogOK(r) /\ SameLog(r, x)
    BY RoomFacts, BudgetNumbers, FlagsSame
  <1>2. /\ total \in Nat /\ \A u \in DOMAIN held : held[u] \in Nat
        /\ DOMAIN held = User \cup {None} /\ Bytes(r.log) \in Nat
        /\ \A u \in User : held[u] <= MaxUser
    BY BudgetNumbers DEF BudgetInv, BudgetsRight, WithinCaps
  <1>3. CASE size <= r.bytes /\ Fits(r, d, ack, size)
    <2>1. /\ Becomes(n, d) /\ Account(r.log, d.log)
          /\ d.bytes <= MaxLog /\ total - Bytes(Covered(r, ack)) + size <= MaxTotal
      BY <1>3 DEF Snapshot, Fits
    <2> HIDE DEF r, d
    <2>2. d = Compacted(r, ack, body, size) /\ ack \in 0..r.seq
      BY DEF d, r
    <2>3. Charges(r.log, d.log)
      BY <2>1, AccountCharges
    <2>4. /\ LogOK(d) /\ Bytes(d.log) = size + Bytes(r.log) - Bytes(Covered(r, ack))
          /\ Bytes(Covered(r, ack)) \in Nat
          /\ \A u \in User : /\ Charged(u, d.log) \in Nat /\ Charged(u, r.log) \in Nat
                             /\ Charged(u, d.log) <= Charged(u, r.log)
      BY <1>1, <2>2, SnapshotWeighs
    <2>5. size \in Nat /\ MaxUser \in Nat
      BY HubAssumption
    <2>6. total' <= MaxTotal
      <3> DEFINE b == Bytes(r.log) k == Bytes(Covered(r, ack))
      <3>1. /\ b \in Nat /\ k \in Nat /\ total - k + size <= MaxTotal
            /\ total' = total - b + (size + b - k)
        BY <1>2, <2>1, <2>3, <2>4 DEF Charges
      <3> HIDE DEF b, k
      <3> QED  BY <1>2, <2>5, <3>1
    <2>7. ASSUME NEW u \in User PROVE held'[u] <= MaxUser
      <3> DEFINE a == Charged(u, r.log) b == Charged(u, d.log) h == held[u]
      <3>1. held'[u] = h - a + b /\ a \in Nat /\ b \in Nat /\ b <= a /\ h \in Nat /\ h <= MaxUser
        BY <1>2, <2>3, <2>4 DEF Charges
      <3> HIDE DEF a, b, h
      <3> QED  BY <2>5, <3>1
    <2> QED  BY <2>1, <2>3, <2>4, <2>6, <2>7, BudgetStep DEF r
  <1>4. CASE size <= r.bytes /\ ~Fits(r, d, ack, size)
    <2>1. Becomes(n, x) /\ Account({}, {})
      BY <1>4 DEF Snapshot
    <2>2. Bytes({}) = 0 /\ \A u : Charged(u, {}) = 0
      <3>1. Sized({})
        BY FS_EmptySet DEF Sized
      <3>2. \A u : {y \in {} : y.uid = u} = {}
        OBVIOUS
      <3> QED  BY <3>1, <3>2, BytesNat DEF Charged
    <2>3. /\ total' = total /\ DOMAIN held' = DOMAIN held
          /\ \A u \in DOMAIN held : held'[u] = held[u]
      BY <1>2, <2>1, <2>2 DEF Account
    <2> HIDE DEF x
    <2> QED  BY <1>1, <2>1, <2>3, SameBudget
  <1>5. CASE ~(size <= r.bytes)
    <2>1. Becomes(n, x) /\ UNCHANGED budget
      BY <1>5 DEF Snapshot
    <2> HIDE DEF x
    <2> QED  BY <1>1, <2>1, SameBudget DEF budget
  <1> QED  BY <1>3, <1>4, <1>5

\* Marking entries saved changes no weight.
LEMMA SavedBudget ==
  ASSUME HubInv, BudgetInv, NEW n \in Note, NEW c \in Conn, NEW recv, NEW own,
         Saved(n, c, recv, own)
  PROVE  BudgetInv'
  <1> DEFINE r == rooms[n]
             d == MarkedSaved(r, c, recv, own)
             mark(e) == [e EXCEPT !.saved = @ \/ Confirms(e, c, recv, own)]
             m == [e \in r.log |-> mark(e)]
  <1>1. RoomInv(r) /\ LogOK(r) /\ Sized(r.log) /\ r.log \subseteq Entry
    BY RoomFacts, BudgetNumbers DEF LogOK, RoomOK
  <1>2. Becomes(n, d) /\ UNCHANGED budget
    BY DEF Saved
  <1>3. \A e \in r.log : /\ m[e].size = e.size /\ m[e].seq = e.seq /\ m[e].uid = e.uid
    BY <1>1 DEF Entry
  <1>4. d.log = {m[e] : e \in r.log} /\ d.bytes = r.bytes /\ d.seq = r.seq
    <2>1. d = [r EXCEPT !.stuck = @ \ {c}, !.log = {mark(e) : e \in @}]
      BY DEF MarkedSaved
    <2> HIDE DEF d
    <2>2. d.log = {mark(e) : e \in r.log} /\ d.bytes = r.bytes /\ d.seq = r.seq
      <3> HIDE DEF mark
      <3> QED  BY <1>1, <2>1 DEF RoomInv, RoomOK, NewRoom
    <2>3. {mark(e) : e \in r.log} = {m[e] : e \in r.log}
      <3> HIDE DEF mark
      <3> QED  OBVIOUS
    <2> QED  BY <2>2, <2>3
  <1>5. \A x, y \in r.log : m[x].seq = m[y].seq => x = y
    BY <1>1, <1>3 DEF LogOK
  <1> HIDE DEF m, d
  <1>6. Sized(d.log) /\ Bytes(d.log) = Bytes(r.log)
    <2>1. \A x, y \in r.log : m[x] = m[y] => x = y
      BY <1>5
    <2>2. \A x \in r.log : m[x].size = x.size
      BY <1>3
    <2> DEFINE S == r.log
    <2> HIDE DEF S
    <2>3. Sized({m[e] : e \in S}) /\ Bytes({m[e] : e \in S}) = Bytes(S)
      BY <1>1, <2>1, <2>2, BytesRenamed DEF S
    <2> QED  BY <1>4, <2>3 DEF S
  <1>7. ASSUME NEW u PROVE Charged(u, d.log) = Charged(u, r.log)
    <2> DEFINE S == {x \in r.log : x.uid = u}
    <2>1. Sized(S)
      BY <1>1, BytesSubset
    <2>2. {x \in d.log : x.uid = u} = {m[e] : e \in S}
      BY <1>3, <1>4
    <2>3. /\ \A x, y \in S : m[x] = m[y] => x = y
          /\ \A x \in S : m[x].size = x.size
      BY <1>3, <1>5
    <2>4. Charged(u, d.log) = Bytes({m[e] : e \in S}) /\ Charged(u, r.log) = Bytes(S)
      BY <2>2 DEF Charged
    <2> HIDE DEF S
    <2>5. Bytes({m[e] : e \in S}) = Bytes(S)
      BY <2>1, <2>3, BytesRenamed
    <2> QED  BY <2>4, <2>5
  <1>8. LogOK(d)
    <2>1. \A x \in d.log : x.seq <= d.seq
      BY <1>1, <1>3, <1>4 DEF LogOK
    <2>2. \A x, y \in d.log : x.seq = y.seq => x = y
      BY <1>4, <1>5
    <2> QED  BY <1>1, <1>4, <1>6, <2>1, <2>2 DEF LogOK
  <1> QED  BY <1>2, <1>6, <1>7, <1>8, QuietBudget DEF budget

LEMMA BudgetInit == Init => BudgetInv
  <1> SUFFICES ASSUME Init PROVE BudgetInv
    OBVIOUS
  <1>1. Sized({}) /\ PSized({}) /\ Bytes({}) = 0 /\ LogBytes({}) = 0
    <2>1. IsFiniteSet({}) /\ Sized({}) /\ PSized({})
      BY FS_EmptySet DEF Sized, PSized
    <2>2. LogBytes({}) = SumOf(PairSize({}), {})
      BY <2>1, LogBytesAreSum
    <2> QED  BY <2>1, <2>2, BytesNat, SumEmpty
  <1>2. \A n \in Note : rooms[n] = NewRoom
    BY DEF Init
  <1>3. NewRoom.log = {} /\ NewRoom.bytes = 0
    BY DEF NewRoom
  <1>4. Logs = {} /\ \A u : {x \in Logs : x[2].uid = u} = {}
    BY <1>2, <1>3 DEF Logs
  <1>5. \A n \in Note : LogOK(rooms[n]) /\ rooms[n].bytes = Bytes(rooms[n].log)
    BY <1>1, <1>2, <1>3 DEF LogOK
  <1>6. total = 0 /\ DOMAIN held = User \cup {None} /\ \A u \in DOMAIN held : held[u] = 0
    BY DEF Init
  <1>7. BudgetMatches
    BY <1>1, <1>4, <1>5, <1>6 DEF BudgetMatches
  <1>8. WithinCaps
    BY <1>2, <1>3, <1>6, HubAssumption DEF WithinCaps
  <1> QED  BY <1>1, <1>4, <1>5, <1>7, <1>8 DEF BudgetInv, BudgetsRight

LEMMA BudgetNext == HubInv /\ BudgetInv /\ [Next]_vars => BudgetInv'
  <1> SUFFICES ASSUME HubInv, BudgetInv, [Next]_vars PROVE BudgetInv'
    OBVIOUS
  <1>1. CASE UNCHANGED vars
    <2>1. UNCHANGED <<rooms, total, held>> /\ UNCHANGED Logs
      BY <1>1 DEF vars, budget, Logs
    <2> QED  BY <2>1 DEF BudgetInv, BudgetsRight, BudgetMatches, WithinCaps
  <1>2. CASE Next
    <2>1. PICK n \in Note :
            \/ \E c \in Conn :
                 \/ Hello(n, c)
                 \/ Leave(n, c)
                 \/ InRoom(n, c) /\
                      \/ \E size \in Sizes, quiet \in BOOLEAN :
                          Update(n, c, {rooms[n].seq + 1}, size, quiet)
                      \/ \E ack \in 0..rooms[n].seq, size \in Sizes :
                           \E body \in Honest(n, ack) : Snapshot(n, c, ack, body, size)
                      \/ \E recv \in 0..rooms[n].seq, own \in 0..rooms[n].own[c] :
                           Saved(n, c, recv, own)
            \/ WatchEnds(n) \/ SaverRelieved(n)
            \/ GraceFires(n) \/ GraceEnds(n)
            \/ NoteGoes(n) \/ CloseRoom(n)
      BY <1>2 DEF Next
    <2>2. ASSUME NEW c \in Conn, NEW size \in Sizes, NEW quiet \in BOOLEAN,
                 Update(n, c, {rooms[n].seq + 1}, size, quiet)
          PROVE  BudgetInv'
      BY <2>2, UpdateBudget
    <2>3. ASSUME NEW c \in Conn, NEW ack \in 0..rooms[n].seq, NEW size \in Sizes,
                 NEW body \in Honest(n, ack), Snapshot(n, c, ack, body, size)
          PROVE  BudgetInv'
      BY <2>3, SnapshotBudget
    <2>4. ASSUME NEW c \in Conn, NEW recv, NEW own, Saved(n, c, recv, own)
          PROVE  BudgetInv'
      BY <2>4, SavedBudget
    <2> QED  BY <2>1, <2>2, <2>3, <2>4, RolesBudget
  <1> QED  BY <1>1, <1>2

\* The server-wide and the per-account byte budgets are what the logs weigh and
\* no cap is passed, whatever is compacted, dropped or closed (account,
\* YjsFrame, dropRoomLocked), for any sizes and caps.
THEOREM BudgetsHold == Spec => []BudgetsRight
  <1>1. Init => BudgetInv
    BY BudgetInit
  <1>2. HubInv /\ BudgetInv /\ [Next]_vars => BudgetInv'
    BY BudgetNext
  <1>3. BudgetInv => BudgetsRight
    BY DEF BudgetInv
  <1> QED  BY <1>1, <1>2, <1>3, HubCorrect, PTL DEF Spec

===============================================================================
