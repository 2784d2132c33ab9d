-------------------------- MODULE HaStorage_proofs --------------------------
(***************************************************************************)
(* Theorems about HaStorage, for any sets of sessions, writers and notes   *)
(* and any bounds: first what holds under every fault, then that HaStorage *)
(* implements DurableLog as long as no op is refused by the tree, no ack   *)
(* is lost and no running writer loses its lock (Orderly).  Crashes, queue *)
(* errors and failed deletes are covered.                                  *)
(***************************************************************************)
EXTENDS HaStorage, WellFoundedInduction, FiniteSetTheorems, SequenceTheorems, TLAPS

-----------------------------------------------------------------------------
(* Lemmas about the operators.                                             *)

\* Lowest of a non-empty set of naturals is its least element.
LEMMA LowestIsLeast ==
  ASSUME NEW S, S \subseteq Nat, S # {}
  PROVE  Lowest(S) \in S /\ \A j \in S : Lowest(S) <= j
<1> DEFINE R == {ss \in Nat \X Nat : ss[1] < ss[2]}
<1>1. IsWellFoundedOn(R, Nat)
  BY NatLessThanWellFounded DEF OpToRel
<1> HIDE DEF R
<1>2. PICK x \in S : \A y \in S : ~(<<y, x>> \in R)
  BY <1>1, WFMin, Zenon
<1>3. \A y \in S : x <= y
  <2> SUFFICES ASSUME NEW y \in S, y < x PROVE FALSE
    OBVIOUS
  <2>1. <<y, x>> \in R
    BY DEF R
  <2> QED
    BY <1>2, <2>1
<1> QED
  BY <1>2, <1>3 DEF Lowest

LEMMA RangeGrows ==
  ASSUME NEW n \in Nat, NEW S, S \subseteq 1..n
  PROVE  S \cup {n + 1} \subseteq 1..(n + 1)
<1> SUFFICES ASSUME NEW i \in S PROVE i \in 1..(n + 1)
  OBVIOUS
<1>1. i \in 1..n
  OBVIOUS
<1> QED
  BY <1>1

\* An op applied to a tree gives a tree.
LEMMA EffectType ==
  ASSUME NEW t \in Tree, NEW op \in Op
  PROVE  Effect(t, op) \in Tree
  BY TreeAssumption DEF Effect, Tree, Op, Kind, Path, Folder, Body, EmptyTree

\* A marker that lands is a marker.
LEMMA MarkType ==
  ASSUME NEW c \in Body \cup {None}, NEW d \in Body, NEW r,
         NEW m \in Marks(c, d, r)
  PROVE  m \in BOOLEAN
  BY DEF Marks, Body

LEMMA WithMarkType ==
  ASSUME NEW op \in Op, NEW m \in BOOLEAN
  PROVE  WithMark(op, m) \in Op
  BY DEF WithMark, Op, Body

LEMMA CacheBodyType ==
  ASSUME NEW t \in Tree, NEW p \in Path, NEW b \in Body
  PROVE  CacheBody(t, p, b) \in Tree
  BY TreeAssumption DEF CacheBody, Tree, Path, Folder, Body

LEMMA PublishedType ==
  ASSUME NEW t \in Tree, NEW op \in Op
  PROVE  Published(t, op) \in Tree
  BY CacheBodyType, TreeAssumption
     DEF Published, Tree, Op, Kind, Path, Folder, Body, EmptyTree

LEMMA ReflectedType ==
  ASSUME NEW t \in Tree, NEW d \in Tree, NEW op \in Op
  PROVE  Reflected(t, d, op) \in Tree
<1> DEFINE u == [t EXCEPT ![op.path] = None, ![op.to] = None]
<1>1. RecacheDest(u, d, op.to) \in Tree
  <2>1. u \in Tree /\ op.to \in Path /\ d[op.to] \in Body \cup {None}
    BY DEF Tree, Op
  <2> QED
    BY <2>1, CacheBodyType DEF RecacheDest
<1>2. PublishLanded(t, d, op) \in Tree
  BY TreeAssumption DEF PublishLanded, CompareAndSet, Tree, Op, Path, Folder, Body
<1> QED
  BY <1>1, <1>2, TreeAssumption DEF Reflected, Tree, Op, Path, Folder, Body, EmptyTree

LEMMA HydratedType ==
  ASSUME NEW t \in Tree, NEW d \in Tree, NEW p \in Path
  PROVE  Hydrated(t, d, p) \in Tree
  BY TreeAssumption DEF Hydrated, Tree, Path, Folder, Body

LEMMA LogStep ==
  ASSUME TypeOK, NEW op \in Op, Accept(op)
  PROVE  /\ log' \in Seq(Op) /\ Len(log') = Len(log) + 1
         /\ \A i \in Ids : log'[i] = log[i]
         /\ present' \subseteq 1..Len(log')
         /\ hist' \in Seq(Tree) /\ Len(hist') = Len(log') + 1
         /\ \A i \in 1..Len(hist) : hist'[i] = hist[i]
         /\ hist'[Len(hist')] = Effect(hist[Len(hist)], WithMark(op, FALSE))
<1>1. Last(hist) \in Tree
  BY DEF TypeOK, Last
<1>2. Effect(Last(hist), WithMark(op, FALSE)) \in Tree
  BY <1>1, WithMarkType, EffectType
<1>3. op \in Op /\ log \in Seq(Op) /\ hist \in Seq(Tree) /\ Len(hist) = Len(log) + 1
  BY DEF TypeOK
<1>4. /\ log' \in Seq(Op) /\ Len(log') = Len(log) + 1
      /\ \A i \in Ids : log'[i] = log[i]
  BY <1>3, AppendProperties DEF Accept, Ids
<1>5. present' \subseteq 1..Len(log')
  <2>1. Len(log) \in Nat /\ present \subseteq 1..Len(log) /\ present' = present \cup {Len(log) + 1}
    BY <1>3, LenProperties DEF Accept, TypeOK, Ids
  <2>2. present \cup {Len(log) + 1} \subseteq 1..(Len(log) + 1)
    BY <2>1, RangeGrows
  <2>3. Len(log') = Len(log) + 1
    BY <1>4
  <2> QED
    BY <2>1, <2>2, <2>3, Zenon
<1>6. /\ hist' \in Seq(Tree) /\ Len(hist') = Len(hist) + 1
      /\ \A i \in 1..Len(hist) : hist'[i] = hist[i]
      /\ hist'[Len(hist) + 1] = Effect(Last(hist), WithMark(op, FALSE))
  <2> DEFINE e == Effect(Last(hist), WithMark(op, FALSE))
  <2>1. e \in Tree /\ hist' = Append(hist, e)
    BY <1>2 DEF Accept
  <2> HIDE DEF e
  <2>2. /\ hist' \in Seq(Tree) /\ Len(hist') = Len(hist) + 1
        /\ \A i \in 1..Len(hist) : hist'[i] = hist[i]
        /\ hist'[Len(hist) + 1] = e
    BY <1>3, <2>1, AppendProperties
  <2> QED
    BY <2>2 DEF e
<1> QED
  BY <1>3, <1>4, <1>5, <1>6 DEF Last

-----------------------------------------------------------------------------
(* Type correctness.  InHand is what makes it inductive: the op a writer   *)
(* has in hand must be an entry of the log.                                *)

TypeInv == TypeOK /\ InHand

LEMMA CurrentInLog ==
  ASSUME TypeInv, NEW w \in Writer, wpc[w] \in {"apply", "reflect", "ack"}
  PROVE  /\ Current(w) \in batch[w] /\ Current(w) \in 1..cursor
         /\ Current(w) \in Ids /\ log[Current(w)] \in Op
<1>1. batch[w] # {} /\ batch[w] \subseteq 1..cursor /\ batch[w] \subseteq Nat
  BY DEF TypeInv, TypeOK, InHand
<1>2. Current(w) \in batch[w]
  BY <1>1, LowestIsLeast DEF Current
<1> QED
  BY <1>1, <1>2 DEF TypeInv, TypeOK, Ids

LEMMA InitType == Init => TypeInv
  BY HaAssumption, TreeAssumption
     DEF Init, TypeInv, TypeOK, InHand, Ids, EmptyTree, IdleRequest, Ask,
         Tree, Path, Body, Op, Kind, Folder

\* The steps of the replicas.
LEMMA StartType ==
  ASSUME TypeInv, NEW s \in Session, NEW asked \in Ask, NEW kind \in Kind,
         NEW p \in Path, NEW to \in Path, NEW data \in Body,
         kind = "rename" => p \in Note /\ to \in Note,
         Start(s, asked, kind, p, to, data), faults' \in 0..MaxFaults
  PROVE  TypeInv'
<1>1. [kind |-> kind, path |-> p, to |-> to, data |-> data] \in Op
  BY DEF Op
<1> QED
  BY <1>1, HaAssumption
     DEF TypeInv, TypeOK, InHand, Start, redis, leading, local, tree, Ids

LEMMA SessionType ==
  ASSUME TypeInv, NEW s \in Session, SessionStep(s)
  PROVE  TypeInv'
<1> USE HaAssumption, StartType DEF NoFault, Fails
<1>0. /\ requests + 1 \in Nat /\ faults \in 0..MaxFaults /\ Root \in Path
      /\ Folder \in Body /\ ws \in Tree /\ (faults' = faults \/ Fails("get")  => faults' \in 0..MaxFaults)
  BY DEF TypeInv, TypeOK, Folder, Body, Path
<1>1. ASSUME NEW n \in Note, NEW m \in MarkOf, StartWrite(s, n, m) PROVE TypeInv'
  <2>1. Fresh(m) \in Body
    BY <1>0 DEF Fresh, Body
  <2> QED
    BY <1>0, <1>1, <2>1 DEF StartWrite, Path, Ask, Kind
<1>x. ASSUME NEW n \in Note PROVE Extended(ws[n]) \in Body /\ Extended(None) \in Body
  BY <1>0 DEF Extended, Fresh, Body, Tree, Path
<1>2. ASSUME NEW n \in Note, StartPatch(s, n) PROVE TypeInv'
  BY <1>0, <1>2, <1>x DEF StartPatch, Path, Ask, Kind
<1>3. ASSUME NEW n \in Note, StartAppend(s, n) PROVE TypeInv'
  BY <1>0, <1>3, <1>x DEF StartAppend, Path, Ask, Kind
<1>4. ASSUME NEW n \in Note, StartRemove(s, n) PROVE TypeInv'
  BY <1>0, <1>4 DEF StartRemove, Path, Ask, Kind
<1>5. ASSUME NEW n \in Note, NEW to \in Note, StartRename(s, n, to) PROVE TypeInv'
  <2>1. ws[n] \in Body
    BY <1>0, <1>5 DEF StartRename, Tree, Path
  <2> QED
    BY <1>0, <1>5, <2>1 DEF StartRename, Path, Ask, Kind
<1>6. CASE StartMkdir(s)
  BY <1>0, <1>6 DEF StartMkdir, Ask, Kind
<1>7. CASE StartRemoveAll(s)
  BY <1>0, <1>7 DEF StartRemoveAll, Ask, Kind
<1>8. CASE Publish(s)
  <2>1. Published(ws, req[s].op) \in Tree
    BY PublishedType DEF TypeInv, TypeOK
  <2>2. ws' \in Tree /\ faults' \in 0..MaxFaults
    BY <1>0, <1>8, <2>1 DEF Publish
  <2>3. req' \in [Session -> [pc : {"idle", "publish", "enqueue"}, asked : Ask, op : Op]]
    BY <1>8 DEF Publish, TypeInv, TypeOK
  <2> QED
    BY <1>8, <2>2, <2>3 DEF Publish, TypeInv, TypeOK, InHand, leading, local, tree, Ids
<1>9. CASE Enqueue(s)
  <2>1. req[s].op \in Op /\ IdleRequest \in [pc : {"idle", "publish", "enqueue"}, asked : Ask, op : Op]
    BY DEF TypeInv, TypeOK, IdleRequest, Ask, Op, Kind, Path, Folder, Body
  <2>2. /\ log' \in Seq(Op) /\ Len(log') = Len(log) + 1
        /\ present' \subseteq Ids' /\ Ids \subseteq Ids'
        /\ hist' \in Seq(Tree) /\ Len(hist') = Len(log') + 1
    <3>1. Accept(req[s].op) /\ TypeOK /\ Len(log) \in Nat
      BY <1>9, LenProperties DEF Enqueue, TypeInv, TypeOK
    <3>2. /\ log' \in Seq(Op) /\ Len(log') = Len(log) + 1
          /\ present' \subseteq 1..Len(log')
          /\ hist' \in Seq(Tree) /\ Len(hist') = Len(log') + 1
      BY <2>1, <3>1, LogStep
    <3>3. 1..Len(log) \subseteq 1..(Len(log) + 1)
      BY <3>1
    <3> QED
      BY <3>2, <3>3 DEF Ids
  <2> QED
    BY <1>9, <2>1, <2>2 DEF Enqueue, TypeInv, TypeOK, InHand, leading, local, tree, Ids
<1>10. CASE EnqueueFails(s)
  <2>1. IdleRequest \in [pc : {"idle", "publish", "enqueue"}, asked : Ask, op : Op]
    BY DEF IdleRequest, Ask, Op, Kind, Path, Folder, Body
  <2> QED
    BY <1>10, <2>1 DEF EnqueueFails, TypeInv, TypeOK, InHand, redis, leading, local, tree, Ids
<1> QED
  BY <1>1, <1>2, <1>3, <1>4, <1>5, <1>6, <1>7, <1>8, <1>9, <1>10 DEF SessionStep

\* The steps of a writer.
LEMMA WriterType ==
  ASSUME TypeInv, NEW w \in Writer, WriterStep(w) \/ KeepCancels(w) \/ WriterFault(w)
  PROVE  TypeInv'
<1> USE HaAssumption DEF TypeInv, TypeOK, InHand, Ids, redis, leading, local, app, tree,
                         NoFault, Fails, Leave
<1>1. CASE Restart(w)
  BY <1>1 DEF Restart
<1>2. CASE Campaign(w)
  BY <1>2 DEF Campaign
<1>3. CASE EndTerm(w)
  BY <1>3 DEF EndTerm, BackToCampaign
<1>4. ASSUME NEW p \in Path, Hydrate(w, p) PROVE TypeInv'
  BY <1>4, HydratedType DEF Hydrate
<1>5. CASE HydrateDone(w)
  BY <1>5 DEF HydrateDone
<1>6. CASE Reclaim(w)
  BY <1>6 DEF Reclaim
<1>7. CASE Deliver(w)
  <2>1. ReadUpTo \in Nat /\ cursor <= ReadUpTo /\ ReadUpTo <= Len(log) /\ cursor \in Nat
    BY <1>7, LenProperties DEF ReadUpTo
  <2>2. 1..cursor \subseteq 1..ReadUpTo /\ (cursor + 1)..ReadUpTo \subseteq 1..ReadUpTo
    BY <2>1
  <2>3. /\ batch' = [batch EXCEPT ![w] = (cursor + 1)..ReadUpTo]
        /\ cursor' = ReadUpTo /\ pel' = pel \cup (cursor + 1)..ReadUpTo
        /\ wpc' = [wpc EXCEPT ![w] = "next"] /\ claimed' = [claimed EXCEPT ![w] = FALSE]
        /\ UNCHANGED <<ws, log, present, lock, live, todo, trimId, req, requests, disk, marked, done,
                       faults, hist>>
    BY <1>7 DEF Deliver
  <2>4. batch' \in [Writer -> SUBSET (1..cursor')] /\ cursor' \in 0..Len(log) /\ pel' \subseteq 1..cursor'
    BY <2>1, <2>2, <2>3
  <2>5. \A v \in Writer : v # w => wpc'[v] = wpc[v] /\ batch'[v] = batch[v]
    BY <2>3
  <2>6. done \subseteq 1..cursor'
    BY <2>2, <2>3
  <2> HIDE DEF redis, leading, local, app, tree
  <2> QED
    BY <2>3, <2>4, <2>5, <2>6
<1>8. CASE Take(w)
  BY <1>8 DEF Take
<1>9. CASE BatchDone(w)
  BY <1>9 DEF BatchDone
<1>10. CASE Apply(w)
  <2>1. /\ Current(w) \in Ids /\ log[Current(w)] \in Op
    BY <1>10, CurrentInLog DEF Apply
  <2>2. disk' \in Tree
    <3>1. PICK m \in Marks(disk[log[Current(w)].path], log[Current(w)].data,
                           log[Current(w)].path \in marked) :
                 disk' = Effect(disk, WithMark(log[Current(w)], m))
      BY <1>10 DEF Apply
    <3>2. disk[log[Current(w)].path] \in Body \cup {None} /\ log[Current(w)].data \in Body
      BY <2>1 DEF Tree, Op
    <3>3. m \in BOOLEAN
      BY <3>1, <3>2, MarkType
    <3> QED
      BY <2>1, <3>1, <3>3, WithMarkType, EffectType
  <2>3. done' \subseteq 1..cursor /\ marked' \subseteq Note
    BY <1>10, CurrentInLog DEF Apply
  <2> QED
    BY <1>10, <2>1, <2>2, <2>3 DEF Apply
<1>11. CASE Reflect(w)
  <2>1. Reflected(ws, disk, log[Current(w)]) \in Tree
    BY <1>11, CurrentInLog, ReflectedType DEF Reflect
  <2> QED
    BY <1>11, <2>1, CurrentInLog DEF Reflect
<1>12. CASE Ack(w)
  <2>1. /\ present' \subseteq present /\ pel' \subseteq pel /\ faults' \in 0..MaxFaults
        /\ wpc' = [wpc EXCEPT ![w] = "next"] /\ batch' = [batch EXCEPT ![w] = @ \ {Current(w)}]
        /\ UNCHANGED <<ws, log, cursor, lock, live, todo, claimed, trimId, req, requests,
                       disk, marked, done, hist>>
    BY <1>12 DEF Ack
  <2> QED
    BY <2>1
<1>13. CASE AckFails(w)
  BY <1>13 DEF AckFails
<1>14. CASE TrimRead(w)
  BY <1>14 DEF TrimRead
<1>15. CASE TrimPending(w)
  <2>1. pel # {} => Lowest(pel) \in Nat
    <3>1. pel \subseteq Nat
      OBVIOUS
    <3> QED
      BY <3>1, LowestIsLeast
  <2> QED
    BY <1>15, <2>1 DEF TrimPending
<1>16. CASE TrimCut(w)
  BY <1>16 DEF TrimCut
<1>17. CASE KeepCancels(w)
  BY <1>17 DEF KeepCancels
<1>18. CASE ApplyFails(w)
  BY <1>18 DEF ApplyFails
<1>19. CASE QueueFails(w)
  BY <1>19 DEF QueueFails, BackToCampaign
<1>20. CASE TrimSkip(w)
  BY <1>20 DEF TrimSkip
<1>21. CASE Crash(w)
  BY <1>21 DEF Crash
<1> QED
  BY <1>1, <1>2, <1>3, <1>4, <1>5, <1>6, <1>7, <1>8, <1>9, <1>10, <1>11, <1>12, <1>13,
     <1>14, <1>15, <1>16, <1>17, <1>18, <1>19, <1>20, <1>21
     DEF WriterStep, WriterFault

LEMMA TypeStep ==
  ASSUME TypeInv, [Next]_vars
  PROVE  TypeInv'
<1>1. CASE Expire
  BY <1>1, HaAssumption DEF Expire, TypeInv, TypeOK, InHand, Ids, redis, local, app, tree, NoFault, Fails
<1>2. CASE UNCHANGED vars
  BY <1>2 DEF vars, TypeInv, TypeOK, InHand, Ids, redis, leading, local, app, tree
<1> QED
  BY <1>1, <1>2, SessionType, WriterType DEF Next

\* Every reachable state is well typed, and a writer about to apply, reflect
\* or acknowledge has an entry of the log in hand.
THEOREM TypeCorrect == Spec => []TypeInv
  BY InitType, TypeStep, PTL DEF Spec

\* The same without the auxiliary part.
THEOREM TypesHold == Spec => []TypeOK
  BY TypeCorrect, PTL DEF TypeInv

-----------------------------------------------------------------------------
(* The stream loses nothing, whatever fails and however many writers run   *)
(* at once.  An op in hand past apply is on the tree; what a trim is about *)
(* to cut was delivered before the trim began and is not pending.          *)

HandApplied == \A w \in Writer : wpc[w] \in {"reflect", "ack"} => Current(w) \in done

TrimSafe ==
  \A w \in Writer :
    /\ wpc[w] \in {"trimPending", "trimCut"} => trimId[w] <= cursor + 1
    /\ wpc[w] = "trimCut" => \A i \in pel : trimId[w] <= i

QueueInv == NothingDropped /\ PendingKept /\ HandApplied /\ TrimSafe

LEMMA InitQueue == Init => QueueInv
  BY DEF Init, QueueInv, NothingDropped, PendingKept, HandApplied, TrimSafe, Ids, Acked

\* Most steps leave the stream alone or only add to it.
LEMMA QueueFrame ==
  ASSUME TypeInv, QueueInv, NEW w \in Writer,
         \A v \in Writer : v # w => wpc'[v] = wpc[v] /\ batch'[v] = batch[v] /\ trimId'[v] = trimId[v],
         wpc'[w] \notin {"reflect", "ack", "trimPending", "trimCut"},
         UNCHANGED <<log, present, cursor, pel, done>>
  PROVE  QueueInv'
  BY DEF QueueInv, NothingDropped, PendingKept, HandApplied, TrimSafe, Ids, Acked, Current

LEMMA SessionQueue ==
  ASSUME TypeInv, QueueInv, NEW s \in Session, SessionStep(s)
  PROVE  QueueInv'
<1>1. CASE Enqueue(s)
  <2>1. /\ Len(log') = Len(log) + 1 /\ Len(log) \in Nat
        /\ present' = present \cup {Len(log) + 1}
        /\ UNCHANGED <<cursor, pel, done, wpc, batch, trimId>>
    BY <1>1, LogStep, LenProperties
       DEF Enqueue, Accept, TypeInv, TypeOK, local, tree
  <2>2. Ids' \subseteq Ids \cup {Len(log) + 1}
    BY <2>1 DEF Ids
  <2>3. Acked' = Acked /\ \A i \in Ids' : i \notin present' => i \in Ids /\ i \notin present
    BY <2>1, <2>2 DEF Acked
  <2>4. \A i \in Ids' : i \in Acked' => i \in Ids
    BY <2>1 DEF Acked, Ids, TypeInv, TypeOK
  <2>5. NothingDropped'
    BY <2>1, <2>3, <2>4 DEF QueueInv, NothingDropped
  <2> QED
    BY <2>1, <2>5 DEF QueueInv, PendingKept, HandApplied, TrimSafe, Current
<1>2. CASE ~Enqueue(s)
  <2>1. UNCHANGED <<log, present, cursor, pel, done, wpc, batch, trimId>>
    BY <1>2 DEF SessionStep, StartWrite, StartPatch, StartAppend, StartRemove, StartRename,
                StartMkdir, StartRemoveAll, Start, Publish, EnqueueFails, redis, local, tree
  <2> QED
    BY <2>1 DEF QueueInv, NothingDropped, PendingKept, HandApplied, TrimSafe, Ids, Acked, Current
<1> QED
  BY <1>1, <1>2

LEMMA WriterQueue ==
  ASSUME TypeInv, QueueInv, NEW w \in Writer,
         WriterStep(w) \/ KeepCancels(w) \/ WriterFault(w)
  PROVE  QueueInv'
<1> USE DEF TypeInv, TypeOK
<1>1. CASE \/ Restart(w) \/ Campaign(w) \/ EndTerm(w) \/ (\E p \in Path : Hydrate(w, p))
           \/ HydrateDone(w) \/ Reclaim(w) \/ Take(w) \/ BatchDone(w) \/ AckFails(w)
           \/ ApplyFails(w) \/ QueueFails(w) \/ TrimSkip(w) \/ Crash(w)
  BY <1>1, QueueFrame
     DEF Restart, Campaign, EndTerm, Hydrate, HydrateDone, Reclaim, Take, BatchDone, AckFails,
         ApplyFails, QueueFails, TrimSkip, Crash, BackToCampaign, Leave, redis, tree, local
<1>2. CASE Deliver(w)
  <2>1. ReadUpTo \in Nat /\ cursor <= ReadUpTo /\ ReadUpTo <= Len(log) /\ cursor \in Nat
    BY <1>2, HaAssumption, LenProperties DEF ReadUpTo, Ids
  <2>2. /\ cursor' = ReadUpTo /\ pel' = pel \cup (cursor + 1)..ReadUpTo
        /\ wpc' = [wpc EXCEPT ![w] = "next"] /\ batch' = [batch EXCEPT ![w] = (cursor + 1)..ReadUpTo]
        /\ UNCHANGED <<log, present, trimId, done>>
    BY <1>2 DEF Deliver, tree
  <2>3. \A i \in (cursor + 1)..ReadUpTo : i \in Ids /\ i \notin 1..cursor /\ cursor + 1 <= i
    BY <2>1 DEF Ids
  <2>4. Acked' \subseteq Acked
    BY <2>1, <2>2 DEF Acked
  <2>5. NothingDropped'
    BY <2>2, <2>4 DEF QueueInv, NothingDropped, Ids
  <2>6. \A i \in (cursor + 1)..ReadUpTo : i \in present
    BY <2>1, <2>3 DEF QueueInv, NothingDropped
  <2> QED
    BY <2>1, <2>2, <2>3, <2>5, <2>6 DEF QueueInv, PendingKept, HandApplied, TrimSafe, Current
<1>3. CASE Apply(w)
  <2>1. Current(w) \in 1..cursor
    BY <1>3, CurrentInLog DEF Apply
  <2>2. /\ wpc' = [wpc EXCEPT ![w] = "reflect"] /\ done' = done \cup {Current(w)}
        /\ UNCHANGED <<log, present, cursor, pel, batch, trimId>>
    BY <1>3 DEF Apply, redis
  <2> QED
    BY <2>2 DEF QueueInv, NothingDropped, PendingKept, HandApplied, TrimSafe, Ids, Acked, Current
<1>4. CASE Reflect(w)
  BY <1>4 DEF Reflect, QueueInv, NothingDropped, PendingKept, HandApplied, TrimSafe, Ids, Acked,
              Current, tree
<1>5. CASE Ack(w)
  <2>1. /\ wpc' = [wpc EXCEPT ![w] = "next"] /\ pel' = pel \ {Current(w)}
        /\ present' \subseteq present /\ present \ {Current(w)} \subseteq present'
        /\ \A v \in Writer : v # w => batch'[v] = batch[v]
        /\ Current(w) \in done
        /\ UNCHANGED <<log, cursor, done, trimId>>
    BY <1>5 DEF Ack, Leave, tree, QueueInv, HandApplied
  <2> QED
    BY <2>1 DEF QueueInv, NothingDropped, PendingKept, HandApplied, TrimSafe, Ids, Acked, Current
<1>6. CASE TrimRead(w)
  <2>1. /\ trimId' = [trimId EXCEPT ![w] = cursor + 1]
        /\ wpc' = [wpc EXCEPT ![w] = IF cursor = 0 THEN "read" ELSE "trimPending"]
        /\ cursor \in Nat
        /\ UNCHANGED <<log, present, cursor, pel, done, batch>>
    BY <1>6 DEF TrimRead, redis, tree
  <2> QED
    BY <2>1 DEF QueueInv, NothingDropped, PendingKept, HandApplied, TrimSafe, Ids, Acked, Current
<1>7. CASE TrimPending(w)
  <2>1. /\ trimId' = [trimId EXCEPT ![w] = IF pel = {} THEN trimId[w] ELSE Lowest(pel)]
        /\ wpc' = [wpc EXCEPT ![w] = "trimCut"]
        /\ trimId[w] <= cursor + 1
        /\ cursor \in Nat
        /\ UNCHANGED <<log, present, cursor, pel, done, batch>>
    BY <1>7 DEF TrimPending, redis, tree, QueueInv, TrimSafe
  <2>2. pel # {} => Lowest(pel) \in pel /\ \A i \in pel : Lowest(pel) <= i
    <3>1. pel \subseteq Nat
      BY <2>1
    <3> QED
      BY <3>1, LowestIsLeast
  <2>3. trimId'[w] <= cursor + 1 /\ \A i \in pel : trimId'[w] <= i
    <3>1. CASE pel = {}
      BY <2>1, <3>1
    <3>2. CASE pel # {}
      <4>1. trimId'[w] = Lowest(pel)
        BY <2>1, <3>2
      <4>2. Lowest(pel) \in 1..cursor
        BY <2>1, <2>2, <3>2
      <4> QED
        BY <2>1, <2>2, <3>2, <4>1, <4>2
    <3> QED
      BY <3>1, <3>2
  <2> QED
    BY <2>1, <2>3 DEF QueueInv, NothingDropped, PendingKept, HandApplied, TrimSafe, Ids, Acked, Current
<1>8. CASE TrimCut(w)
  <2>1. /\ present' = {i \in present : i >= trimId[w]}
        /\ wpc' = [wpc EXCEPT ![w] = "read"]
        /\ trimId[w] <= cursor + 1 /\ trimId[w] \in Nat /\ cursor \in Nat
        /\ \A i \in pel : trimId[w] <= i
        /\ UNCHANGED <<log, cursor, pel, done, batch, trimId>>
    BY <1>8 DEF TrimCut, tree, QueueInv, TrimSafe
  <2>2. \A i \in Ids : i \notin present' => i \in done
    <3> SUFFICES ASSUME NEW i \in Ids, i \in present, i < trimId[w] PROVE i \in done
      BY <2>1 DEF QueueInv, NothingDropped, Ids
    <3>1. i \in 1..cursor /\ i \notin pel
      BY <2>1 DEF Ids
    <3> QED
      BY <3>1 DEF QueueInv, NothingDropped, Acked
  <2>3. \A i \in pel : i \in present'
    BY <2>1 DEF QueueInv, PendingKept
  <2> QED
    BY <2>1, <2>2, <2>3
       DEF QueueInv, NothingDropped, PendingKept, HandApplied, TrimSafe, Ids, Acked, Current
<1>9. CASE KeepCancels(w)
  BY <1>9 DEF KeepCancels, redis, local, tree,
              QueueInv, NothingDropped, PendingKept, HandApplied, TrimSafe, Ids, Acked, Current
<1> QED
  BY <1>1, <1>2, <1>3, <1>4, <1>5, <1>6, <1>7, <1>8, <1>9 DEF WriterStep, WriterFault

LEMMA QueueStep ==
  ASSUME TypeInv, QueueInv, [Next]_vars
  PROVE  QueueInv'
<1>1. CASE Expire
  BY <1>1 DEF Expire, redis, local, tree,
              QueueInv, NothingDropped, PendingKept, HandApplied, TrimSafe, Ids, Acked, Current
<1>2. CASE UNCHANGED vars
  BY <1>2 DEF vars, redis, local, tree,
              QueueInv, NothingDropped, PendingKept, HandApplied, TrimSafe, Ids, Acked, Current
<1> QED
  BY <1>1, <1>2, SessionQueue, WriterQueue DEF Next

\* No accepted op is lost between the stream and the tree, for any number of
\* replicas and writers and every fault of the model: crashes, lost locks,
\* writers that run on after losing theirs, failed acks, deletes and trims
\* (Consume, reclaimPending, applyAndAck, trimApplied).
THEOREM QueueSafe == Spec => []QueueKept
<1>1. QueueInv => QueueKept
  BY DEF QueueInv, QueueKept
<1> QED
  BY <1>1, InitQueue, QueueStep, TypeCorrect, PTL DEF Spec

-----------------------------------------------------------------------------
(* The tree.                                                               *)

LEMMA TextOfType ==
  ASSUME NEW t \in Tree
  PROVE  TextOf(t) \in Tree
  BY DEF TextOf, Tree, Unmarked, Body

\* Markers apart, an op does to the tree what it does to the text.
LEMMA TextCommutes ==
  ASSUME NEW t \in Tree, NEW op \in Op, NEW m \in BOOLEAN
  PROVE  TextOf(Effect(t, WithMark(op, m))) = Effect(TextOf(t), WithMark(op, FALSE))
<1>1. /\ WithMark(op, m).kind = op.kind /\ WithMark(op, m).path = op.path
      /\ WithMark(op, m).to = op.to
      /\ WithMark(op, m).data = [text |-> op.data.text, mark |-> m]
  BY DEF WithMark, Op
<1>2. /\ WithMark(op, FALSE).kind = op.kind /\ WithMark(op, FALSE).path = op.path
      /\ WithMark(op, FALSE).to = op.to
      /\ WithMark(op, FALSE).data = [text |-> op.data.text, mark |-> FALSE]
  BY DEF WithMark, Op
<1>3. LinkedOp(WithMark(op, m)) = LinkedOp(op) /\ LinkedOp(WithMark(op, FALSE)) = LinkedOp(op)
  BY <1>1, <1>2 DEF LinkedOp
<1>4. /\ [text |-> op.data.text, mark |-> m] # None /\ Folder # None
      /\ Unmarked([text |-> op.data.text, mark |-> m]) = [text |-> op.data.text, mark |-> FALSE]
      /\ Unmarked(Folder) = Folder /\ Unmarked(None) = None
      /\ \A b \in Body \cup {None} : Unmarked(b) = None <=> b = None
      /\ op.path \in Path /\ op.to \in Path /\ Root \in Path
  <2>1. op.data.text \in SUBSET Nat /\ op.path \in Path /\ op.to \in Path /\ Root \in Path
    BY DEF Op, Body, Path
  <2>2. /\ [text |-> op.data.text, mark |-> m] \in Body
        /\ [text |-> op.data.text, mark |-> FALSE] \in Body /\ Folder \in Body
    BY <2>1 DEF Body, Folder
  <2>3. None \notin Body
    BY TreeAssumption DEF Body
  <2>4. Unmarked([text |-> op.data.text, mark |-> m]) = [text |-> op.data.text, mark |-> FALSE]
    BY <2>2, <2>3 DEF Unmarked
  <2>5. Unmarked(Folder) = Folder
    BY <2>2, <2>3 DEF Unmarked, Folder
  <2>6. \A b \in Body \cup {None} : Unmarked(b) = None <=> b = None
    <3> SUFFICES ASSUME NEW b \in Body PROVE Unmarked(b) # None
      BY <2>3 DEF Unmarked
    <3>1. Unmarked(b) \in Body
      BY <2>3 DEF Unmarked, Body
    <3> QED
      BY <2>3, <3>1
  <2> QED
    BY <2>1, <2>2, <2>3, <2>4, <2>5, <2>6 DEF Unmarked
<1>5. CASE LinkedOp(op)
  BY <1>3, <1>5 DEF Effect
<1>6. CASE ~LinkedOp(op) /\ op.kind = "write"
  <2> DEFINE d(b) == [text |-> op.data.text, mark |-> b]
  <2>1. /\ Effect(t, WithMark(op, m)) = [t EXCEPT ![Root] = Folder, ![op.path] = d(m)]
        /\ Effect(TextOf(t), WithMark(op, FALSE))
             = [TextOf(t) EXCEPT ![Root] = Folder, ![op.path] = d(FALSE)]
    BY <1>1, <1>2, <1>3, <1>6 DEF Effect
  <2>2. Unmarked(d(m)) = d(FALSE)
    BY <1>4
  <2> HIDE DEF d
  <2>3. TextOf([t EXCEPT ![Root] = Folder, ![op.path] = d(m)])
          = [TextOf(t) EXCEPT ![Root] = Folder, ![op.path] = d(FALSE)]
    BY <1>4, <2>2 DEF TextOf, Tree
  <2> QED
    BY <2>1, <2>3
<1>7. CASE ~LinkedOp(op) /\ op.kind = "remove"
  BY <1>1, <1>2, <1>3, <1>4, <1>7 DEF Effect, TextOf, Tree
<1>8. CASE ~LinkedOp(op) /\ op.kind = "removeAll"
  BY <1>1, <1>2, <1>3, <1>4, <1>8 DEF Effect, TextOf, Tree, EmptyTree
<1>9. CASE ~LinkedOp(op) /\ op.kind = "rename"
  <2>1. CASE t[op.path] = None
    BY <1>1, <1>2, <1>3, <1>4, <1>9, <2>1 DEF Effect, TextOf, Tree
  <2>2. CASE t[op.path] # None
    BY <1>1, <1>2, <1>3, <1>4, <1>9, <2>2 DEF Effect, TextOf, Tree
  <2> QED
    BY <2>1, <2>2
<1>10. CASE ~LinkedOp(op) /\ op.kind = "mkdir"
  BY <1>1, <1>2, <1>3, <1>4, <1>10 DEF Effect, TextOf, Tree
<1> QED
  BY <1>5, <1>6, <1>7, <1>8, <1>9, <1>10 DEF Op, Kind

\* Applying an op a second time, right after the first, changes nothing.
LEMMA EffectIdempotent ==
  ASSUME NEW t \in Tree, NEW op \in Op
  PROVE  Effect(Effect(t, op), op) = Effect(t, op)
<1>1. op.path \in Path /\ op.to \in Path /\ Root \in Path /\ op.data # None
  BY TreeAssumption DEF Op, Path, Body
<1>2. CASE LinkedOp(op)
  BY <1>2 DEF Effect
<1>3. CASE ~LinkedOp(op) /\ op.kind \in {"write", "mkdir", "remove", "removeAll"}
  BY <1>1, <1>3 DEF Effect, Tree, EmptyTree
<1>4. CASE ~LinkedOp(op) /\ op.kind = "rename"
  <2>1. op.path # Root /\ op.to # Root
    BY <1>4, TreeAssumption DEF Op
  <2>2. CASE t[op.path] = None
    BY <1>1, <1>4, <2>1, <2>2 DEF Effect, Tree
  <2>3. CASE t[op.path] # None
    <3> DEFINE u == [t EXCEPT ![Root] = Folder, ![op.to] = t[op.path], ![op.path] = None]
    <3>1. Effect(t, op) = u
      BY <1>4, <2>3 DEF Effect
    <3>2. u[op.path] = None /\ u[Root] = Folder /\ u \in [Path -> Body \cup {None}]
      BY <1>1, <2>1 DEF Tree, Folder, Body
    <3> HIDE DEF u
    <3>3. Effect(u, op) = u
      BY <1>1, <1>4, <3>2 DEF Effect
    <3> QED
      BY <3>1, <3>3
  <2> QED
    BY <2>2, <2>3
<1> QED
  BY <1>2, <1>3, <1>4 DEF Op, Kind

-----------------------------------------------------------------------------
(* One writer at a time.                                                   *)

InTerm(w) == wpc[w] \notin {"down", "campaign"}

TermInv == \A w \in Writer : (live[w] <=> InTerm(w)) /\ (live[w] => lock = w)

LEMMA TermStep ==
  ASSUME Orderly, TypeInv, TermInv, [Next]_vars
  PROVE  TermInv'
<1> USE DEF TypeInv, TypeOK, TermInv, InTerm
<1>0. ~Fails("expire") /\ ~Fails("renew")
  BY DEF Orderly, Fails
<1>1. ASSUME NEW s \in Session, SessionStep(s) PROVE TermInv'
  BY <1>1 DEF SessionStep, StartWrite, StartPatch, StartAppend, StartRemove, StartRename, StartMkdir,
              StartRemoveAll, Start, Publish, Enqueue, EnqueueFails, leading, local
<1>2. ASSUME NEW w \in Writer, Campaign(w) PROVE TermInv'
  <2>1. \A v \in Writer : ~live[v]
    BY <1>2, HaAssumption DEF Campaign
  <2> QED
    BY <1>2, <2>1 DEF Campaign
<1>3. ASSUME NEW w \in Writer, QueueFails(w) PROVE TermInv'
  <2>1. \A v \in Writer : v # w => ~live[v]
    BY <1>3 DEF QueueFails
  <2> QED
    BY <1>3, <2>1 DEF QueueFails, BackToCampaign
<1>4. ASSUME NEW w \in Writer, KeepCancels(w) PROVE TermInv'
  BY <1>0, <1>4 DEF KeepCancels
<1>5. ASSUME NEW w \in Writer, WriterStep(w) \/ WriterFault(w), ~Campaign(w), ~QueueFails(w)
      PROVE  TermInv'
  BY <1>5 DEF WriterStep, WriterFault, Restart, EndTerm, Hydrate, HydrateDone, Reclaim, Deliver,
      Take, BatchDone, Apply, Reflect, Ack, AckFails, TrimRead, TrimPending, TrimCut, ApplyFails,
      TrimSkip, Crash, BackToCampaign, Leave, leading
<1>6. CASE Expire
  BY <1>0, <1>6, HaAssumption DEF Expire, local
<1>7. CASE UNCHANGED vars
  BY <1>7 DEF vars, leading, local
<1> QED
  BY <1>1, <1>2, <1>3, <1>4, <1>5, <1>6, <1>7 DEF Next

-----------------------------------------------------------------------------
(* The order of the stream.  The first a ops are acknowledged; the tree    *)
(* holds the first k, which is one more while op a + 1 is applied and not  *)
(* yet acknowledged, also across a crash.                                  *)

Settled(a, k) ==
  /\ k \in {a, a + 1} /\ k <= cursor
  /\ pel = (a + 1)..cursor
  /\ done = 1..k
  /\ TextOf(disk) = hist[k + 1]

BatchInv ==
  \A w \in Writer :
    /\ wpc[w] \in {"next", "apply", "reflect", "ack"} => batch[w] = pel
    /\ wpc[w] \in {"read", "trim", "trimPending", "trimCut"} => pel = {}

HistInv ==
  /\ hist[1] = EmptyTree
  /\ \A i \in Ids : hist[i + 1] = Effect(hist[i], WithMark(log[i], FALSE))

OrderInv == TermInv /\ BatchInv /\ HistInv /\ \E a, k \in Nat : Settled(a, k)

LEMMA InitOrder == Init => OrderInv
<1> SUFFICES ASSUME Init PROVE OrderInv
  OBVIOUS
<1>1. TermInv /\ BatchInv /\ HistInv
  BY DEF Init, TermInv, InTerm, BatchInv, HistInv, Ids
<1>2. TextOf(disk) = hist[1]
  BY DEF Init, TextOf, EmptyTree, Unmarked
<1>3. Settled(0, 0)
  BY <1>2 DEF Init, Settled
<1> QED
  BY <1>1, <1>3 DEF OrderInv

\* Steps that touch neither the stream nor the tree.
LEMMA OrderFrame ==
  ASSUME TypeInv, OrderInv, TermInv', BatchInv', UNCHANGED <<log, cursor, pel, hist, disk, done>>
  PROVE  OrderInv'
<1>1. HistInv'
  BY DEF OrderInv, HistInv, Ids
<1>2. PICK a \in Nat, k \in Nat : Settled(a, k)
  BY DEF OrderInv
<1>3. Settled(a, k)'
  BY <1>2 DEF Settled, TextOf
<1> QED
  BY <1>1, <1>3 DEF OrderInv

\* At most one writer is in a term.
LEMMA Alone ==
  ASSUME TermInv, NEW w \in Writer, NEW v \in Writer, InTerm(w), v # w
  PROVE  wpc[v] \in {"down", "campaign"}
  BY DEF TermInv, InTerm

LEMMA CurrentIsNext ==
  ASSUME TypeInv, BatchInv, NEW a \in Nat, pel = (a + 1)..cursor,
         NEW w \in Writer, wpc[w] \in {"apply", "reflect", "ack"}
  PROVE  Current(w) = a + 1 /\ a + 1 <= cursor /\ a + 1 \in Ids
<1>1. Current(w) \in (a + 1)..cursor /\ batch[w] = (a + 1)..cursor
  BY CurrentInLog DEF BatchInv
<1>2. cursor \in Nat /\ cursor <= Len(log) /\ Len(log) \in Nat
  BY LenProperties DEF TypeInv, TypeOK
<1>3. a + 1 \in batch[w] /\ batch[w] \subseteq Nat
  BY <1>1, <1>2
<1>4. \A j \in batch[w] : Current(w) <= j
  BY <1>3, LowestIsLeast DEF Current
<1> QED
  BY <1>1, <1>2, <1>3, <1>4 DEF Ids

LEMMA EnqueueOrder ==
  ASSUME TypeInv, OrderInv, TermInv', NEW s \in Session, Enqueue(s)
  PROVE  OrderInv'
<1>1. req[s].op \in Op /\ Accept(req[s].op) /\ TypeOK
  BY DEF TypeInv, TypeOK, Enqueue
<1>2. /\ Len(log') = Len(log) + 1 /\ \A i \in Ids : log'[i] = log[i]
      /\ Len(hist') = Len(log') + 1 /\ \A i \in 1..Len(hist) : hist'[i] = hist[i]
      /\ hist'[Len(hist')] = Effect(hist[Len(hist)], WithMark(req[s].op, FALSE))
      /\ Len(hist) = Len(log) + 1 /\ Len(log) \in Nat /\ cursor \in 0..Len(log)
  BY <1>1, LogStep, LenProperties DEF TypeOK
<1>3. log'[Len(log) + 1] = req[s].op
  BY <1>1, AppendProperties DEF Accept, TypeOK
<1>4. UNCHANGED <<cursor, pel, done, disk, wpc, batch>>
  BY DEF Enqueue, local, tree
<1>5. HistInv'
  <2>1. hist'[1] = hist[1]
    BY <1>2
  <2>2. ASSUME NEW i \in Ids' PROVE hist'[i + 1] = Effect(hist'[i], WithMark(log'[i], FALSE))
    <3>1. CASE i \in Ids
      <4>1. i \in 1..Len(hist) /\ i + 1 \in 1..Len(hist)
        BY <1>2, <3>1 DEF Ids
      <4> QED
        BY <1>2, <3>1, <4>1 DEF OrderInv, HistInv
    <3>2. CASE i \notin Ids
      <4>1. i = Len(log) + 1 /\ i \in 1..Len(hist) /\ i = Len(hist) /\ i + 1 = Len(hist')
        BY <1>2, <3>2 DEF Ids
      <4> QED
        BY <1>2, <1>3, <4>1
    <3> QED
      BY <3>1, <3>2
  <2> QED
    BY <2>1, <2>2 DEF OrderInv, HistInv
<1>6. PICK a \in Nat, k \in Nat : Settled(a, k)
  BY DEF OrderInv
<1>7. k + 1 \in 1..Len(hist)
  BY <1>2, <1>6 DEF Settled
<1>8. Settled(a, k)'
  BY <1>2, <1>4, <1>6, <1>7 DEF Settled, TextOf
<1> QED
  BY <1>4, <1>5, <1>8 DEF OrderInv, BatchInv

LEMMA DeliverOrder ==
  ASSUME TypeInv, OrderInv, TermInv', NEW w \in Writer, Deliver(w)
  PROVE  OrderInv'
<1>1. ReadUpTo \in Nat /\ cursor <= ReadUpTo /\ ReadUpTo <= Len(log) /\ cursor \in Nat
  BY HaAssumption, LenProperties DEF ReadUpTo, TypeInv, TypeOK
<1>2. /\ cursor' = ReadUpTo /\ pel' = pel \cup (cursor + 1)..ReadUpTo
      /\ wpc' = [wpc EXCEPT ![w] = "next"] /\ batch' = [batch EXCEPT ![w] = (cursor + 1)..ReadUpTo]
      /\ UNCHANGED <<log, disk, done, hist>> /\ wpc[w] = "read"
  BY DEF Deliver, tree
<1>3. PICK a \in Nat, k \in Nat : Settled(a, k)
  BY DEF OrderInv
<1>4. pel = {}
  BY <1>2 DEF OrderInv, BatchInv
<1>5. ~(a + 1 <= cursor)
  BY <1>1, <1>3, <1>4 DEF Settled
<1>6. k = cursor
  BY <1>1, <1>3, <1>5 DEF Settled
<1>7. Settled(k, k)'
  <2>1. pel' = (k + 1)..cursor'
    BY <1>2, <1>4, <1>6
  <2>2. TextOf(disk)' = TextOf(disk) /\ done' = done /\ hist' = hist
    BY <1>2 DEF TextOf
  <2>3. k <= cursor' /\ done = 1..k /\ TextOf(disk) = hist[k + 1]
    BY <1>1, <1>2, <1>3, <1>6 DEF Settled
  <2> QED
    BY <2>1, <2>2, <2>3 DEF Settled
<1>8. BatchInv'
  <2>1. DOMAIN batch = Writer /\ DOMAIN wpc = Writer
    BY DEF TypeInv, TypeOK
  <2>2. wpc'[w] = "next"
    BY <1>2, <2>1
  <2>3. batch'[w] = pel'
    BY <1>2, <1>4, <2>1
  <2>4. \A v \in Writer : v # w => wpc[v] \in {"down", "campaign"}
    BY <1>2, Alone DEF OrderInv, InTerm
  <2>5. \A v \in Writer : v # w => wpc'[v] \in {"down", "campaign"}
    BY <1>2, <2>1, <2>4
  <2> QED
    BY <2>2, <2>3, <2>5 DEF BatchInv
<1>9. HistInv'
  BY <1>2 DEF OrderInv, HistInv, Ids
<1> QED
  BY <1>1, <1>3, <1>7, <1>8, <1>9 DEF OrderInv

\* Op a + 1 reaches the tree for the first time, or again after a crash.
LEMMA ApplyOrder ==
  ASSUME TypeInv, OrderInv, TermInv', NEW w \in Writer, Apply(w)
  PROVE  OrderInv'
<1> DEFINE op == log[Current(w)]
<1>1. /\ wpc[w] = "apply" /\ done' = done \cup {Current(w)}
      /\ wpc' = [wpc EXCEPT ![w] = "reflect"]
      /\ UNCHANGED <<log, cursor, pel, batch, hist>>
  BY DEF Apply, redis
<1>2. PICK a \in Nat, k \in Nat : Settled(a, k)
  BY DEF OrderInv
<1>3. Current(w) = a + 1 /\ a + 1 <= cursor /\ a + 1 \in Ids /\ op \in Op
  BY <1>1, <1>2, CurrentIsNext, CurrentInLog DEF OrderInv, Settled
<1>4. TextOf(disk)' = Effect(TextOf(disk), WithMark(op, FALSE))
  <2>1. PICK m \in Marks(disk[op.path], op.data, op.path \in marked) :
          disk' = Effect(disk, WithMark(op, m))
    BY DEF Apply
  <2>2. disk \in Tree /\ disk[op.path] \in Body \cup {None} /\ op.data \in Body
    BY <1>3 DEF TypeInv, TypeOK, Tree, Op
  <2>3. m \in BOOLEAN
    BY <2>1, <2>2, MarkType
  <2>4. TextOf(disk') = Effect(TextOf(disk), WithMark(op, FALSE))
    BY <1>3, <2>1, <2>2, <2>3, TextCommutes
  <2> QED
    BY <2>4 DEF TextOf
<1>5. hist[a + 2] = Effect(hist[a + 1], WithMark(op, FALSE))
  <2>1. (a + 1) + 1 = a + 2
    OBVIOUS
  <2> QED
    BY <1>3, <2>1 DEF OrderInv, HistInv
<1>6. TextOf(disk)' = hist[a + 2]
  <2>1. CASE k = a
    BY <1>2, <1>4, <1>5, <2>1 DEF Settled
  <2>2. CASE k = a + 1
    <3>1. TextOf(disk) = hist[a + 2]
      BY <1>2, <2>2 DEF Settled
    <3>2. hist[a + 1] \in Tree /\ WithMark(op, FALSE) \in Op
      <4>1. hist \in Seq(Tree) /\ Len(hist) = Len(log) + 1 /\ Len(log) \in Nat
        BY LenProperties DEF TypeInv, TypeOK
      <4>2. a + 1 \in 1..Len(hist)
        BY <1>3, <4>1 DEF Ids
      <4> QED
        BY <1>3, <4>1, <4>2, WithMarkType, ElementOfSeq
    <3> QED
      BY <1>4, <1>5, <3>1, <3>2, EffectIdempotent
  <2> QED
    BY <1>2, <2>1, <2>2 DEF Settled
<1> HIDE DEF op
<1>7. Settled(a, a + 1)'
  <2>1. done' = 1..(a + 1)
    BY <1>1, <1>2, <1>3 DEF Settled
  <2>2. pel' = (a + 1)..cursor' /\ a + 1 <= cursor' /\ hist' = hist
    BY <1>1, <1>2, <1>3 DEF Settled
  <2>3. (a + 1) + 1 = a + 2
    OBVIOUS
  <2> QED
    BY <1>6, <2>1, <2>2, <2>3 DEF Settled
<1>8. BatchInv'
  <2>1. DOMAIN wpc = Writer
    BY DEF TypeInv, TypeOK
  <2> QED
    BY <1>1, <2>1 DEF OrderInv, BatchInv
<1>9. HistInv'
  BY <1>1 DEF OrderInv, HistInv, Ids
<1> QED
  BY <1>7, <1>8, <1>9, <1>3, TermInv' DEF OrderInv

\* Op a + 1 is acknowledged.
LEMMA AckOrder ==
  ASSUME TypeInv, QueueInv, OrderInv, TermInv', NEW w \in Writer, Ack(w)
  PROVE  OrderInv'
<1>1. /\ wpc[w] = "ack" /\ pel' = pel \ {Current(w)}
      /\ wpc' = [wpc EXCEPT ![w] = "next"]
      /\ batch' = [batch EXCEPT ![w] = @ \ {Current(w)}]
      /\ UNCHANGED <<log, cursor, done, disk, hist>>
  BY DEF Ack, tree, Leave
<1>2. PICK a \in Nat, k \in Nat : Settled(a, k)
  BY DEF OrderInv
<1>3. Current(w) = a + 1 /\ a + 1 <= cursor /\ a + 1 \in Ids
  BY <1>1, <1>2, CurrentIsNext DEF OrderInv, Settled
<1>4. k = a + 1
  <2>1. a + 1 \in 1..k
    BY <1>1, <1>2, <1>3 DEF QueueInv, HandApplied, Settled
  <2> QED
    BY <1>2, <2>1 DEF Settled
<1>5. Settled(k, k)'
  <2>1. cursor \in Nat
    BY LenProperties DEF TypeInv, TypeOK
  <2>2. pel' = (k + 1)..cursor'
    BY <1>1, <1>2, <1>3, <1>4, <2>1 DEF Settled
  <2>3. TextOf(disk)' = TextOf(disk)
    BY <1>1 DEF TextOf
  <2> QED
    BY <1>1, <1>2, <2>2, <2>3 DEF Settled
<1>6. BatchInv'
  <2>1. DOMAIN wpc = Writer /\ DOMAIN batch = Writer
    BY DEF TypeInv, TypeOK
  <2>2. batch'[w] = pel' /\ wpc'[w] = "next"
    BY <1>1, <2>1 DEF OrderInv, BatchInv
  <2>3. \A v \in Writer : v # w => wpc[v] \in {"down", "campaign"}
    BY <1>1, Alone DEF OrderInv, InTerm
  <2>4. \A v \in Writer : v # w => wpc'[v] \in {"down", "campaign"}
    BY <1>1, <2>1, <2>3
  <2> QED
    BY <2>2, <2>4 DEF BatchInv
<1>7. HistInv'
  BY <1>1 DEF OrderInv, HistInv, Ids
<1> QED
  BY <1>5, <1>6, <1>7, <1>2, TermInv' DEF OrderInv

\* The steps of the replicas.
LEMMA SessionOrder ==
  ASSUME TypeInv, OrderInv, TermInv', NEW s \in Session, SessionStep(s)
  PROVE  OrderInv'
<1>1. CASE Enqueue(s)
  BY <1>1, EnqueueOrder
<1>2. CASE ~Enqueue(s)
  <2>1. UNCHANGED <<log, cursor, pel, hist, disk, done, wpc, batch>>
    BY <1>2 DEF SessionStep, StartWrite, StartPatch, StartAppend, StartRemove, StartRename, StartMkdir,
         StartRemoveAll, Start, Publish, EnqueueFails, redis, local, tree
  <2> QED
    BY <2>1, OrderFrame DEF OrderInv, BatchInv
<1> QED
  BY <1>1, <1>2

\* A writer that leaves its term, or moves on without the stream or the tree.
LEMMA WriterOrder ==
  ASSUME Orderly, TypeInv, QueueInv, OrderInv, TermInv',
         NEW w \in Writer, WriterStep(w) \/ KeepCancels(w) \/ WriterFault(w)
  PROVE  OrderInv'
<1>0. ~Fails("renew") /\ ~Fails("apply") /\ ~Fails("ack")
  BY DEF Orderly, Fails
<1>1. CASE Deliver(w)
  BY <1>1, DeliverOrder
<1>2. CASE Apply(w)
  BY <1>2, ApplyOrder
<1>3. CASE Ack(w)
  BY <1>3, AckOrder
<1>4. DOMAIN wpc = Writer /\ DOMAIN batch = Writer
  BY DEF TypeInv, TypeOK
<1>5. CASE Restart(w) \/ Campaign(w) \/ EndTerm(w) \/ QueueFails(w) \/ Crash(w)
  <2>1. /\ UNCHANGED <<log, cursor, pel, hist, disk, done>>
        /\ \A v \in Writer : v # w => wpc'[v] = wpc[v] /\ batch'[v] = batch[v]
    BY <1>4, <1>5 DEF Restart, Campaign, EndTerm, QueueFails, Crash, BackToCampaign, redis, tree
  <2>2. wpc'[w] \in {"campaign", "down", "hydrate"}
    BY <1>4, <1>5 DEF Restart, Campaign, EndTerm, QueueFails, Crash, BackToCampaign
  <2>3. BatchInv'
    BY <2>1, <2>2 DEF OrderInv, BatchInv
  <2> QED
    BY <2>1, <2>3, OrderFrame
<1>6. CASE \/ (\E p \in Path : Hydrate(w, p)) \/ HydrateDone(w) \/ Take(w) \/ Reflect(w)
           \/ TrimRead(w) \/ TrimPending(w) \/ TrimCut(w) \/ TrimSkip(w)
  <2>1. /\ UNCHANGED <<log, cursor, pel, hist, disk, done, batch>>
        /\ \A v \in Writer : v # w => wpc'[v] = wpc[v]
    BY <1>4, <1>6 DEF Hydrate, HydrateDone, Take, Reflect, TrimRead, TrimPending, TrimCut, TrimSkip,
         redis, tree
  <2>2. \/ wpc'[w] \in {"hydrate", "claim"}
        \/ wpc[w] = "next" /\ wpc'[w] = "apply"
        \/ wpc[w] = "reflect" /\ wpc'[w] = "ack"
        \/ /\ wpc[w] \in {"trim", "trimPending", "trimCut"}
           /\ wpc'[w] \in {"read", "trimPending", "trimCut"}
    BY <1>4, <1>6 DEF Hydrate, HydrateDone, Take, Reflect, TrimRead, TrimPending, TrimCut, TrimSkip
  <2>3. BatchInv'
    BY <2>1, <2>2 DEF OrderInv, BatchInv
  <2> QED
    BY <2>1, <2>3, OrderFrame
<1>7. CASE Reclaim(w)
  <2>1. /\ UNCHANGED <<log, cursor, pel, hist, disk, done>>
        /\ wpc'[w] = "next" /\ batch'[w] = pel
        /\ \A v \in Writer : v # w => wpc'[v] = wpc[v] /\ batch'[v] = batch[v]
    BY <1>4, <1>7 DEF Reclaim, redis, tree
  <2>2. BatchInv'
    BY <2>1 DEF OrderInv, BatchInv
  <2> QED
    BY <2>1, <2>2, OrderFrame
<1>8. CASE BatchDone(w)
  <2>1. /\ UNCHANGED <<log, cursor, pel, hist, disk, done, batch>>
        /\ wpc'[w] = "trim" /\ wpc[w] = "next" /\ batch[w] = {}
        /\ \A v \in Writer : v # w => wpc'[v] = wpc[v]
    BY <1>4, <1>8 DEF BatchDone, redis, tree
  <2>2. BatchInv'
    BY <2>1 DEF OrderInv, BatchInv
  <2> QED
    BY <2>1, <2>2, OrderFrame
<1>9. ~KeepCancels(w) /\ ~ApplyFails(w) /\ ~AckFails(w)
  <2>1. ~KeepCancels(w)
    BY <1>0 DEF OrderInv, TermInv, KeepCancels
  <2>2. ~ApplyFails(w)
    BY <1>0 DEF ApplyFails
  <2>3. ~AckFails(w)
    BY <1>0 DEF OrderInv, TermInv, InTerm, AckFails
  <2> QED
    BY <2>1, <2>2, <2>3
<1> QED
  BY <1>1, <1>2, <1>3, <1>5, <1>6, <1>7, <1>8, <1>9 DEF WriterStep, WriterFault

LEMMA OrderStep ==
  ASSUME Orderly, TypeInv, QueueInv, OrderInv, [Next]_vars
  PROVE  OrderInv'
<1>1. TermInv'
  BY TermStep DEF OrderInv
<1>2. CASE Expire
  <2>1. UNCHANGED <<log, cursor, pel, hist, disk, done, wpc, batch>>
    BY <1>2 DEF Expire, redis, local, tree
  <2> QED
    BY <1>1, <2>1, OrderFrame DEF OrderInv, BatchInv
<1>3. CASE UNCHANGED vars
  <2>1. UNCHANGED <<log, cursor, pel, hist, disk, done, wpc, batch>>
    BY <1>3 DEF vars, redis, local, tree
  <2> QED
    BY <1>1, <2>1, OrderFrame DEF OrderInv, BatchInv
<1> QED
  BY <1>1, <1>2, <1>3, SessionOrder, WriterOrder DEF Next

CountInv == /\ Applied \in Nat /\ done = 1..Applied /\ Applied <= cursor
            /\ TextOf(disk) = hist[Applied + 1]

LEMMA CountDone == OrderInv => CountInv
<1> SUFFICES ASSUME OrderInv PROVE CountInv
  OBVIOUS
<1>1. PICK a \in Nat, k \in Nat : Settled(a, k)
  BY DEF OrderInv
<1>2. Cardinality(1..k) = k
  <2>1. CASE k = 0
    <3>1. 1..k = {}
      BY <2>1
    <3> QED
      BY <2>1, <3>1, FS_EmptySet
  <2>2. CASE k # 0
    <3>1. Cardinality(1..k) = k - 1 + 1
      BY <2>2, FS_Interval
    <3> QED
      BY <3>1
  <2> QED
    BY <2>1, <2>2
<1>3. Applied = k
  BY <1>1, <1>2 DEF Settled, Applied
<1> QED
  BY <1>1, <1>3 DEF Settled, CountInv

THEOREM OrderCorrect ==
  ASSUME Orderly
  PROVE  Spec => [](TypeInv /\ QueueInv /\ OrderInv)
<1>1. Init => TypeInv /\ QueueInv /\ OrderInv
  BY InitType, InitQueue, InitOrder
<1>2. TypeInv /\ QueueInv /\ OrderInv /\ [Next]_vars => (TypeInv /\ QueueInv /\ OrderInv)'
  BY TypeStep, QueueStep, OrderStep
<1> QED
  BY <1>1, <1>2, PTL DEF Spec

\* Ops reach the durable tree in the order they were accepted: for every number
\* of replicas, writers, notes and crashes, at every moment, the tree is the
\* result of a prefix of the accepted ops (writer.apply, applyAndAck, Consume,
\* reclaimPending).
THEOREM PrefixHolds ==
  ASSUME Orderly
  PROVE  Spec => []PrefixApplied
<1>1. OrderInv => PrefixApplied
  BY CountDone DEF CountInv, PrefixApplied
<1> QED
  BY <1>1, OrderCorrect, PTL

\* Every step of the queue, the writers and Redis is a step of the abstract log
\* or none: HaStorage implements DurableLog.
THEOREM Implements ==
  ASSUME Orderly
  PROVE  Spec => ImplementsLog
<1>1. Init => Log!Init
  <2> SUFFICES ASSUME Init PROVE Log!Init
    OBVIOUS
  <2>1. Applied = 0
    BY FS_EmptySet DEF Init, Applied
  <2>2. TextOf(disk) = EmptyTree
    BY DEF Init, TextOf, EmptyTree, Unmarked
  <2> QED
    BY <2>1, <2>2 DEF Init, Log!Init
<1>2. ASSUME TypeInv, OrderInv, TypeInv', OrderInv', [Next]_vars
      PROVE  [Log!Next]_<<hist, Applied, TextOf(disk)>>
  <2>1. /\ Applied \in Nat /\ done = 1..Applied /\ TextOf(disk) = hist[Applied + 1]
        /\ Applied' \in Nat /\ done' = 1..Applied' /\ Applied' <= cursor'
        /\ TextOf(disk)' = hist'[Applied' + 1]
    <3>1. OrderInv' => CountInv'
      BY CountDone, PTL
    <3> QED
      BY <1>2, <3>1, CountDone DEF CountInv
  <2>2. \/ UNCHANGED <<done, hist>>
        \/ \E s \in Session : Enqueue(s)
        \/ \E w \in Writer : Apply(w)
    BY <1>2 DEF Next, vars, SessionStep, StartWrite, StartPatch, StartAppend, StartRemove, StartRename,
         StartMkdir, StartRemoveAll, Start, Publish, EnqueueFails, WriterStep, WriterFault, Restart,
         Campaign, EndTerm, Hydrate, HydrateDone, Reclaim, Deliver, Take, BatchDone, Reflect, Ack,
         AckFails, TrimRead, TrimPending, TrimCut, TrimSkip, KeepCancels, ApplyFails, QueueFails,
         Crash, Expire, tree
  <2>3. CASE UNCHANGED <<done, hist>>
    <3>1. Applied' = Applied
      BY <2>3 DEF Applied
    <3> QED
      BY <2>1, <2>3, <3>1
  <2>4. ASSUME NEW s \in Session, Enqueue(s) PROVE Log!Accept
    <3>1. req[s].op \in Op /\ TypeOK /\ Accept(req[s].op) /\ done' = done /\ disk' = disk
      BY <1>2, <2>4 DEF TypeInv, TypeOK, Enqueue, tree
    <3>2. Applied' = Applied /\ TextOf(disk)' = TextOf(disk)
      BY <3>1 DEF Applied, TextOf
    <3>3. /\ hist' \in Seq(Tree) /\ Len(hist') = Len(hist) + 1 /\ Len(hist) \in Nat
          /\ hist \in Seq(Tree)
      BY <3>1, LogStep, LenProperties DEF TypeOK
    <3> DEFINE new == Effect(Last(hist), WithMark(req[s].op, FALSE))
    <3>4. hist' = Append(hist, new)
      BY <3>1 DEF Accept
    <3>5. hist'[Len(hist) + 1] \in Tree
      BY <3>3, ElementOfSeq
    <3> HIDE DEF new
    <3>6. new = hist'[Len(hist) + 1]
      BY <3>3, <3>4
    <3> QED
      BY <3>2, <3>3, <3>4, <3>5, <3>6 DEF Log!Accept
  <2>5. ASSUME NEW w \in Writer, Apply(w) PROVE UNCHANGED <<hist, Applied, TextOf(disk)>> \/ Log!Persist
    <3>1. done' = done \cup {Current(w)} /\ hist' = hist
      BY <2>5 DEF Apply
    <3>2. CASE Current(w) \in done
      <4>1. Applied' = Applied
        BY <3>1, <3>2 DEF Applied
      <4> QED
        BY <2>1, <3>1, <4>1
    <3>3. CASE Current(w) \notin done
      <4>1. Applied' = Applied + 1
        <5>1. IsFiniteSet(done)
          BY <2>1, FS_Interval
        <5> QED
          BY <3>1, <3>3, <5>1, FS_AddElement DEF Applied
      <4>2. cursor' <= Len(log') /\ Len(hist') = Len(log') + 1 /\ Len(log') \in Nat /\ cursor' \in Nat
        <5>1. log' \in Seq(Op) /\ cursor' \in 0..Len(log') /\ Len(hist') = Len(log') + 1
          BY <1>2 DEF TypeInv, TypeOK
        <5> QED
          BY <5>1, LenProperties
      <4>3. Applied + 1 < Len(hist)
        BY <2>1, <3>1, <4>1, <4>2
      <4> QED
        BY <2>1, <3>1, <4>1, <4>3 DEF Log!Persist
    <3> QED
      BY <3>2, <3>3
  <2> QED
    BY <2>2, <2>3, <2>4, <2>5 DEF Log!Next
<1> QED
  BY <1>1, <1>2, OrderCorrect, PTL DEF Spec, ImplementsLog, Log!Spec

-----------------------------------------------------------------------------
(* What replicas serve.  One request at a time, none of them a rename, no  *)
(* note over the cap, reserved or behind a link, and no Redis call of a    *)
(* request that fails: then the working set is the text of the accepted    *)
(* ops, one more while an op is published and not yet accepted.            *)

OneReplica ==
  /\ Orderly
  /\ \E s \in Session : Session = {s}
  /\ "rename" \notin Requests
  /\ Linked = {} /\ System = {} /\ MaxRequests <= Cap
  /\ Fault \cap {"get", "publish", "enqueue"} = {}

Me     == CHOOSE s \in Session : TRUE
Asking == req[Me]

\* The ops there are without a rename.
PlainOp(op) == \/ op.kind \in {"write", "remove"} /\ op.path \in Note
               \/ op.kind \in {"mkdir", "removeAll"} /\ op.path = Root

Writes(i, p) == log[i].kind = "write" /\ log[i].path = p
Makes(op, p) == (op.kind = "write" /\ p \in {op.path, Root}) \/ (op.kind = "mkdir" /\ p = Root)
Made(p)      == \E i \in Ids : Makes(log[i], p)
Takes(op, p) == op.kind \in {"remove", "removeAll"} /\ op.path \in {p, Root}

\* The note was removed, or the removal is published.
Gone(p) == Removed(p) \/ (Asking.pc = "enqueue" /\ Takes(Asking.op, p))

\* The text of the accepted ops and of the published one.
Latest   == Last(hist)
Expected == IF Asking.pc = "enqueue" THEN Effect(Latest, WithMark(Asking.op, FALSE)) ELSE Latest

PlainInv ==
  /\ \A i \in Ids : PlainOp(log[i])
  /\ PlainOp(Asking.op)
  /\ {ws[Root], disk[Root], Latest[Root]} \subseteq {None, Folder}

\* No text holds a piece of a later request, so no two writes are alike.
Begun == IF Asking.pc = "idle" THEN requests ELSE requests - 1
Within(b, n) == b # None => b.text \subseteq 1..n

TextInv ==
  /\ requests \in Nat /\ requests <= MaxRequests /\ (Asking.pc # "idle" => requests > 0)
  /\ \A p \in Path : Within(disk[p], Begun) /\ Within(Latest[p], Begun)
  /\ \A p \in Path : Within(ws[p], IF Asking.pc = "enqueue" THEN requests ELSE Begun)
  /\ \A i \in Ids : Within(log[i].data, Begun)
  /\ Within(Asking.op.data, requests)
  /\ Asking.pc # "idle" /\ Asking.op.kind = "write" => requests \in Asking.op.data.text
  /\ \A i, j \in Ids : i # j /\ log[i].kind = "write" /\ log[j].kind = "write" =>
       log[i].data.text # log[j].data.text

\* What is there was made by an op, and what was made and not removed is there.
MadeInv ==
  \A p \in Path :
    /\ disk[p] # None => Made(p)
    /\ Made(p) /\ ~Removed(p) => Latest[p] # None

\* The text of a note is that of the last write to it.
LatestInv ==
  \A p \in Note :
    /\ Latest[p] # None => \E i \in Ids : Writes(i, p) /\ log[i].data.text = Latest[p].text
    /\ ~Removed(p) /\ Latest[p] # None =>
         \A i, j \in Ids : Writes(i, p) /\ log[i].data.text = Latest[p].text /\ Writes(j, p) => j <= i

\* A marker that was queued is on disk.
MarkedInv ==
  \A p \in Note : \A i \in Ids :
    disk[p] # None /\ Writes(i, p) /\ disk[p].text = log[i].data.text /\ log[i].data.mark => disk[p].mark

ViewInv == \A p \in Path : ~Gone(p) => Unmarked(ws[p]) = Expected[p]

QueuedInv ==
  Asking.pc = "enqueue" /\ Asking.op.kind = "write" /\ ~Removed(Asking.op.path) =>
    ws[Asking.op.path] = Asking.op.data

\* A replica serves the queued body of the last write, or what landed on disk,
\* and what landed once the op was reflected.
Landed(i) == i \in Acked \/ \E w \in Writer : wpc[w] = "ack" /\ Current(w) = i
LandedInv ==
  \A p \in Note : \A i \in Ids :
    ~Gone(p) /\ Writes(i, p) /\ ws[p] # None /\ ws[p].text = log[i].data.text =>
      /\ ws[p] = log[i].data \/ (i \in done /\ ws[p] = disk[p])
      /\ Landed(i) => ws[p] = disk[p]

\* A request that extends a note adds its own piece to the latest text.
AskInv ==
  Asking.pc # "idle" /\ Asking.asked \in {"patch", "append"} =>
    /\ Asking.op.kind = "write"
    /\ ~Removed(Asking.op.path) =>
         LET latest == Latest[Asking.op.path]
         IN  Asking.op.data.text = {requests} \cup (IF latest = None THEN {} ELSE latest.text)

ServedInv ==
  /\ PlainInv /\ TextInv /\ MadeInv /\ LatestInv /\ MarkedInv
  /\ ViewInv /\ QueuedInv /\ LandedInv /\ AskInv

-----------------------------------------------------------------------------
LEMMA OnlyMe ==
  ASSUME OneReplica
  PROVE  Session = {Me}
<1>1. PICK s \in Session : Session = {s}
  BY DEF OneReplica
<1> QED
  BY <1>1 DEF Me

LEMMA ServedTypes ==
  ASSUME OneReplica, TypeInv
  PROVE  /\ ws \in Tree /\ disk \in Tree /\ Latest \in Tree
         /\ ws \in [Path -> Body \cup {None}] /\ disk \in [Path -> Body \cup {None}]
         /\ Latest \in [Path -> Body \cup {None}]
         /\ Len(log) \in Nat /\ cursor \in Nat /\ cursor <= Len(log)
         /\ \A i \in Ids : log[i] \in Op /\ log[i].data \in Body /\ log[i].path \in Path
         /\ Asking.op \in Op /\ Asking.op.data \in Body /\ Asking.op.path \in Path
         /\ Asking.pc \in {"idle", "publish", "enqueue"}
         /\ Me \in Session /\ DOMAIN req = Session /\ Root \notin Note /\ Path = Note \cup {Root}
         /\ None \notin Body /\ Folder \in Body /\ Folder.text = {} /\ Folder.mark = FALSE
<1>1. log \in Seq(Op) /\ hist \in Seq(Tree) /\ Len(hist) = Len(log) + 1 /\ Len(log) \in Nat
  BY LenProperties DEF TypeInv, TypeOK
<1>2. Latest \in Tree
  BY <1>1, ElementOfSeq DEF Latest, Last
<1>3. Me \in Session
  BY OnlyMe
<1>4. /\ req[Me] \in [pc : {"idle", "publish", "enqueue"}, asked : Ask, op : Op] /\ DOMAIN req = Session
      /\ ws \in Tree /\ disk \in Tree /\ cursor \in 0..Len(log)
  BY <1>3 DEF TypeInv, TypeOK
<1>5. \A i \in Ids : log[i] \in Op
  BY <1>1, ElementOfSeq DEF Ids
<1>6. \A op \in Op : op.data \in Body /\ op.path \in Path
  BY DEF Op
<1>7. Root \notin Note /\ None \notin Body /\ Folder \in Body
  BY TreeAssumption DEF Body, Folder
<1> QED
  BY <1>1, <1>2, <1>3, <1>4, <1>5, <1>6, <1>7 DEF Asking, Tree, Path, Folder

LEMMA UnmarkedBody ==
  ASSUME NEW b \in Body
  PROVE  /\ Unmarked(b) = [text |-> b.text, mark |-> FALSE] /\ Unmarked(b).text = b.text /\ Unmarked(b) # None
         /\ Unmarked(None) = None /\ Unmarked(Folder) = Folder /\ b # None
         /\ [text |-> b.text, mark |-> FALSE] \in Body
<1>1. None \notin Body /\ Folder \in Body
  BY TreeAssumption DEF Body, Folder
<1>2. [text |-> b.text, mark |-> FALSE] \in Body
  BY DEF Body
<1> QED
  BY <1>1, <1>2 DEF Unmarked, Folder

\* What an op does to a tree, when it is no rename.
LEMMA PlainEffect ==
  ASSUME OneReplica, NEW t \in Tree, NEW op \in Op, PlainOp(op), NEW m \in BOOLEAN, NEW p \in Path
  PROVE  Effect(t, WithMark(op, m))[p] =
           (IF op.kind = "write" /\ p = op.path THEN [text |-> op.data.text, mark |-> m]
            ELSE IF Makes(op, p) THEN Folder
            ELSE IF Takes(op, p) THEN None ELSE t[p])
<1>1. /\ WithMark(op, m).kind = op.kind /\ WithMark(op, m).path = op.path
      /\ WithMark(op, m).data = [text |-> op.data.text, mark |-> m]
  BY DEF WithMark, Op
<1>2. ~LinkedOp(WithMark(op, m))
  BY DEF OneReplica, LinkedOp
<1>3. t \in [Path -> Body \cup {None}] /\ Root \in Path /\ op.path \in Path /\ Root \notin Note
  BY TreeAssumption DEF Tree, Path, Op
<1>4. CASE op.kind = "write"
  BY <1>1, <1>2, <1>3, <1>4 DEF Effect, Makes, Takes, PlainOp
<1>5. CASE op.kind = "mkdir"
  BY <1>1, <1>2, <1>3, <1>5 DEF Effect, Makes, Takes, PlainOp
<1>6. CASE op.kind = "remove"
  BY <1>1, <1>2, <1>3, <1>6 DEF Effect, Makes, Takes, PlainOp
<1>7. CASE op.kind = "removeAll"
  BY <1>1, <1>2, <1>3, <1>7 DEF Effect, Makes, Takes, PlainOp, EmptyTree
<1> QED
  BY <1>4, <1>5, <1>6, <1>7 DEF PlainOp

\* A body within the cap is cached.
LEMMA Fits ==
  ASSUME OneReplica, NEW b \in Body, NEW n \in Nat, n <= MaxRequests, Within(b, n)
  PROVE  Size(b) <= Cap
<1>1. b.text \subseteq 1..n
  BY UnmarkedBody DEF Within
<1>2. IsFiniteSet(1..n) /\ Cardinality(1..n) \in Nat /\ Cardinality(1..n) <= n
  <2>1. CASE n = 0
    <3>1. 1..n = {}
      BY <2>1
    <3> QED
      BY <2>1, <3>1, FS_EmptySet
  <2>2. CASE n # 0
    <3>1. IsFiniteSet(1..n) /\ Cardinality(1..n) = n - 1 + 1
      BY <2>2, FS_Interval
    <3> QED
      BY <3>1
  <2> QED
    BY <2>1, <2>2
<1>3. Cardinality(b.text) <= Cardinality(1..n) /\ Cardinality(b.text) \in Nat
  BY <1>1, <1>2, FS_Subset, FS_CardinalityType
<1> QED
  BY <1>2, <1>3, HaAssumption, TreeAssumption DEF Size, OneReplica

\* What a replica publishes.
LEMMA PlainPublished ==
  ASSUME OneReplica, NEW t \in Tree, NEW op \in Op, PlainOp(op), Size(op.data) <= Cap, NEW p \in Path
  PROVE  Published(t, op)[p] =
           (IF op.kind = "write" /\ p = op.path THEN op.data
            ELSE IF Makes(op, p) THEN Folder
            ELSE IF Takes(op, p) THEN None ELSE t[p])
<1>1. t \in [Path -> Body \cup {None}] /\ Root \in Path /\ op.path \in Path /\ Root \notin Note
  BY TreeAssumption DEF Tree, Path, Op
<1>2. CASE op.kind = "write"
  BY <1>1, <1>2 DEF Published, CacheBody, Makes, Takes, PlainOp
<1>3. CASE op.kind = "mkdir"
  BY <1>1, <1>3 DEF Published, Makes, Takes, PlainOp
<1>4. CASE op.kind = "remove"
  BY <1>1, <1>4 DEF Published, Makes, Takes, PlainOp
<1>5. CASE op.kind = "removeAll"
  BY <1>1, <1>5 DEF Published, Makes, Takes, PlainOp, EmptyTree
<1> QED
  BY <1>2, <1>3, <1>4, <1>5 DEF PlainOp

\* What the writer reflects of an op that is on disk.
LEMMA PlainReflected ==
  ASSUME OneReplica, NEW t \in Tree, NEW d \in Tree, NEW op \in Op, PlainOp(op), NEW p \in Path,
         op.kind = "write" => d[op.path] # None /\ Size(d[op.path]) <= Cap
  PROVE  Reflected(t, d, op)[p] =
           (IF op.kind = "write"
            THEN IF t[op.path] \notin {None, op.data} THEN t[p]
                 ELSE IF p = op.path THEN d[op.path]
                 ELSE IF p = Root THEN Folder ELSE t[p]
            ELSE IF Makes(op, p) THEN Folder
            ELSE IF Takes(op, p) THEN None ELSE t[p])
<1>1. t \in [Path -> Body \cup {None}] /\ Root \in Path /\ op.path \in Path /\ Root \notin Note
  BY TreeAssumption DEF Tree, Path, Op
<1>2. ~LinkedOp(op)
  BY DEF OneReplica, LinkedOp
<1>3. CASE op.kind = "write"
  BY <1>1, <1>2, <1>3 DEF Reflected, PublishLanded, CompareAndSet, PlainOp
<1>4. CASE op.kind = "mkdir"
  BY <1>1, <1>2, <1>4 DEF Reflected, Makes, Takes, PlainOp
<1>5. CASE op.kind = "remove"
  BY <1>1, <1>2, <1>5 DEF Reflected, Makes, Takes, PlainOp
<1>6. CASE op.kind = "removeAll"
  BY <1>1, <1>2, <1>6 DEF Reflected, Makes, Takes, PlainOp, EmptyTree
<1> QED
  BY <1>3, <1>4, <1>5, <1>6 DEF PlainOp

LEMMA InitServed == ASSUME OneReplica, Init PROVE ServedInv
<1>1. /\ ws = EmptyTree /\ disk = EmptyTree /\ hist = <<EmptyTree>> /\ log = <<>> /\ requests = 0
      /\ Asking = IdleRequest /\ done = {}
  BY OnlyMe DEF Init, Asking
<1>2. Latest = EmptyTree /\ Ids = {} /\ Root \in Path /\ \A p \in Path : EmptyTree[p] = None
  BY <1>1 DEF Latest, Last, Ids, EmptyTree, Path
<1>3. PlainInv
  BY <1>1, <1>2 DEF PlainInv, PlainOp, IdleRequest
<1>4. TextInv
  BY <1>1, <1>2, HaAssumption DEF TextInv, Within, Begun, IdleRequest, Folder
<1>5. MadeInv /\ LatestInv /\ MarkedInv /\ LandedInv
  <2>1. Note \subseteq Path
    BY DEF Path
  <2>2. \A p \in Path : ~Made(p) /\ disk[p] = None /\ Latest[p] = None
    BY <1>1, <1>2 DEF Made
  <2> QED
    BY <1>2, <2>1, <2>2 DEF MadeInv, LatestInv, MarkedInv, LandedInv
<1>6. ViewInv /\ QueuedInv /\ AskInv
  BY <1>1, <1>2 DEF ViewInv, QueuedInv, AskInv, Expected, IdleRequest, Unmarked
<1> QED
  BY <1>3, <1>4, <1>5, <1>6 DEF ServedInv

\* What was made and not removed is in the working set.
LEMMA Filled ==
  ASSUME OneReplica, TypeInv, ServedInv, NEW p \in Path, Made(p), ~Gone(p)
  PROVE  ws[p] # None /\ Expected[p] # None
<1>1. Latest[p] # None
  BY DEF ServedInv, MadeInv, Gone
<1>2. Expected[p] # None
  <2>1. CASE Asking.pc # "enqueue"
    BY <1>1, <2>1 DEF Expected
  <2>2. CASE Asking.pc = "enqueue"
    <3>1. Expected[p] = Effect(Latest, WithMark(Asking.op, FALSE))[p] /\ ~Takes(Asking.op, p)
      BY <2>2 DEF Expected, Gone
    <3>2. Asking.op \in Op /\ PlainOp(Asking.op) /\ Latest \in Tree /\ Asking.op.data \in Body /\ Folder # None
      BY ServedTypes DEF ServedInv, PlainInv
    <3>3. [text |-> Asking.op.data.text, mark |-> FALSE] # None
      BY <3>2, UnmarkedBody
    <3> QED
      BY <1>1, <3>1, <3>2, <3>3, PlainEffect
  <2> QED
    BY <2>1, <2>2
<1>3. Unmarked(ws[p]) = Expected[p]
  BY DEF ServedInv, ViewInv
<1>4. Unmarked(None) = None
  BY DEF Unmarked
<1> QED
  BY <1>2, <1>3, <1>4

-----------------------------------------------------------------------------
(* The steps of a replica.                                                 *)

LEMMA StartFrame ==
  ASSUME OneReplica, TypeInv, ServedInv, Asking.pc = "idle", Asking'.pc = "publish",
         requests' = requests + 1, requests' <= MaxRequests,
         UNCHANGED <<ws, disk, log, hist, done, pel, cursor, wpc, batch>>,
         PlainOp(Asking'.op), Within(Asking'.op.data, requests'),
         Asking'.op.kind = "write" => requests' \in Asking'.op.data.text, AskInv'
  PROVE  ServedInv'
<1>1. UNCHANGED <<Latest, Expected, Ids>> /\ Begun' = Begun /\ Begun = requests
  <2>1. requests' - 1 = requests
    BY DEF ServedInv, TextInv
  <2> QED
    BY <2>1 DEF Latest, Last, Expected, Ids, Begun
<1>2. \A p : (Removed(p)' <=> Removed(p)) /\ (Made(p)' <=> Made(p)) /\ (Gone(p)' <=> Gone(p))
  BY <1>1 DEF Removed, Made, Gone, Ids
<1>3. \A i : Landed(i)' <=> Landed(i)
  BY DEF Landed, Acked, Current
<1>4. PlainInv' /\ MadeInv' /\ LatestInv' /\ MarkedInv'
  BY <1>1, <1>2 DEF ServedInv, PlainInv, MadeInv, LatestInv, MarkedInv, Writes
<1>5. TextInv'
  BY <1>1 DEF ServedInv, TextInv, Begun
<1>6. ViewInv' /\ QueuedInv'
  BY <1>1, <1>2 DEF ServedInv, ViewInv, QueuedInv
<1>7. LandedInv'
  BY <1>1, <1>2, <1>3 DEF ServedInv, LandedInv, Writes
<1> QED
  BY <1>4, <1>5, <1>6, <1>7 DEF ServedInv

LEMMA StartServed ==
  ASSUME OneReplica, TypeInv, ServedInv, NEW asked, NEW kind, NEW p, NEW data,
         Start(Me, asked, kind, p, p, data),
         (kind \in {"write", "remove"} /\ p \in Note) \/ (kind \in {"mkdir", "removeAll"} /\ p = Root),
         Within(data, requests + 1), kind = "write" => requests + 1 \in data.text,
         asked \in {"patch", "append"} =>
           /\ kind = "write"
           /\ ~Removed(p) => data.text = {requests + 1} \cup (IF Latest[p] = None THEN {} ELSE Latest[p].text)
  PROVE  ServedInv'
<1>1. /\ Asking.pc = "idle" /\ requests < MaxRequests /\ requests' = requests + 1
      /\ Asking' = [pc |-> "publish", asked |-> asked, op |-> [kind |-> kind, path |-> p, to |-> p, data |-> data]]
      /\ UNCHANGED <<ws, disk, log, hist, done, pel, cursor, wpc, batch>>
  BY ServedTypes DEF Start, Asking, redis, local, tree
<1>2. requests \in Nat /\ MaxRequests \in Nat
  BY HaAssumption DEF ServedInv, TextInv
<1>3. requests' <= MaxRequests
  BY <1>1, <1>2
<1>4. /\ Asking'.pc = "publish" /\ Asking'.asked = asked
      /\ Asking'.op.kind = kind /\ Asking'.op.path = p /\ Asking'.op.data = data
  BY <1>1
<1>5. PlainOp(Asking'.op)
  BY <1>4 DEF PlainOp
<1>6. AskInv'
  <2>1. Latest' = Latest /\ (Removed(p)' <=> Removed(p))
    BY <1>1 DEF Latest, Last, Removed, Ids
  <2> QED
    BY <1>1, <1>4, <2>1 DEF AskInv
<1> QED
  BY <1>1, <1>3, <1>4, <1>5, <1>6, StartFrame

LEMMA StartsServed ==
  ASSUME OneReplica, TypeInv, ServedInv, NEW s \in Session, SessionStep(s)
  PROVE  Publish(s) \/ Enqueue(s) \/ ServedInv'
<1>1. s = Me
  BY OnlyMe
<1>2. ~Fails("get") /\ ~Fails("enqueue") /\ \A n, to \in Note : ~StartRename(s, n, to)
  BY DEF OneReplica, Fails, StartRename, Start
<1>3. requests \in Nat /\ requests + 1 \in 1..(requests + 1) /\ 1..requests \subseteq 1..(requests + 1)
  BY DEF ServedInv, TextInv
<1>4. Within(Folder, requests + 1) /\ \A m : Within(Fresh(m), requests + 1) /\ Fresh(m).text = {requests + 1}
  BY <1>3 DEF Within, Folder, Fresh
<1>5. ASSUME NEW n \in Note, req[s].pc = "idle"
      PROVE  /\ Within(Extended(ws[n]), requests + 1) /\ requests + 1 \in Extended(ws[n]).text
             /\ ~Removed(n) => Extended(ws[n]).text = {requests + 1} \cup (IF Latest[n] = None THEN {} ELSE Latest[n].text)
  <2>1. Asking.pc = "idle" /\ n \in Path
    BY <1>1, <1>5 DEF Asking, Path
  <2>2. ~Removed(n) => Unmarked(ws[n]) = Latest[n]
    BY <2>1 DEF ServedInv, ViewInv, Gone, Expected
  <2>3. CASE ws[n] = None
    BY <1>4, <2>2, <2>3 DEF Extended, Unmarked
  <2>4. CASE ws[n] # None
    <3>1. ws[n] \in Body /\ Within(ws[n], requests)
      BY <2>1, <2>4, ServedTypes DEF ServedInv, TextInv, Begun
    <3>2. Unmarked(ws[n]) # None /\ Unmarked(ws[n]).text = ws[n].text
      BY <3>1, UnmarkedBody
    <3>3. Extended(ws[n]).text = ws[n].text \cup {requests + 1}
      BY <2>4, <3>1 DEF Extended, Body
    <3>4. ws[n].text \subseteq 1..requests
      BY <2>4, <3>1 DEF Within
    <3>5. ws[n].text \cup {requests + 1} \subseteq 1..(requests + 1)
      BY <1>3, <3>4
    <3> QED
      BY <2>2, <3>2, <3>3, <3>5 DEF Within
  <2> QED
    BY <2>3, <2>4
<1>6. ASSUME NEW n \in Note, NEW m \in MarkOf, StartWrite(s, n, m) PROVE ServedInv'
  BY <1>1, <1>4, <1>6, StartServed DEF StartWrite
<1>7. ASSUME NEW n \in Note, StartPatch(s, n) PROVE ServedInv'
  <2>1. req[s].pc = "idle" /\ Start(Me, "patch", "write", n, n, Extended(ws[n]))
    BY <1>1, <1>7 DEF StartPatch, Start
  <2> QED
    BY <1>5, <2>1, StartServed
<1>8. ASSUME NEW n \in Note, StartAppend(s, n) PROVE ServedInv'
  <2>1. req[s].pc = "idle" /\ Start(Me, "append", "write", n, n, Extended(ws[n]))
    BY <1>1, <1>2, <1>8 DEF StartAppend, Start
  <2> QED
    BY <1>5, <2>1, StartServed
<1>9. ASSUME NEW n \in Note, StartRemove(s, n) PROVE ServedInv'
  BY <1>1, <1>4, <1>9, StartServed DEF StartRemove
<1>10. ASSUME StartMkdir(s) \/ StartRemoveAll(s) PROVE ServedInv'
  BY <1>1, <1>4, <1>10, StartServed DEF StartMkdir, StartRemoveAll
<1> QED
  BY <1>2, <1>6, <1>7, <1>8, <1>9, <1>10 DEF SessionStep, EnqueueFails

LEMMA PublishServed ==
  ASSUME OneReplica, TypeInv, ServedInv, NEW s \in Session, Publish(s)
  PROVE  ServedInv'
<1> DEFINE op == Asking.op
<1>1. s = Me /\ ~Fails("publish")
  BY OnlyMe DEF OneReplica, Fails
<1>2. /\ Asking.pc = "publish" /\ Asking' = [Asking EXCEPT !.pc = "enqueue"]
      /\ ws' = Published(ws, op)
      /\ UNCHANGED <<requests, disk, log, hist, done, pel, cursor, wpc, batch>>
  BY <1>1, ServedTypes DEF Publish, Asking, local, tree
<1>3. /\ op \in Op /\ op.data \in Body /\ PlainOp(op) /\ Within(op.data, requests) /\ requests \in Nat
      /\ requests > 0 /\ requests <= MaxRequests /\ op.path \in Path
      /\ op.kind = "write" => requests \in op.data.text
  BY <1>2, ServedTypes DEF ServedInv, PlainInv, TextInv
<1>4. Asking'.pc = "enqueue" /\ Asking'.op = op /\ Asking'.asked = Asking.asked
  <2>1. Asking \in [pc : {"idle", "publish", "enqueue"}, asked : Ask, op : Op]
    BY <1>1 DEF TypeInv, TypeOK, Asking
  <2> QED
    BY <1>2, <2>1
<1> HIDE DEF op
<1>5. \A p \in Path : ws'[p] = (IF op.kind = "write" /\ p = op.path THEN op.data
                              ELSE IF Makes(op, p) THEN Folder
                              ELSE IF Takes(op, p) THEN None ELSE ws[p])
  <2>1. Size(op.data) <= Cap
    BY <1>3, Fits
  <2> QED
    BY <1>2, <1>3, <2>1, PlainPublished, ServedTypes
<1>6. \A p \in Path : Expected'[p] = (IF op.kind = "write" /\ p = op.path THEN [text |-> op.data.text, mark |-> FALSE]
                              ELSE IF Makes(op, p) THEN Folder
                              ELSE IF Takes(op, p) THEN None ELSE Latest[p])
  <2>1. Expected' = Effect(Latest, WithMark(op, FALSE))
    BY <1>2, <1>4 DEF Expected, Latest, Last
  <2> QED
    BY <1>3, <2>1, PlainEffect, ServedTypes
<1>7. UNCHANGED <<Latest, Ids>> /\ Begun' = Begun /\ Begun = requests - 1
  BY <1>2, <1>4 DEF Latest, Last, Ids, Begun
<1>8. \A p : /\ Removed(p)' <=> Removed(p)
             /\ Made(p)' <=> Made(p)
             /\ Gone(p)' <=> Removed(p) \/ Takes(op, p)
             /\ Gone(p) <=> Removed(p)
  BY <1>2, <1>4, <1>7 DEF Removed, Made, Gone, Ids
<1>9. \A i : Landed(i)' <=> Landed(i)
  BY <1>2 DEF Landed, Acked, Current
<1>10. PlainInv'
  BY <1>2, <1>3, <1>4, <1>5, <1>7, ServedTypes DEF ServedInv, PlainInv, Makes, PlainOp
<1>11. TextInv'
  <2>1. ASSUME NEW p \in Path PROVE Within(ws'[p], requests)
    <3>1. Within(ws[p], requests - 1)
      BY <1>2, <1>7 DEF ServedInv, TextInv
    <3>2. Within(ws[p], requests) /\ Within(Folder, requests) /\ Within(None, requests)
      BY <1>3, <3>1 DEF Within, Folder
    <3> QED
      BY <1>3, <1>5, <3>2
  <2> QED
    BY <1>2, <1>4, <1>7, <2>1 DEF ServedInv, TextInv
<1>12. MadeInv' /\ LatestInv' /\ MarkedInv'
  BY <1>2, <1>7, <1>8 DEF ServedInv, MadeInv, LatestInv, MarkedInv, Writes
<1>13. ViewInv'
  <2> SUFFICES ASSUME NEW p \in Path, ~Gone(p)' PROVE Unmarked(ws'[p]) = Expected'[p]
    BY DEF ViewInv
  <2>1. ~Takes(op, p) /\ Unmarked(ws[p]) = Latest[p]
    BY <1>2, <1>8 DEF ServedInv, ViewInv, Expected
  <2>2. Unmarked(op.data) = [text |-> op.data.text, mark |-> FALSE] /\ Unmarked(Folder) = Folder
    BY <1>3, UnmarkedBody
  <2> QED
    BY <1>5, <1>6, <2>1, <2>2
<1>14. QueuedInv'
  BY <1>3, <1>4, <1>5 DEF QueuedInv
<1>15. LandedInv'
  <2> SUFFICES ASSUME NEW p \in Note, NEW i \in Ids, ~Gone(p)', Writes(i, p), ws'[p] # None,
                      ws'[p].text = log[i].data.text
               PROVE  (ws'[p] = log[i].data \/ (i \in done /\ ws'[p] = disk[p])) /\ (Landed(i) => ws'[p] = disk[p])
    BY <1>2, <1>7, <1>9 DEF LandedInv, Writes
  <2>1. p \in Path /\ p # Root /\ log[i].data \in Body
    BY ServedTypes
  <2>2. log[i].data.text \subseteq 1..(requests - 1)
    BY <1>7, <2>1, ServedTypes DEF ServedInv, TextInv, Within
  <2>3. requests \notin 1..(requests - 1)
    BY <1>3
  <2>4. ~(op.kind = "write" /\ p = op.path)
    BY <1>3, <1>5, <2>1, <2>2, <2>3
  <2>5. ~Takes(op, p) /\ ~Gone(p) /\ ~Makes(op, p)
    BY <1>8, <2>1, <2>4 DEF Makes
  <2>6. ws'[p] = ws[p]
    BY <1>5, <2>1, <2>4, <2>5
  <2> QED
    BY <2>5, <2>6 DEF ServedInv, LandedInv
<1>16. AskInv'
  BY <1>2, <1>4, <1>7, <1>8 DEF ServedInv, AskInv, op
<1> QED
  BY <1>10, <1>11, <1>12, <1>13, <1>14, <1>15, <1>16 DEF ServedInv

\* The op becomes the latest accepted one; what is served does not change.
LEMMA EnqueueServed ==
  ASSUME OneReplica, TypeInv, ServedInv, NEW s \in Session, Enqueue(s)
  PROVE  ServedInv'
<1> DEFINE op == Asking.op
<1>0. PICK N \in Nat : N = Len(log) + 1
  BY ServedTypes
<1>1. s = Me
  BY OnlyMe
<1>2. /\ Asking.pc = "enqueue" /\ Asking' = IdleRequest /\ Accept(op)
      /\ UNCHANGED <<ws, requests, disk, done, pel, cursor, wpc, batch>>
  BY <1>1, ServedTypes DEF Enqueue, Asking, local, tree
<1>3. /\ op \in Op /\ op.data \in Body /\ PlainOp(op) /\ Within(op.data, requests) /\ requests \in Nat
      /\ requests > 0 /\ requests <= MaxRequests /\ op.path \in Path
      /\ op.kind = "write" => requests \in op.data.text
  BY <1>2, ServedTypes DEF ServedInv, PlainInv, TextInv
<1>4. /\ Len(log) \in Nat /\ Ids' = Ids \cup {N} /\ N \notin Ids /\ log'[N] = op
      /\ \A i \in Ids : log'[i] = log[i] /\ i <= N
  <2>1. log \in Seq(Op) /\ Len(log) \in Nat /\ log' = Append(log, op) /\ TypeOK
    BY <1>2, LenProperties DEF TypeInv, TypeOK, Accept
  <2>2. Len(log') = N /\ log'[N] = op /\ \A i \in 1..Len(log) : log'[i] = log[i]
    BY <1>0, <1>3, <2>1, AppendProperties
  <2> QED
    BY <1>0, <2>1, <2>2 DEF Ids
<1>5. Latest' = Expected
  <2>1. Latest' = Effect(hist[Len(hist)], WithMark(op, FALSE))
    BY <1>2, <1>3, LogStep DEF TypeInv, Latest, Last
  <2> QED
    BY <1>2, <2>1 DEF Expected, Latest, Last
<1> HIDE DEF op
<1>6. \A p \in Path : Latest'[p] = (IF op.kind = "write" /\ p = op.path THEN [text |-> op.data.text, mark |-> FALSE]
                              ELSE IF Makes(op, p) THEN Folder
                              ELSE IF Takes(op, p) THEN None ELSE Latest[p])
  <2>1. Expected = Effect(Latest, WithMark(op, FALSE))
    BY <1>2 DEF Expected, op
  <2> QED
    BY <1>3, <1>5, <2>1, PlainEffect, ServedTypes
<1>7. /\ Asking'.pc = "idle" /\ Asking'.op.kind = "mkdir" /\ Asking'.op.path = Root /\ Asking'.op.data = Folder
      /\ Begun' = requests /\ Begun = requests - 1
  BY <1>2 DEF IdleRequest, Begun
<1>8. \A p : /\ Removed(p)' <=> Removed(p) \/ Takes(op, p)
             /\ Made(p)' <=> Made(p) \/ Makes(op, p)
             /\ Gone(p)' <=> Gone(p)
             /\ Gone(p) <=> Removed(p) \/ Takes(op, p)
  <2>1. op.kind # "rename"
    BY <1>3 DEF PlainOp
  <2>2. \A p : Removed(p)' <=> Removed(p) \/ Takes(op, p)
    BY <1>4, <2>1 DEF Removed, Takes
  <2>3. \A p : Made(p)' <=> Made(p) \/ Makes(op, p)
    BY <1>4 DEF Made
  <2>4. \A p : Gone(p) <=> Removed(p) \/ Takes(op, p)
    BY <1>2 DEF Gone, op
  <2>5. \A p : Gone(p)' <=> Removed(p)'
    BY <1>7 DEF Gone
  <2> QED
    BY <2>2, <2>3, <2>4, <2>5
<1>9. \A i : Landed(i)' <=> Landed(i)
  BY <1>2 DEF Landed, Acked, Current
<1>10. ~Landed(N)
  <2>1. N \notin Acked
    BY <1>0, ServedTypes DEF Acked
  <2>2. ASSUME NEW w \in Writer, wpc[w] = "ack" PROVE Current(w) # N
    BY <1>4, <2>2, CurrentInLog
  <2> QED
    BY <2>1, <2>2 DEF Landed
<1>11. \A b \in Body \cup {None} : Within(b, requests - 1) => Within(b, requests)
  BY <1>3 DEF Within
<1>12. /\ Within(Folder, requests) /\ Within(None, requests)
       /\ op.data.text \subseteq 1..requests
       /\ requests \notin 1..(requests - 1)
  BY <1>3, ServedTypes DEF Within, Folder
<1>13. \A i \in Ids : log[i].data \in Body /\ log[i].data.text \subseteq 1..(requests - 1)
  BY <1>7, ServedTypes DEF ServedInv, TextInv, Within
<1>14. PlainInv'
  <2>1. PlainOp(Asking'.op)
    BY <1>7 DEF PlainOp
  <2>2. \A i \in Ids' : PlainOp(log'[i])
    BY <1>3, <1>4 DEF ServedInv, PlainInv
  <2>3. Latest'[Root] \in {None, Folder}
    BY <1>3, <1>6, ServedTypes DEF ServedInv, PlainInv, PlainOp
  <2> QED
    BY <1>2, <2>1, <2>2, <2>3 DEF ServedInv, PlainInv
<1>15. TextInv'
  <2>1. ASSUME NEW p \in Path PROVE Within(disk[p], requests) /\ Within(Latest'[p], requests) /\ Within(ws[p], requests)
    <3>1. Within(disk[p], requests - 1) /\ Within(Latest[p], requests - 1) /\ Within(ws[p], requests)
      BY <1>2, <1>7 DEF ServedInv, TextInv
    <3>2. Within(disk[p], requests) /\ Within(Latest[p], requests)
      BY <1>11, <3>1, ServedTypes
    <3>3. Within([text |-> op.data.text, mark |-> FALSE], requests)
      BY <1>12 DEF Within
    <3> QED
      BY <1>6, <1>12, <3>1, <3>2, <3>3
  <2>2. \A i \in Ids' : Within(log'[i].data, requests)
    BY <1>3, <1>4, <1>7, <1>11, <1>13 DEF ServedInv, TextInv
  <2>3. ASSUME NEW i \in Ids', NEW j \in Ids', i # j, log'[i].kind = "write", log'[j].kind = "write"
        PROVE  log'[i].data.text # log'[j].data.text
    <3>1. CASE i \in Ids /\ j \in Ids
      BY <1>4, <2>3, <3>1 DEF ServedInv, TextInv
    <3>2. CASE i = N /\ j \in Ids
      BY <1>3, <1>4, <1>12, <1>13, <2>3, <3>2
    <3>3. CASE i \in Ids /\ j = N
      BY <1>3, <1>4, <1>12, <1>13, <2>3, <3>3
    <3> QED
      BY <1>4, <2>3, <3>1, <3>2, <3>3
  <2> QED
    BY <1>2, <1>3, <1>7, <1>12, <2>1, <2>2, <2>3 DEF TextInv
<1>16. MadeInv'
  <2>1. ASSUME NEW p \in Path, Made(p)', ~Removed(p)' PROVE Latest'[p] # None
    <3>1. ~Removed(p) /\ ~Takes(op, p)
      BY <1>8, <2>1
    <3>2. [text |-> op.data.text, mark |-> FALSE] # None /\ Folder # None
      BY <1>3, UnmarkedBody, ServedTypes
    <3>3. CASE Makes(op, p)
      BY <1>6, <3>2, <3>3
    <3>4. CASE ~Makes(op, p)
      <4>1. Latest[p] # None
        BY <1>8, <2>1, <3>1, <3>4 DEF ServedInv, MadeInv
      <4> QED
        BY <1>6, <3>1, <3>2, <3>4, <4>1
    <3> QED
      BY <3>3, <3>4
  <2>2. ASSUME NEW p \in Path, disk'[p] # None PROVE Made(p)'
    BY <1>2, <1>8, <2>2 DEF ServedInv, MadeInv
  <2> QED
    BY <2>1, <2>2 DEF MadeInv
<1>17. LatestInv'
  <2> SUFFICES ASSUME NEW p \in Note, Latest'[p] # None
               PROVE  /\ \E i \in Ids' : Writes(i, p)' /\ log'[i].data.text = Latest'[p].text
                      /\ ~Removed(p)' => \A i, j \in Ids' :
                           Writes(i, p)' /\ log'[i].data.text = Latest'[p].text /\ Writes(j, p)' => j <= i
    BY DEF LatestInv
  <2>1. p \in Path /\ p # Root /\ \A i \in Ids : Writes(i, p)' <=> Writes(i, p)
    BY <1>4, ServedTypes DEF Writes
  <2>2. CASE op.kind = "write" /\ op.path = p
    <3>1. Latest'[p].text = op.data.text /\ Writes(N, p)'
      BY <1>4, <1>6, <2>1, <2>2 DEF Writes
    <3>2. \A i \in Ids : log'[i].data.text # op.data.text
      BY <1>3, <1>4, <1>12, <1>13, <2>2
    <3>3. N <= N
      BY <1>0
    <3> QED
      BY <1>4, <3>1, <3>2, <3>3
  <2>3. CASE ~(op.kind = "write" /\ op.path = p)
    <3>1. ~Writes(N, p)' /\ ~Makes(op, p)
      BY <1>4, <2>1, <2>3 DEF Writes, Makes
    <3>2. ~Takes(op, p) /\ Latest'[p] = Latest[p]
      BY <1>6, <2>1, <2>3, <3>1
    <3>3. \A i \in Ids : log'[i] = log[i]
      BY <1>4
    <3>4. \E i \in Ids : Writes(i, p) /\ log[i].data.text = Latest[p].text
      BY <3>2 DEF ServedInv, LatestInv
    <3>5. ~Removed(p)' => \A i, j \in Ids :
             Writes(i, p) /\ log[i].data.text = Latest[p].text /\ Writes(j, p) => j <= i
      BY <1>8, <3>2 DEF ServedInv, LatestInv
    <3> QED
      BY <1>4, <2>1, <3>1, <3>2, <3>3, <3>4, <3>5
  <2> QED
    BY <2>2, <2>3
<1>18. MarkedInv'
  <2> SUFFICES ASSUME NEW p \in Note, NEW i \in Ids', disk[p] # None, Writes(i, p)',
                      disk[p].text = log'[i].data.text, log'[i].data.mark
               PROVE  disk[p].mark
    BY <1>2 DEF MarkedInv
  <2>1. CASE i \in Ids
    BY <1>4, <2>1 DEF ServedInv, MarkedInv, Writes
  <2>2. CASE i = N
    <3>1. requests \in disk[p].text
      BY <1>3, <1>4, <2>2 DEF Writes
    <3>2. disk[p].text \subseteq 1..(requests - 1)
      BY <1>7, ServedTypes DEF ServedInv, TextInv, Within
    <3> QED
      BY <1>12, <3>1, <3>2
  <2> QED
    BY <1>4, <2>1, <2>2
<1>19. ViewInv' /\ QueuedInv' /\ AskInv'
  <2>1. Expected' = Expected
    BY <1>5, <1>7 DEF Expected
  <2> QED
    BY <1>2, <1>7, <1>8, <2>1 DEF ServedInv, ViewInv, QueuedInv, AskInv
<1>20. LandedInv'
  <2> SUFFICES ASSUME NEW p \in Note, NEW i \in Ids', ~Gone(p), Writes(i, p)', ws[p] # None,
                      ws[p].text = log'[i].data.text
               PROVE  (ws[p] = log'[i].data \/ (i \in done /\ ws[p] = disk[p])) /\ (Landed(i) => ws[p] = disk[p])
    BY <1>2, <1>8, <1>9 DEF LandedInv
  <2>1. CASE i \in Ids
    BY <1>4, <2>1 DEF ServedInv, LandedInv, Writes
  <2>2. CASE i = N
    <3>1. op.kind = "write" /\ op.path = p /\ ~Removed(p) /\ log'[i] = op
      BY <1>4, <1>8, <2>2 DEF Writes
    <3>2. ws[p] = op.data
      BY <1>2, <3>1 DEF ServedInv, QueuedInv, op
    <3> QED
      BY <1>10, <2>2, <3>1, <3>2
  <2> QED
    BY <1>4, <2>1, <2>2
<1> QED
  BY <1>14, <1>15, <1>16, <1>17, <1>18, <1>19, <1>20 DEF ServedInv

-----------------------------------------------------------------------------
(* The steps of a writer.                                                  *)

\* The op a writer has in hand comes after all acknowledged ones, and is the
\* last that reached the tree.
LEMMA HandFacts ==
  ASSUME TypeInv, QueueInv, OrderInv, NEW w \in Writer, wpc[w] \in {"apply", "reflect", "ack"}
  PROVE  /\ Current(w) \in Nat /\ Current(w) \in Ids
         /\ \A i \in Acked : i < Current(w)
         /\ \A i \in done : i <= Current(w)
         /\ wpc[w] # "apply" =>
              Current(w) \in done /\ TextOf(disk) = Effect(hist[Current(w)], WithMark(log[Current(w)], FALSE))
         /\ live[w]
         /\ \A v \in Writer : v # w => wpc[v] \in {"down", "campaign"}
<1>1. PICK a \in Nat, k \in Nat : Settled(a, k)
  BY DEF OrderInv
<1>2. Current(w) = a + 1 /\ a + 1 <= cursor /\ a + 1 \in Ids /\ cursor \in Nat
  BY <1>1, CurrentIsNext, LenProperties DEF OrderInv, Settled, TypeInv, TypeOK
<1>3. \A i \in Acked : i < a + 1
  BY <1>1, <1>2 DEF Acked, Settled
<1>4. \A i \in done : i <= a + 1
  BY <1>1 DEF Settled
<1>5. ASSUME wpc[w] # "apply"
      PROVE  Current(w) \in done /\ TextOf(disk) = Effect(hist[Current(w)], WithMark(log[Current(w)], FALSE))
  <2>1. a + 1 \in 1..k
    BY <1>1, <1>2, <1>5 DEF QueueInv, HandApplied, Settled
  <2>2. k = a + 1
    BY <1>1, <2>1 DEF Settled
  <2> QED
    BY <1>1, <1>2, <1>5, <2>2 DEF Settled, OrderInv, HistInv, QueueInv, HandApplied
<1>6. InTerm(w)
  BY DEF InTerm
<1>7. live[w]
  BY <1>6 DEF OrderInv, TermInv
<1>8. \A v \in Writer : v # w => wpc[v] \in {"down", "campaign"}
  BY <1>6, Alone DEF OrderInv
<1>9. wpc[w] # "apply" =>
        Current(w) \in done /\ TextOf(disk) = Effect(hist[Current(w)], WithMark(log[Current(w)], FALSE))
  BY <1>5
<1>10. Current(w) \in Nat /\ Current(w) \in Ids
  BY <1>2
<1>11. (\A i \in Acked : i < Current(w)) /\ (\A i \in done : i <= Current(w))
  BY <1>2, <1>3, <1>4
<1> QED
  BY <1>7, <1>8, <1>9, <1>10, <1>11, Zenon

\* Steps that leave what is served as it is, but for what was removed.
LEMMA ServedFrame ==
  ASSUME OneReplica, TypeInv, ServedInv, UNCHANGED <<disk, log, hist, req, requests, done>>,
         \A p \in Path : ~Gone(p) => ws'[p] = ws[p],
         \A p \in Path : Within(ws'[p], IF Asking.pc = "enqueue" THEN requests ELSE Begun),
         ws'[Root] \in {None, Folder},
         \A i : Landed(i)' => Landed(i)
  PROVE  ServedInv'
<1>1. UNCHANGED <<Latest, Expected, Ids, Asking, Begun>>
  BY DEF Latest, Last, Expected, Ids, Begun, Asking
<1>2. \A p : (Removed(p)' <=> Removed(p)) /\ (Made(p)' <=> Made(p)) /\ (Gone(p)' <=> Gone(p))
  BY <1>1 DEF Removed, Made, Gone
<1>3. PlainInv' /\ MadeInv' /\ LatestInv' /\ MarkedInv' /\ AskInv'
  BY <1>1, <1>2 DEF ServedInv, PlainInv, MadeInv, LatestInv, MarkedInv, AskInv, Writes
<1>4. TextInv'
  BY <1>1 DEF ServedInv, TextInv
<1>5. ViewInv'
  BY <1>1, <1>2 DEF ServedInv, ViewInv
<1>6. QueuedInv'
  <2>1. Asking.pc = "enqueue" /\ Asking.op.kind = "write" /\ ~Removed(Asking.op.path) => ~Gone(Asking.op.path)
    BY DEF Gone, Takes
  <2> QED
    BY <1>1, <1>2, <2>1, ServedTypes DEF ServedInv, QueuedInv
<1>7. LandedInv'
  BY <1>1, <1>2, ServedTypes DEF ServedInv, LandedInv, Writes
<1> QED
  BY <1>3, <1>4, <1>5, <1>6, <1>7 DEF ServedInv

\* The same for a step that does not touch the working set either.
LEMMA QuietServed ==
  ASSUME OneReplica, TypeInv, ServedInv, UNCHANGED <<ws, disk, log, hist, req, requests, done>>,
         \A i : Landed(i)' => Landed(i)
  PROVE  ServedInv'
<1>1. \A p \in Path : Within(ws[p], IF Asking.pc = "enqueue" THEN requests ELSE Begun)
  BY DEF ServedInv, TextInv
<1>2. ws[Root] \in {None, Folder}
  BY DEF ServedInv, PlainInv
<1> QED
  BY <1>1, <1>2, ServedFrame

\* Nothing lands but by a writer that comes to its acknowledgement.
LEMMA LandedFrame ==
  ASSUME UNCHANGED Acked, \A v \in Writer : wpc'[v] = "ack" => wpc[v] = "ack" /\ batch'[v] = batch[v]
  PROVE  \A i : Landed(i)' => Landed(i)
  BY DEF Landed, Current

LEMMA HydrateServed ==
  ASSUME OneReplica, TypeInv, QueueInv, OrderInv, ServedInv, NEW w \in Writer, NEW q \in Path, Hydrate(w, q)
  PROVE  ServedInv'
<1>1. /\ ws' = Hydrated(ws, disk, q)
      /\ UNCHANGED <<disk, log, hist, req, requests, done, cursor, pel, wpc, batch>>
  BY DEF Hydrate, app, tree
<1>2. \A i : Landed(i)' => Landed(i)
  <2>1. UNCHANGED Acked
    BY <1>1 DEF Acked
  <2> QED
    BY <1>1, <2>1, LandedFrame
<1>3. CASE ws' = ws
  BY <1>1, <1>2, <1>3, QuietServed
<1>4. CASE ws' # ws
  <2>1. disk[q] # None /\ ws[q] = None /\ ws' = [ws EXCEPT ![Root] = Folder, ![q] = disk[q]]
    BY <1>1, <1>4 DEF Hydrated, OneReplica
  <2>2. Made(q) /\ Made(Root)
    <3>1. Made(q)
      BY <2>1 DEF ServedInv, MadeInv
    <3> QED
      BY <3>1 DEF Made, Makes
  <2>3. Gone(q)
    BY <2>1, <2>2, Filled
  <2>4. \A p \in Path : ws'[p] = (IF p = q THEN disk[q] ELSE IF p = Root THEN Folder ELSE ws[p])
    BY <2>1, ServedTypes
  <2>5. ~Gone(Root) => ws[Root] = Folder
    BY <2>2, Filled, ServedTypes DEF ServedInv, PlainInv
  <2>6. \A p \in Path : ~Gone(p) => ws'[p] = ws[p]
    BY <2>3, <2>4, <2>5
  <2>7. ws'[Root] \in {None, Folder}
    BY <2>4, ServedTypes DEF ServedInv, PlainInv
  <2> DEFINE n == IF Asking.pc = "enqueue" THEN requests ELSE Begun
  <2>8. \A b : Within(b, Begun) => Within(b, n)
    <3>1. requests \in Nat /\ Begun \in {requests, requests - 1}
      BY DEF ServedInv, TextInv, Begun
    <3> QED
      BY <3>1 DEF Within
  <2>9. \A p \in Path : Within(ws'[p], n)
    <3>1. Within(disk[q], n) /\ Within(Folder, n) /\ \A p \in Path : Within(ws[p], n)
      BY <2>8, ServedTypes DEF ServedInv, TextInv, Within
    <3> HIDE DEF n
    <3> QED
      BY <2>4, <3>1
  <2> QED
    BY <1>1, <1>2, <2>6, <2>7, <2>9, ServedFrame
<1> QED
  BY <1>3, <1>4

LEMMA ApplyServed ==
  ASSUME OneReplica, TypeInv, QueueInv, OrderInv, ServedInv, NEW w \in Writer, Apply(w)
  PROVE  ServedInv'
<1>1. PICK c \in Ids : c = Current(w)
  BY HandFacts DEF Apply
<1> DEFINE op == log[c]
<1>2. /\ wpc[w] = "apply" /\ wpc' = [wpc EXCEPT ![w] = "reflect"] /\ done' = done \cup {c}
      /\ UNCHANGED <<ws, log, hist, req, requests, cursor, pel, batch>>
  BY <1>1 DEF Apply, redis, app
<1>3. /\ op \in Op /\ op.data \in Body /\ PlainOp(op) /\ op.path \in Path /\ Within(op.data, Begun)
  BY ServedTypes DEF ServedInv, PlainInv, TextInv
<1>4. PICK m \in Marks(disk[op.path], op.data, op.path \in marked) :
        disk' = Effect(disk, WithMark(op, m))
  BY <1>1 DEF Apply
<1>5. m \in BOOLEAN
  BY <1>3, MarkType, ServedTypes
<1>6. \A p \in Path : disk'[p] = (IF op.kind = "write" /\ p = op.path THEN [text |-> op.data.text, mark |-> m]
                              ELSE IF Makes(op, p) THEN Folder
                              ELSE IF Takes(op, p) THEN None ELSE disk[p])
  BY <1>3, <1>4, <1>5, PlainEffect, ServedTypes
<1> HIDE DEF op
<1>7. UNCHANGED <<Latest, Expected, Ids, Asking, Begun, Acked>>
  BY <1>2 DEF Latest, Last, Expected, Ids, Begun, Asking, Acked
<1>8. \A p : (Removed(p)' <=> Removed(p)) /\ (Made(p)' <=> Made(p)) /\ (Gone(p)' <=> Gone(p))
  BY <1>2, <1>7 DEF Removed, Made, Gone
<1>9. \A i : Landed(i)' => Landed(i)
  <2>1. \A v \in Writer : wpc'[v] = "ack" => wpc[v] = "ack" /\ batch'[v] = batch[v]
    BY <1>2 DEF TypeInv, TypeOK
  <2> QED
    BY <1>7, <2>1, LandedFrame
<1>10. \A p \in Path : Takes(op, p) => Gone(p)
  BY DEF Takes, Gone, Removed, op
<1>11. PlainInv'
  <2>1. disk'[Root] \in {None, Folder}
    BY <1>3, <1>6, ServedTypes DEF ServedInv, PlainInv, PlainOp
  <2> QED
    BY <1>2, <1>7, <2>1 DEF ServedInv, PlainInv
<1>12. TextInv'
  <2>1. \A p \in Path : Within(disk[p], Begun) /\ Within(Folder, Begun) /\ Within(None, Begun)
    BY ServedTypes DEF ServedInv, TextInv, Within
  <2>2. Within([text |-> op.data.text, mark |-> m], Begun)
    BY <1>3, ServedTypes DEF Within
  <2>3. \A p \in Path : Within(disk'[p], Begun)
    BY <1>6, <2>1, <2>2
  <2> QED
    BY <1>2, <1>7, <2>3 DEF ServedInv, TextInv
<1>13. MadeInv'
  <2>1. ASSUME NEW p \in Path, disk'[p] # None PROVE Made(p)
    <3>1. CASE Makes(op, p)
      BY <3>1 DEF Made, op
    <3>2. CASE ~Makes(op, p)
      <4>1. disk[p] # None
        BY <1>6, <2>1, <3>2 DEF Makes
      <4> QED
        BY <4>1 DEF ServedInv, MadeInv
    <3> QED
      BY <3>1, <3>2
  <2> QED
    BY <1>7, <1>8, <2>1 DEF ServedInv, MadeInv
<1>14. LatestInv' /\ ViewInv' /\ QueuedInv' /\ AskInv'
  BY <1>2, <1>7, <1>8 DEF ServedInv, LatestInv, ViewInv, QueuedInv, AskInv, Writes
\* The op lands on its own note: a marker it carries is there afterwards.
<1>15. ASSUME op.kind = "write", op.data.mark PROVE m
  BY <1>3, <1>15 DEF Marks, Body
<1>16. \A i \in Ids : op.kind = "write" /\ log[i].kind = "write" /\ log[i].data.text = op.data.text => i = c
  BY DEF ServedInv, TextInv, op
<1>17. MarkedInv'
  <2> SUFFICES ASSUME NEW p \in Note, NEW i \in Ids, disk'[p] # None, Writes(i, p),
                      disk'[p].text = log[i].data.text, log[i].data.mark
               PROVE  disk'[p].mark
    BY <1>2, <1>7 DEF MarkedInv, Writes
  <2>1. p \in Path /\ p # Root
    BY ServedTypes
  <2>2. CASE op.kind = "write" /\ p = op.path
    <3>1. disk'[p] = [text |-> op.data.text, mark |-> m]
      BY <1>6, <2>1, <2>2
    <3>2. i = c
      BY <1>16, <2>2, <3>1 DEF Writes
    <3> QED
      BY <1>15, <2>2, <3>1, <3>2 DEF op
  <2>3. CASE ~(op.kind = "write" /\ p = op.path)
    <3>1. disk'[p] = disk[p]
      BY <1>6, <2>1, <2>3 DEF Makes
    <3> QED
      BY <3>1 DEF ServedInv, MarkedInv
  <2> QED
    BY <2>2, <2>3
<1>18. LandedInv'
  <2> SUFFICES ASSUME NEW p \in Note, NEW i \in Ids, ~Gone(p), Writes(i, p), ws[p] # None,
                      ws[p].text = log[i].data.text
               PROVE  (ws[p] = log[i].data \/ (i \in done' /\ ws[p] = disk'[p])) /\ (Landed(i) => ws[p] = disk'[p])
    BY <1>2, <1>7, <1>8, <1>9 DEF LandedInv, Writes
  <2>1. p \in Path /\ p # Root
    BY ServedTypes
  <2>2. (ws[p] = log[i].data \/ (i \in done /\ ws[p] = disk[p])) /\ (Landed(i) => ws[p] = disk[p])
    BY DEF ServedInv, LandedInv
  <2>3. CASE ~(op.kind = "write" /\ p = op.path)
    <3>1. disk'[p] = disk[p]
      BY <1>6, <1>10, <2>1, <2>3 DEF Makes
    <3> QED
      BY <1>2, <2>2, <3>1
  <2>4. CASE op.kind = "write" /\ p = op.path
    <3>1. c <= i
      <4>1. Expected[p].text = log[i].data.text /\ Expected[p] # None
        <5>1. Expected[p] = Unmarked(ws[p]) /\ ws[p] \in Body
          BY <2>1, ServedTypes DEF ServedInv, ViewInv
        <5> QED
          BY <5>1, UnmarkedBody
      <4>2. Expected[p] = Latest[p]
        <5> SUFFICES ASSUME Asking.pc = "enqueue" PROVE Expected[p] = Latest[p]
          BY DEF Expected
        <5>1. Asking.op \in Op /\ PlainOp(Asking.op) /\ ~Takes(Asking.op, p)
          BY ServedTypes DEF ServedInv, PlainInv, Gone
        <5>2. ~(Asking.op.kind = "write" /\ p = Asking.op.path)
          <6> SUFFICES ASSUME Asking.op.kind = "write", p = Asking.op.path PROVE FALSE
            OBVIOUS
          <6>1. ws[p] = Asking.op.data
            BY DEF ServedInv, QueuedInv, Gone
          <6>2. requests \in log[i].data.text
            BY <6>1 DEF ServedInv, TextInv
          <6>3. log[i].data.text \subseteq 1..(requests - 1) /\ requests \in Nat
            BY ServedTypes DEF ServedInv, TextInv, Within, Begun
          <6> QED
            BY <6>2, <6>3
        <5>3. ~Makes(Asking.op, p)
          BY <2>1, <5>2 DEF Makes
        <5>4. Expected[p] = Effect(Latest, WithMark(Asking.op, FALSE))[p]
          BY DEF Expected
        <5> QED
          BY <2>1, <5>1, <5>2, <5>3, <5>4, PlainEffect, ServedTypes
      <4>3. Writes(c, p) /\ ~Removed(p)
        BY <2>4 DEF Writes, op, Gone
      <4> QED
        BY <4>1, <4>2, <4>3 DEF ServedInv, LatestInv
    <3>2. ~Landed(i)
      <4>1. i \notin Acked
        <5>1. c \in Nat /\ \A j \in Acked : j < c
          BY <1>1, <1>2, HandFacts
        <5>2. i \in Nat
          BY ServedTypes DEF Ids
        <5> QED
          BY <3>1, <5>1, <5>2
      <4>2. \A v \in Writer : wpc[v] # "ack"
        BY <1>2, HandFacts
      <4> QED
        BY <4>1, <4>2 DEF Landed
    <3>3. CASE ws[p] = log[i].data
      BY <3>2, <3>3
    <3>4. CASE i \in done /\ ws[p] = disk[p]
      <4>1. i = c
        <5>1. i <= c /\ c \in Nat
          BY <1>1, <1>2, <3>4, HandFacts
        <5>2. i \in Nat
          BY ServedTypes DEF Ids
        <5> QED
          BY <3>1, <5>1, <5>2
      <4>2. disk'[p] = [text |-> op.data.text, mark |-> m] /\ disk[p] \in Body /\ disk[p].text = op.data.text
        BY <1>6, <2>1, <2>4, <3>4, <4>1, ServedTypes DEF op
      <4>3. CASE disk[p].mark
        <5>1. m = TRUE
          BY <1>4, <2>4, <4>2, <4>3, UnmarkedBody DEF Marks
        <5> QED
          BY <1>2, <3>2, <3>4, <4>1, <4>2, <4>3, <5>1 DEF Body
      <4>4. CASE ~disk[p].mark
        <5>1. ~op.data.mark
          BY <3>4, <4>1, <4>4 DEF ServedInv, MarkedInv, op
        <5> QED
          BY <1>3, <3>2, <3>4, <4>1, <4>2, <4>4, <5>1 DEF Body, op
      <4> QED
        BY <4>3, <4>4
    <3> QED
      BY <2>2, <3>3, <3>4
  <2> QED
    BY <2>3, <2>4
<1> QED
  BY <1>11, <1>12, <1>13, <1>14, <1>17, <1>18 DEF ServedInv

LEMMA ReflectServed ==
  ASSUME OneReplica, TypeInv, QueueInv, OrderInv, ServedInv, NEW w \in Writer, Reflect(w)
  PROVE  ServedInv'
<1>1. PICK c \in Ids : c = Current(w)
  BY HandFacts DEF Reflect
<1> DEFINE op == log[c]
<1>2. /\ wpc[w] = "reflect" /\ wpc' = [wpc EXCEPT ![w] = "ack"]
      /\ UNCHANGED <<disk, log, hist, req, requests, done, cursor, pel, batch>>
  BY DEF Reflect, app, tree
<1>3. /\ op \in Op /\ op.data \in Body /\ PlainOp(op) /\ op.path \in Path /\ Within(op.data, Begun)
  BY ServedTypes DEF ServedInv, PlainInv, TextInv
<1>4. ws' = Reflected(ws, disk, op) /\ c \in done /\ TextOf(disk) = Effect(hist[c], WithMark(op, FALSE))
  BY <1>1, <1>2, HandFacts DEF Reflect
<1>5. /\ requests \in Nat /\ requests <= MaxRequests /\ Begun \in Nat /\ Begun <= requests
      /\ MaxRequests \in Nat /\ (requests # Begun => Begun = requests - 1)
  BY HaAssumption DEF ServedInv, TextInv, Begun
<1>6. ASSUME op.kind = "write"
      PROVE  disk[op.path] \in Body /\ disk[op.path].text = op.data.text /\ Size(disk[op.path]) <= Cap
  <2>1. hist[c] \in Tree
    <3>1. hist \in Seq(Tree) /\ Len(hist) = Len(log) + 1 /\ Len(log) \in Nat
      BY LenProperties DEF TypeInv, TypeOK
    <3> QED
      BY <3>1, ElementOfSeq DEF Ids
  <2>2. Unmarked(disk[op.path]) = [text |-> op.data.text, mark |-> FALSE]
    <3> HIDE DEF op
    <3>1. FALSE \in BOOLEAN
      OBVIOUS
    <3>2. Effect(hist[c], WithMark(op, FALSE))[op.path] = [text |-> op.data.text, mark |-> FALSE]
      BY <1>3, <1>6, <2>1, <3>1, PlainEffect
    <3>3. TextOf(disk)[op.path] = [text |-> op.data.text, mark |-> FALSE]
      BY <1>4, <3>2
    <3> QED
      BY <1>3, <3>3 DEF TextOf
  <2>3. disk[op.path] # None
    BY <1>3, <2>2, UnmarkedBody
  <2>4. disk[op.path] \in Body
    BY <1>3, <2>3, ServedTypes
  <2>5. disk[op.path].text = op.data.text
    BY <2>2, <2>4, UnmarkedBody
  <2>6. Within(disk[op.path], Begun)
    BY <1>3 DEF ServedInv, TextInv
  <2>7. Begun <= MaxRequests
    BY <1>5
  <2> QED
    BY <1>5, <2>4, <2>5, <2>6, <2>7, Fits
<1> DEFINE lands == op.kind = "write" /\ ws[op.path] \in {None, op.data}
<1>7. \A p \in Path : ws'[p] =
        (IF op.kind = "write"
         THEN IF ~lands THEN ws[p]
              ELSE IF p = op.path THEN disk[op.path]
              ELSE IF p = Root THEN Folder ELSE ws[p]
         ELSE IF Makes(op, p) THEN Folder
         ELSE IF Takes(op, p) THEN None ELSE ws[p])
  <2>1. op.kind = "write" => disk[op.path] # None /\ Size(disk[op.path]) <= Cap
    BY <1>6, ServedTypes
  <2> QED
    BY <1>3, <1>4, <2>1, PlainReflected, ServedTypes
<1>8. UNCHANGED <<Latest, Expected, Ids, Asking, Begun, Acked>>
  BY <1>2 DEF Latest, Last, Expected, Ids, Begun, Asking, Acked
<1>9. \A p : (Removed(p)' <=> Removed(p)) /\ (Made(p)' <=> Made(p)) /\ (Gone(p)' <=> Gone(p))
  BY <1>2, <1>8 DEF Removed, Made, Gone
<1>10. \A i : Landed(i)' => Landed(i) \/ i = c
  <2>1. \A v \in Writer : v # w => wpc'[v] # "ack"
    BY <1>2, HandFacts DEF TypeInv, TypeOK
  <2>2. Current(w)' = c
    BY <1>1, <1>2 DEF Current
  <2> QED
    BY <1>8, <2>1, <2>2 DEF Landed
<1>11. \A p \in Path : Takes(op, p) => Gone(p)
  BY DEF Takes, Gone, Removed
<1>12. \A p \in Path : Makes(op, p) => Made(p)
  BY DEF Made
<1> HIDE DEF op
<1>13. \A p \in Path : ~Gone(p) /\ Makes(op, p) => ws[p] # None
  BY <1>12, Filled
\* The workspace, and every note the op is not about, look as before.
<1>14. \A p \in Path : ~Gone(p) /\ ~(op.kind = "write" /\ p = op.path) => ws'[p] = ws[p]
  <2> SUFFICES ASSUME NEW p \in Path, ~Gone(p), ~(op.kind = "write" /\ p = op.path) PROVE ws'[p] = ws[p]
    OBVIOUS
  <2>1. ~Takes(op, p)
    BY <1>11
  <2>2. CASE p = Root /\ Makes(op, p)
    <3>1. ws[p] = Folder
      BY <1>13, <2>2 DEF ServedInv, PlainInv
    <3> QED
      BY <1>7, <2>2, <3>1
  <2>3. CASE ~(p = Root /\ Makes(op, p))
    <3>1. ~Makes(op, p)
      BY <2>3 DEF Makes
    <3>2. ~(op.kind = "write" /\ p = Root)
      BY <2>3 DEF Makes
    <3> QED
      BY <1>7, <2>1, <3>1, <3>2
  <2> QED
    BY <2>2, <2>3
\* Its own note, which is there, shows what landed if it showed the queued body.
<1>15. ASSUME op.kind = "write", ~Gone(op.path)
       PROVE  /\ ws[op.path] # None
              /\ ws'[op.path] = IF ws[op.path] = op.data THEN disk[op.path] ELSE ws[op.path]
  <2>1. ws[op.path] # None
    BY <1>3, <1>13, <1>15 DEF Makes
  <2> QED
    BY <1>3, <1>7, <1>15, <2>1
<1>16. PlainInv'
  <2>1. {ws[Root], disk[Root]} \subseteq {None, Folder}
    BY DEF ServedInv, PlainInv
  <2>2. ws'[Root] \in {None, Folder}
    BY <1>3, <1>7, <2>1, ServedTypes
  <2> QED
    BY <1>2, <1>8, <2>2 DEF ServedInv, PlainInv
<1>17. TextInv'
  <2> DEFINE n == IF Asking.pc = "enqueue" THEN requests ELSE Begun
  <2>1. \A b : Within(b, Begun) => Within(b, n)
    BY <1>5 DEF Within
  <2>2. \A p \in Path : Within(disk[p], n) /\ Within(ws[p], n) /\ Within(Folder, n) /\ Within(None, n)
    BY <2>1, ServedTypes DEF ServedInv, TextInv, Within
  <2> HIDE DEF n
  <2>3. \A p \in Path : Within(ws'[p], n)
    BY <1>3, <1>7, <2>2
  <2> QED
    BY <1>2, <1>8, <2>3 DEF ServedInv, TextInv, n
<1>18. MadeInv' /\ LatestInv' /\ MarkedInv' /\ AskInv'
  BY <1>2, <1>8, <1>9 DEF ServedInv, MadeInv, LatestInv, MarkedInv, AskInv, Writes
<1>19. ViewInv'
  <2> SUFFICES ASSUME NEW p \in Path, ~Gone(p) PROVE Unmarked(ws'[p]) = Unmarked(ws[p])
    BY <1>8, <1>9 DEF ServedInv, ViewInv
  <2>1. CASE ~(op.kind = "write" /\ p = op.path)
    BY <1>14, <2>1
  <2>2. CASE op.kind = "write" /\ p = op.path
    <3>1. Unmarked(disk[p]) = [text |-> op.data.text, mark |-> FALSE] /\ Unmarked(op.data) = [text |-> op.data.text, mark |-> FALSE]
      BY <1>3, <1>6, <2>2, UnmarkedBody
    <3> QED
      BY <1>15, <2>2, <3>1
  <2> QED
    BY <2>1, <2>2
<1>20. QueuedInv'
  <2> SUFFICES ASSUME Asking.pc = "enqueue", Asking.op.kind = "write", ~Removed(Asking.op.path)
               PROVE  ws'[Asking.op.path] = ws[Asking.op.path]
    BY <1>8, <1>9 DEF ServedInv, QueuedInv
  <2>1. ~Gone(Asking.op.path) /\ Asking.op.path \in Path
    BY ServedTypes DEF Gone, Takes
  <2>2. CASE ~(op.kind = "write" /\ Asking.op.path = op.path)
    BY <1>14, <2>1, <2>2
  <2>3. CASE op.kind = "write" /\ Asking.op.path = op.path
    <3>1. ws[op.path] = Asking.op.data
      BY <2>3 DEF ServedInv, QueuedInv
    <3>2. requests \in Asking.op.data.text /\ Begun = requests - 1
      BY DEF ServedInv, TextInv, Begun
    <3>3. op.data.text \subseteq 1..Begun
      BY <1>3, ServedTypes DEF Within
    <3>4. ws[op.path] # op.data
      BY <1>5, <3>1, <3>2, <3>3
    <3> QED
      BY <1>15, <2>1, <2>3, <3>4
  <2> QED
    BY <2>2, <2>3
<1>21. LandedInv'
  <2> SUFFICES ASSUME NEW p \in Note, NEW i \in Ids, ~Gone(p), Writes(i, p), ws'[p] # None,
                      ws'[p].text = log[i].data.text
               PROVE  /\ ws'[p] = log[i].data \/ (i \in done /\ ws'[p] = disk[p])
                      /\ Landed(i) \/ i = c => ws'[p] = disk[p]
    BY <1>2, <1>8, <1>9, <1>10 DEF LandedInv, Writes
  <2>1. p \in Path /\ p # Root
    BY ServedTypes
  <2>2. CASE ~(op.kind = "write" /\ p = op.path)
    <3>1. ws'[p] = ws[p]
      BY <1>14, <2>1, <2>2
    <3>2. i # c
      BY <2>2 DEF Writes, op
    <3> QED
      BY <3>1, <3>2 DEF ServedInv, LandedInv
  <2>3. CASE op.kind = "write" /\ p = op.path /\ ws[p] = op.data
    <3>1. ws'[p] = disk[p] /\ disk[p].text = op.data.text
      BY <1>6, <1>15, <2>3
    <3>2. i = c
      BY <2>3, <3>1 DEF ServedInv, TextInv, Writes, op
    <3> QED
      BY <1>4, <3>1, <3>2
  <2>4. CASE op.kind = "write" /\ p = op.path /\ ws[p] # op.data
    <3>1. ws'[p] = ws[p] /\ ws[p] # None
      BY <1>15, <2>4
    <3>2. /\ ws[p] = log[i].data \/ (i \in done /\ ws[p] = disk[p])
          /\ Landed(i) => ws[p] = disk[p]
      BY <3>1 DEF ServedInv, LandedInv
    <3>3. i = c => ws[p] = disk[p]
      BY <2>4, <3>2 DEF op
    <3> QED
      BY <3>1, <3>2, <3>3
  <2> QED
    BY <2>2, <2>3, <2>4
<1> QED
  BY <1>16, <1>17, <1>18, <1>19, <1>20, <1>21 DEF ServedInv

\* Of the other steps of a writer only an acknowledgement says that an op
\* landed, of the op that was about to be acknowledged.
LEMMA WriterServed ==
  ASSUME OneReplica, TypeInv, QueueInv, OrderInv, ServedInv,
         NEW w \in Writer, WriterStep(w) \/ KeepCancels(w) \/ WriterFault(w)
  PROVE  ServedInv'
<1>0. ~Fails("renew") /\ ~Fails("apply") /\ ~Fails("ack")
  BY DEF OneReplica, Orderly, Fails
<1>1. CASE Apply(w)
  BY <1>1, ApplyServed
<1>2. CASE Reflect(w)
  BY <1>2, ReflectServed
<1>3. CASE \E p \in Path : Hydrate(w, p)
  BY <1>3, HydrateServed
<1>4. DOMAIN wpc = Writer /\ DOMAIN batch = Writer /\ cursor \in Nat /\ pel \subseteq 1..cursor
  BY ServedTypes DEF TypeInv, TypeOK
<1>5. CASE Deliver(w)
  <2>1. /\ UNCHANGED <<ws, disk, log, hist, req, requests, done>>
        /\ wpc' = [wpc EXCEPT ![w] = "next"] /\ batch' = [batch EXCEPT ![w] = (cursor + 1)..ReadUpTo]
        /\ cursor' = ReadUpTo /\ pel' = pel \cup (cursor + 1)..ReadUpTo
    BY <1>5 DEF Deliver, app, tree
  <2>2. ReadUpTo \in Nat /\ cursor <= ReadUpTo
    BY <1>4, HaAssumption, ServedTypes DEF ReadUpTo
  <2>3. UNCHANGED Acked
    BY <1>4, <2>1, <2>2 DEF Acked
  <2>4. \A v \in Writer : wpc'[v] = "ack" => wpc[v] = "ack" /\ batch'[v] = batch[v]
    BY <1>4, <2>1
  <2> QED
    BY <2>1, <2>3, <2>4, LandedFrame, QuietServed
<1>6. CASE Ack(w)
  <2>1. /\ UNCHANGED <<ws, disk, log, hist, req, requests, done, cursor>>
        /\ wpc' = [wpc EXCEPT ![w] = "next"] /\ pel' = pel \ {Current(w)} /\ wpc[w] = "ack"
        /\ \A v \in Writer : v # w => batch'[v] = batch[v]
    BY <1>4, <1>6 DEF Ack, Leave, app, tree
  <2>2. Acked' \subseteq Acked \cup {Current(w)}
    BY <2>1 DEF Acked
  <2>3. \A v \in Writer : wpc'[v] = "ack" => wpc[v] = "ack" /\ Current(v)' = Current(v)
    BY <1>4, <2>1 DEF Current
  <2>4. \A i : Landed(i)' => Landed(i)
    BY <2>1, <2>2, <2>3 DEF Landed
  <2> QED
    BY <2>1, <2>4, QuietServed
<1>7. CASE \/ Restart(w) \/ Campaign(w) \/ EndTerm(w) \/ HydrateDone(w) \/ Reclaim(w) \/ Take(w)
           \/ BatchDone(w) \/ TrimRead(w) \/ TrimPending(w) \/ TrimCut(w) \/ QueueFails(w)
           \/ TrimSkip(w) \/ Crash(w)
  <2>1. /\ UNCHANGED <<ws, disk, log, hist, req, requests, done, cursor, pel>>
        /\ \A v \in Writer : v # w => wpc'[v] = wpc[v] /\ batch'[v] = batch[v]
        /\ wpc'[w] # "ack"
    BY <1>4, <1>7 DEF Restart, Campaign, EndTerm, HydrateDone, Reclaim, Take, BatchDone, TrimRead,
         TrimPending, TrimCut, QueueFails, TrimSkip, Crash, BackToCampaign, redis, app, tree
  <2>2. UNCHANGED Acked
    BY <2>1 DEF Acked
  <2> QED
    BY <2>1, <2>2, LandedFrame, QuietServed
<1>8. ~KeepCancels(w) /\ ~ApplyFails(w) /\ ~AckFails(w)
  <2>1. ~KeepCancels(w)
    BY <1>0 DEF OrderInv, TermInv, KeepCancels
  <2>2. ~ApplyFails(w)
    BY <1>0 DEF ApplyFails
  <2>3. ~AckFails(w)
    BY <1>0 DEF OrderInv, TermInv, InTerm, AckFails
  <2> QED
    BY <2>1, <2>2, <2>3
<1> QED
  BY <1>1, <1>2, <1>3, <1>5, <1>6, <1>7, <1>8 DEF WriterStep, WriterFault

LEMMA ServedStep ==
  ASSUME OneReplica, TypeInv, QueueInv, OrderInv, ServedInv, [Next]_vars
  PROVE  ServedInv'
<1>1. ASSUME NEW s \in Session, SessionStep(s) PROVE ServedInv'
  BY <1>1, StartsServed, PublishServed, EnqueueServed
<1>2. ASSUME NEW w \in Writer, WriterStep(w) \/ KeepCancels(w) \/ WriterFault(w) PROVE ServedInv'
  BY <1>2, WriterServed
<1>3. CASE Expire \/ UNCHANGED vars
  <2>1. UNCHANGED <<ws, disk, log, hist, req, requests, done, cursor, pel, wpc, batch>>
    BY <1>3 DEF Expire, vars, redis, local, app, tree
  <2>2. UNCHANGED Acked
    BY <2>1 DEF Acked
  <2> QED
    BY <2>1, <2>2, LandedFrame, QuietServed
<1> QED
  BY <1>1, <1>2, <1>3 DEF Next

THEOREM ServedCorrect ==
  ASSUME OneReplica
  PROVE  Spec => [](TypeInv /\ QueueInv /\ OrderInv /\ ServedInv)
<1>1. Orderly
  BY DEF OneReplica
<1>2. Init => ServedInv
  BY InitServed
<1>3. TypeInv /\ QueueInv /\ OrderInv /\ ServedInv /\ [Next]_vars => ServedInv'
  BY ServedStep
<1>4. Spec => [](TypeInv /\ QueueInv /\ OrderInv)
  BY <1>1, OrderCorrect
<1> QED
  BY <1>2, <1>3, <1>4, PTL DEF Spec

\* Once no request is in progress and the writer has caught up, what replicas
\* serve is what is on disk, markers included, but for a note that was removed
\* once: for every number of writers, notes, requests, crashes, queue errors
\* and lost deletes (QueuedStorage.WriteFile, writer.apply, CompareAndSet,
\* hydrate, reclaimPending).
THEOREM DrainedHolds ==
  ASSUME OneReplica
  PROVE  Spec => []DrainedAgree
<1>1. ASSUME TypeInv, OrderInv, ServedInv PROVE DrainedAgree
  <2> SUFFICES ASSUME Quiet, Drained, NEW p \in Path \ Linked, ~Removed(p)
               PROVE  ws[p] = disk[p]
    BY DEF DrainedAgree
  <2>1. Asking.pc = "idle"
    BY <1>1, ServedTypes DEF Quiet, Asking
  <2>2. TextOf(disk) = Latest
    <3>1. PICK a \in Nat, k \in Nat : Settled(a, k)
      BY <1>1 DEF OrderInv
    <3>2. k = cursor
      <4>1. cursor \in Nat /\ (a + 1)..cursor = {} /\ k \in {a, a + 1} /\ k <= cursor
        BY <1>1, <3>1, ServedTypes DEF Settled, Drained
      <4>2. ~(a + 1 <= cursor)
        BY <4>1
      <4> QED
        BY <4>1, <4>2
    <3>3. Len(hist) = cursor + 1
      BY <1>1 DEF TypeInv, TypeOK, Drained
    <3> QED
      BY <3>1, <3>2, <3>3 DEF Settled, Latest, Last
  <2>3. Unmarked(ws[p]) = Latest[p] /\ Unmarked(disk[p]) = Latest[p]
    <3>1. ~Gone(p)
      BY <2>1 DEF Gone
    <3>2. Unmarked(ws[p]) = Expected[p] /\ Expected = Latest
      BY <1>1, <2>1, <3>1 DEF ServedInv, ViewInv, Expected
    <3>3. TextOf(disk)[p] = Unmarked(disk[p])
      BY DEF TextOf
    <3> QED
      BY <2>2, <3>2, <3>3
  <2>4. {ws[p], disk[p]} \subseteq Body \cup {None}
    BY <1>1, ServedTypes
  <2>5. CASE Latest[p] = None
    BY <2>3, <2>4, <2>5, UnmarkedBody
  <2>6. CASE Latest[p] # None /\ p = Root
    BY <1>1, <2>3, <2>6, UnmarkedBody, ServedTypes DEF ServedInv, PlainInv
  <2>7. CASE Latest[p] # None /\ p # Root
    <3>1. p \in Note
      BY <1>1, <2>7, ServedTypes
    <3>2. PICK i \in Ids : Writes(i, p) /\ log[i].data.text = Latest[p].text
      BY <1>1, <2>7, <3>1 DEF ServedInv, LatestInv
    <3>3. ws[p] # None /\ ws[p].text = Latest[p].text
      <4>1. Unmarked(None) = None
        BY DEF Unmarked
      <4> QED
        BY <2>3, <2>4, <2>7, <4>1, UnmarkedBody
    <3>4. Landed(i)
      BY DEF Landed, Acked, Drained, Ids
    <3> QED
      BY <1>1, <2>1, <3>1, <3>2, <3>3, <3>4 DEF ServedInv, LandedInv, Gone
  <2> QED
    BY <2>5, <2>6, <2>7
<1> QED
  BY <1>1, ServedCorrect, PTL

\* A PATCH, a chat post or a comment adds exactly its own piece to the latest
\* accepted body of its note, whatever the writers are doing to the working set
\* meanwhile (QueuedStorage.Append, ReadFile).
THEOREM ExtendsHolds ==
  ASSUME OneReplica
  PROVE  Spec => []ExtendsLatest
<1>1. ASSUME TypeInv, ServedInv PROVE ExtendsLatest
  <2> SUFFICES ASSUME NEW s \in Session, req[s].pc # "idle", req[s].asked \in {"patch", "append"},
                      ~Removed(req[s].op.path)
               PROVE  LET latest == Last(hist)[req[s].op.path]
                          prior  == IF latest = None THEN {} ELSE latest.text
                      IN  /\ prior \subseteq req[s].op.data.text
                          /\ Cardinality(req[s].op.data.text \ prior) = 1
    BY DEF ExtendsLatest
  <2> DEFINE prior == IF Latest[Asking.op.path] = None THEN {} ELSE Latest[Asking.op.path].text
  <2>1. req[s] = Asking /\ Last(hist) = Latest
    BY OnlyMe DEF Asking, Latest
  <2>2. Asking.op.data.text = {requests} \cup prior
    BY <1>1, <2>1 DEF ServedInv, AskInv
  <2>3. requests \notin prior
    <3>1. requests \in Nat /\ Within(Latest[Asking.op.path], requests - 1)
      BY <1>1, <2>1, ServedTypes DEF ServedInv, TextInv, Begun
    <3> QED
      BY <3>1 DEF Within
  <2> HIDE DEF prior
  <2>4. Asking.op.data.text \ prior = {requests}
    BY <2>2, <2>3
  <2>5. Cardinality(Asking.op.data.text \ prior) = 1
    BY <2>4, FS_Singleton
  <2> QED
    BY <2>1, <2>2, <2>5 DEF prior
<1> QED
  BY <1>1, ServedCorrect, PTL

=============================================================================
