---------------------------- MODULE NoteApi_proofs ----------------------------
(***************************************************************************)
(* Proofs about the note lock by itself (KeyedMutex): whatever goroutines  *)
(* ask for whatever keys, two never hold one key, and the table holds the  *)
(* keys in use and no other.  And about NoteApi: for any notes, clients    *)
(* and mix of requests, the lock excludes, and a note whose writers all    *)
(* take it is a versioned register, whatever the handlers without the lock *)
(* do to other notes.                                                      *)
(***************************************************************************)
EXTENDS NoteApi, FiniteSetTheorems, TLAPS

-----------------------------------------------------------------------------
(* The lock by itself.                                                     *)

MutexSpec == MutexInit /\ [][MutexNext]_mutex

\* Who counts as a user of an object: m.refs is their number.
Users(o) == {p \in Proc : handle[p] = o}

\* Whoever is under way has its key's object.
InTable ==
  \A p \in Proc : /\ phase[p] # "out" => /\ handle[p] \in Obj /\ key[p] \in Key
                                         /\ locks[key[p]] = handle[p]
                  /\ phase[p] = "out" => handle[p] = None

OneKey == \A k, l \in Key : locks[k] # None /\ locks[k] = locks[l] => k = l

Counted == \A k \in Key : locks[k] # None =>
             refs[locks[k]] = Cardinality(Users(locks[k])) /\ Users(locks[k]) # {}

Owned == /\ \A p \in Proc : phase[p] = "in" => owner[handle[p]] = p
         /\ \A o \in Obj : owner[o] # None => phase[owner[o]] = "in" /\ handle[owner[o]] = o

MutexInv == MutexTypeOK /\ InTable /\ OneKey /\ Counted /\ Owned

\* The sets of users are finite, so their numbers are natural numbers.
LEMMA UsersFinite == \A o : IsFiniteSet(Users(o)) /\ Cardinality(Users(o)) \in Nat
  BY MutexAssumption, FS_Subset, FS_CardinalityType DEF Users

\* At the start nobody asked for anything.
LEMMA MutexStart == MutexInit => MutexInv
  BY MutexAssumption DEF MutexInit, MutexInv, MutexTypeOK, InTable, OneKey, Counted, Owned

\* A goroutine joins an entry, or makes one.
LEMMA LookKeeps ==
  ASSUME MutexInv, NEW p \in Proc, NEW k \in Key, Look(p, k)
  PROVE  MutexInv'
<1> USE MutexAssumption DEF MutexInv
<1>1. PICK o \in Obj :
        /\ IF locks[k] = None THEN Unused(o) ELSE o = locks[k]
        /\ locks' = [locks EXCEPT ![k] = o]
        /\ refs' = [refs EXCEPT ![o] = (IF locks[k] = None THEN 0 ELSE @) + 1]
        /\ handle' = [handle EXCEPT ![p] = o]
  BY DEF Look
<1>2. /\ phase[p] = "out" /\ handle[p] = None
      /\ phase' = [phase EXCEPT ![p] = "wait"] /\ key' = [key EXCEPT ![p] = k]
      /\ owner' = owner
  BY DEF Look, InTable
<1>3. MutexTypeOK'
  BY <1>1, <1>2 DEF MutexTypeOK
<1>4. InTable'
  BY <1>1, <1>2 DEF InTable, MutexTypeOK, Unused
<1>5. OneKey'
  BY <1>1, <1>2 DEF OneKey, MutexTypeOK, Unused
<1>6. Counted'
  <2> SUFFICES ASSUME NEW l \in Key, locks'[l] # None
               PROVE  LET U == {q \in Proc : handle'[q] = locks'[l]}
                      IN  refs'[locks'[l]] = Cardinality(U) /\ U # {}
    BY DEF Counted, Users
  <2>1. CASE l = k
    <3>1. locks'[l] = o /\ o # None
      BY <1>1, <2>1 DEF MutexTypeOK
    <3>2. {q \in Proc : handle'[q] = o} = Users(o) \cup {p} /\ p \notin Users(o)
      BY <1>1, <1>2, <3>1 DEF Users, MutexTypeOK
    <3>3. Cardinality(Users(o) \cup {p}) = Cardinality(Users(o)) + 1
      BY <3>2, UsersFinite, FS_AddElement
    <3>4. refs'[o] = Cardinality(Users(o)) + 1
      <4>1. CASE locks[k] = None
        <5>1. Users(o) = {}
          BY <1>1, <4>1 DEF Unused, Users
        <5>2. Cardinality(Users(o)) = 0
          BY <5>1, FS_EmptySet
        <5> QED  BY <1>1, <4>1, <5>2 DEF MutexTypeOK
      <4>2. CASE locks[k] # None
        BY <1>1, <4>2 DEF Counted, MutexTypeOK
      <4> QED  BY <4>1, <4>2
    <3> QED  BY <3>1, <3>2, <3>3, <3>4 DEF Users
  <2>2. CASE l # k
    <3>1. locks'[l] = locks[l] /\ locks[l] # o /\ locks[l] # None
      BY <1>1, <2>2 DEF MutexTypeOK, OneKey, Unused
    <3>2. {q \in Proc : handle'[q] = locks[l]} = Users(locks[l])
      BY <1>1, <1>2, <3>1 DEF Users, MutexTypeOK
    <3>3. refs'[locks[l]] = refs[locks[l]]
      BY <1>1, <3>1 DEF MutexTypeOK
    <3> QED  BY <3>1, <3>2, <3>3 DEF Counted, Users
  <2> QED  BY <2>1, <2>2
<1>7. Owned'
  BY <1>1, <1>2 DEF Owned, MutexTypeOK, Unused
<1> QED  BY <1>3, <1>4, <1>5, <1>6, <1>7

\* The lock changes hands: only the owner and the phase change.
LEMMA HandOverKeeps ==
  ASSUME MutexInv, NEW p \in Proc, Acquire(p) \/ Release(p)
  PROVE  MutexInv'
<1> USE MutexAssumption DEF MutexInv
<1>1. UNCHANGED <<locks, refs, handle, key>>
  BY DEF Acquire, Release
<1>2. MutexTypeOK' /\ InTable'
  BY <1>1 DEF Acquire, Release, MutexTypeOK, InTable
<1>3. OneKey' /\ Counted'
  BY <1>1 DEF OneKey, Counted, Users
<1>4. Owned'
  BY <1>1 DEF Acquire, Release, MutexTypeOK, InTable, Owned
<1> QED  BY <1>2, <1>3, <1>4

\* A goroutine counts itself out; the last one takes the entry along.
LEMMA ForgetKeeps ==
  ASSUME MutexInv, NEW p \in Proc, Forget(p)
  PROVE  MutexInv'
<1> USE MutexAssumption DEF MutexInv
<1> DEFINE o == handle[p]
           k == key[p]
<1>1. /\ phase[p] = "leave" /\ o \in Obj /\ k \in Key /\ locks[k] = o
      /\ refs' = [refs EXCEPT ![o] = @ - 1]
      /\ locks' = IF refs'[o] = 0 THEN [locks EXCEPT ![k] = None] ELSE locks
      /\ handle' = [handle EXCEPT ![p] = None] /\ key' = [key EXCEPT ![p] = None]
      /\ phase' = [phase EXCEPT ![p] = "out"] /\ owner' = owner
  BY DEF Forget, InTable
<1>2. p \in Users(o) /\ refs[o] = Cardinality(Users(o))
  BY <1>1 DEF Users, Counted
<1>3. \A x : {q \in Proc : handle'[q] = x} = IF x = None THEN Users(x) \cup {p} ELSE Users(x) \ {p}
  BY <1>1 DEF Users, MutexTypeOK
<1>4. /\ Cardinality(Users(o) \ {p}) = Cardinality(Users(o)) - 1
      /\ Cardinality(Users(o)) \in Nat \ {0}
  BY <1>2, UsersFinite, FS_RemoveElement, FS_EmptySet
<1>5. refs'[o] = Cardinality(Users(o) \ {p})
  BY <1>1, <1>2, <1>4 DEF MutexTypeOK
<1>6. refs'[o] = 0 <=> Users(o) \ {p} = {}
  <2>1. IsFiniteSet(Users(o) \ {p})
    BY UsersFinite, FS_RemoveElement
  <2> QED  BY <1>5, <2>1, FS_EmptySet
<1>7. MutexTypeOK'
  BY <1>1, <1>2, <1>4 DEF MutexTypeOK
<1>8. InTable'
  BY <1>1, <1>6 DEF InTable, MutexTypeOK, Users
<1>9. OneKey'
  BY <1>1 DEF OneKey, MutexTypeOK
<1>10. Counted'
  <2> SUFFICES ASSUME NEW l \in Key, locks'[l] # None
               PROVE  LET U == {q \in Proc : handle'[q] = locks'[l]}
                      IN  refs'[locks'[l]] = Cardinality(U) /\ U # {}
    BY DEF Counted, Users
  <2>1. locks'[l] = locks[l] /\ locks[l] # None
    BY <1>1 DEF MutexTypeOK
  <2>2. {q \in Proc : handle'[q] = locks'[l]} = Users(locks[l]) \ {p}
    BY <1>3, <2>1
  <2>3. CASE l = k
    BY <1>1, <1>5, <1>6, <2>1, <2>2, <2>3 DEF MutexTypeOK
  <2>4. CASE l # k
    <3>1. locks[l] # o
      BY <1>1, <2>1, <2>4 DEF OneKey
    <3>2. Users(locks[l]) \ {p} = Users(locks[l]) /\ refs'[locks[l]] = refs[locks[l]]
      BY <1>1, <3>1 DEF Users, MutexTypeOK
    <3> QED  BY <2>1, <2>2, <3>2 DEF Counted
  <2> QED  BY <2>3, <2>4
<1>11. Owned'
  BY <1>1 DEF Owned, InTable, MutexTypeOK
<1> QED  BY <1>7, <1>8, <1>9, <1>10, <1>11

\* Every step of the lock, and every step of somebody else, keeps the invariant.
LEMMA MutexStep == MutexInv /\ [MutexNext]_mutex => MutexInv'
<1> SUFFICES ASSUME MutexInv, [MutexNext]_mutex PROVE MutexInv'
  OBVIOUS
<1>1. CASE UNCHANGED mutex
  BY <1>1 DEF mutex, MutexInv, MutexTypeOK, InTable, OneKey, Counted, Owned, Users
<1>2. CASE MutexNext
  <2>1. PICK p \in Proc : (\E k \in Key : Look(p, k)) \/ Acquire(p) \/ Release(p) \/ Forget(p)
    BY <1>2 DEF MutexNext
  <2> QED  BY <2>1, LookKeeps, HandOverKeeps, ForgetKeeps
<1> QED  BY <1>1, <1>2

\* The invariant excludes.
LEMMA Excludes == MutexInv => MutualExclusion
  BY DEF MutexInv, MutualExclusion, InTable, Owned

\* The invariant keeps the table clean.
LEMMA TableClean == MutexInv => EntriesUsed
<1> SUFFICES ASSUME MutexInv, NEW k \in Key
             PROVE  locks[k] # None <=> \E p \in Proc : phase[p] # "out" /\ key[p] = k
  BY DEF EntriesUsed
<1>1. ASSUME locks[k] # None PROVE \E p \in Proc : phase[p] # "out" /\ key[p] = k
  <2>1. PICK p \in Proc : handle[p] = locks[k]
    BY <1>1 DEF MutexInv, Counted, Users
  <2>2. phase[p] # "out" /\ key[p] \in Key /\ locks[key[p]] = locks[k]
    BY <1>1, <2>1 DEF MutexInv, InTable
  <2> QED  BY <1>1, <2>2 DEF MutexInv, OneKey
<1>2. ASSUME NEW p \in Proc, phase[p] # "out", key[p] = k PROVE locks[k] # None
  BY <1>2, MutexAssumption DEF MutexInv, InTable
<1> QED  BY <1>1, <1>2

\* Two goroutines never hold one key's lock, for any number of goroutines, keys
\* and objects (notelock.go:29-53).
THEOREM LockExcludes == MutexSpec => []MutualExclusion
<1>1. MutexSpec => []MutexInv
  BY MutexStart, MutexStep, PTL DEF MutexSpec
<1> QED  BY <1>1, Excludes, PTL

\* No entry is left behind, none is taken from a user (notelock.go:33-35).
THEOREM LockTableClean == MutexSpec => []EntriesUsed
<1>1. MutexSpec => []MutexInv
  BY MutexStart, MutexStep, PTL DEF MutexSpec
<1> QED  BY <1>1, TableClean, PTL

-----------------------------------------------------------------------------
(* The notes API.                                                          *)

\* What the lock does in a step of p.
PhaseMoves(p, k, stage) ==
  /\ phase' = [phase EXCEPT ![p] = stage]
  /\ key' = [key EXCEPT ![p] = k]

\* A step of p leaves the lock alone, or moves p's phase.
LEMMA LockMoves ==
  ASSUME MutexTypeOK, NEW p \in Proc
  PROVE  /\ \A k \in Key : Look(p, k) => phase[p] = "out" /\ PhaseMoves(p, k, "wait")
         /\ Acquire(p)  => phase[p] = "wait"  /\ PhaseMoves(p, key[p], "in")
         /\ Release(p)  => phase[p] = "in"    /\ PhaseMoves(p, key[p], "leave")
         /\ Forget(p)   => phase[p] = "leave" /\ PhaseMoves(p, None, "out")
  BY DEF MutexTypeOK, Look, Acquire, Release, Forget, PhaseMoves

\* The API uses the lock only through its four steps.
LEMMA StepIsLockStep == [Next]_vars => [MutexNext]_mutex
<1> SUFFICES ASSUME Next PROVE [MutexNext]_mutex
  BY DEF vars, mutex
<1>1. PICK p \in Proc : (\E kind \in Kind, n, to \in Note : Begin(p, kind, n, to)) \/ Step(p)
  BY DEF Next
<1>2. ASSUME NEW kind \in Kind, NEW n \in Note, NEW to \in Note, Begin(p, kind, n, to)
      PROVE  [MutexNext]_mutex
  BY <1>2, ApiAssumption DEF Begin, MutexNext, mutex
<1>3. ASSUME Acquired(p) \/ Unlock(p) \/ Finish(p) PROVE MutexNext
  BY <1>3 DEF Acquired, Unlock, Finish, MutexNext
<1>4. ASSUME Step(p), ~(Acquired(p) \/ Unlock(p) \/ Finish(p)) PROVE UNCHANGED mutex
  BY <1>4 DEF Step, ReadGet, ReadToWrite, Refused, Reconcile, Open, OpenFails, Fill, Tell,
              StatCreate, StatSource, StatTo, Remove, Rename
<1> QED  BY <1>1, <1>2, <1>3, <1>4

\* The lock's invariant holds under the API.
LEMMA LockHolds == Spec => []MutexInv
<1>1. Init => MutexInv
  BY MutexStart DEF Init
<1> QED  BY <1>1, StepIsLockStep, MutexStep, PTL DEF Spec

\* Two requests never hold the lock of one note, whatever the requests, the
\* notes and the number of clients.
THEOREM ApiExcludes == Spec => []MutualExclusion
  BY LockHolds, Excludes, PTL

\* The lock table holds the notes being read or written right now and no others
\* (notelock.go:33-35).
THEOREM ApiTableClean == Spec => []EntriesUsed
  BY LockHolds, TableClean, PTL

\* The two together: what the handlers rely on when they take a note's lock.
THEOREM ApiLocks == Spec => []LockTableRight
<1>1. MutualExclusion /\ EntriesUsed => LockTableRight
  BY DEF LockTableRight
<1> QED  BY <1>1, ApiExcludes, ApiTableClean, PTL

-----------------------------------------------------------------------------
(* Types and stages.                                                       *)

\* Where request r can be when the lock is in this phase for its client, with key k.
InStage(r, stage, k) ==
  /\ r.at # "idle" => /\ r.note \in Note /\ r.to \in Note /\ r.kind \in Kinds[r.note]
                      /\ r.kind = "move" => r.to # r.note /\ "move" \in Kinds[r.to]
  /\ r.at = "idle" => stage = "out"
  /\ r.at = "acquire" => r.kind \in Locked /\ stage = "wait" /\ k = r.note
  /\ r.at \in {"read", "reconcile", "open", "fill"} =>
       IF r.kind \in Locked THEN stage = "in" /\ k = r.note ELSE stage = "out"
  /\ r.at = "read" => r.kind \notin {"create", "delete", "move"}
  /\ r.at = "unlock" => r.kind \in Locked /\ stage = "in" /\ k = r.note
  /\ r.at = "forget" => r.kind \in Locked /\ stage = "leave"
  /\ r.at = "tell" =>
       /\ r.kind \in {"save", "overwrite", "append"} => stage = "in" /\ k = r.note
       /\ r.kind \notin {"save", "overwrite", "append"} => r.kind = "post" /\ stage = "out"
  /\ r.at \in {"stat", "statTo", "act"} =>
       stage = "out" /\ r.kind \in {"create", "delete", "move"}
  /\ r.at = "statTo" => r.kind = "move"
  /\ r.at \in {"reconcile", "open", "fill"} => r.data \in Body /\ r.kind # "get"

\* The types, and that a file that is open is there.
Types ==
  /\ file \in [Note -> Body \cup {None}]
  /\ fd \in [Proc -> Note \cup {None}]
  /\ carried \in [Note -> SUBSET Piece]
  /\ copy \in [Proc -> [Note -> (SUBSET Piece) \cup {None}]]
  /\ req \in [Proc -> Request]
  /\ requests \in Nat
  /\ \A p \in Proc : fd[p] # None => file[fd[p]] # None

StageInv == Types /\ \A p \in Proc : InStage(req[p], phase[p], key[p])

\* A step of p that leaves what the others ask for, and their locks, alone.
Alone(p) ==
  \A q \in Proc \ {p} : req'[q] = req[q] /\ phase'[q] = phase[q] /\ key'[q] = key[q]

\* p's request is at another stage, and otherwise the same unless it is over.
Moved(p, stage) ==
  /\ req' \in [Proc -> Request]
  /\ \A q \in Proc \ {p} : req'[q] = req[q]
  /\ req'[p].at = stage
  /\ stage # "idle" => /\ req'[p].kind = req[p].kind /\ req'[p].note = req[p].note
                       /\ req'[p].to = req[p].to

\* Such a step keeps the stages if it does for p.
LEMMA AloneKeeps ==
  ASSUME StageInv, NEW p \in Proc, Alone(p), Types', InStage(req[p], phase[p], key[p])'
  PROVE  StageInv'
  BY DEF StageInv, Alone

\* What going on to another stage does to a request.
LEMMA Going ==
  ASSUME StageInv, NEW p \in Proc, NEW stage \in Stage
  PROVE  /\ Goes(p, stage) =>
              Moved(p, stage) /\ (stage # "idle" => req'[p].data = req[p].data)
         /\ \A w \in Body \cup {None} : Leaves(p, stage, w) =>
              Moved(p, stage) /\ (stage # "idle" => req'[p].data = w)
<1> USE DEF StageInv, Types, Moved
<1>1. Idle \in Request /\ Idle.at = "idle"
  BY ApiAssumption DEF Idle, Request, Stage, Kind, Locked
<1>2. ASSUME Goes(p, stage)
      PROVE  Moved(p, stage) /\ (stage # "idle" => req'[p].data = req[p].data)
  BY <1>1, <1>2 DEF Goes, Request
<1>3. ASSUME NEW w \in Body \cup {None}, Leaves(p, stage, w)
      PROVE  Moved(p, stage) /\ (stage # "idle" => req'[p].data = w)
  BY <1>1, <1>3, ApiAssumption DEF Leaves, Request
<1> QED  BY <1>2, <1>3

\* What a request may write is a body, and a marker it keeps is one.
LEMMA WantedBodies ==
  ASSUME NEW r \in Request, NEW cur \in Body \cup {None}, NEW known,
         r.kind \notin {"get", "create", "delete", "move"}, NEW data \in Wanted(r, cur, known)
  PROVE  data \in Body
<1> USE ApiAssumption, NoneAssumption DEF Request, Body
<1>1. With(cur, r.new) \in Body /\ With(None, r.new) \in Body
  BY DEF With
<1>2. CASE cur = None
  BY <1>1, <1>2 DEF Wanted
<1>3. CASE cur # None
  <2>1. CASE r.kind \in {"append", "post", "convert", "taskNew"}
    BY <1>1, <1>3, <2>1 DEF Wanted
  <2>2. CASE r.kind \in {"save", "overwrite"}
    BY <1>3, <2>2 DEF Wanted
  <2>3. CASE r.kind = "ensure"
    BY <1>3, <2>3 DEF Wanted
  <2>4. CASE r.kind = "taskEdit"
    <3>1. PICK x \in cur.text : data = [cur EXCEPT !.text = (@ \ {x}) \cup {r.new}]
      BY <1>3, <2>4 DEF Wanted
    <3> QED  BY <1>3, <3>1
  <2>5. CASE r.kind = "taskRemove"
    <3>1. PICK x \in cur.text : data = [cur EXCEPT !.text = @ \ {x}]
      BY <1>3, <2>5 DEF Wanted
    <3> QED  BY <1>3, <3>1
  <2> QED  BY <2>1, <2>2, <2>3, <2>4, <2>5 DEF Kind, Locked, Unlocked
<1> QED  BY <1>2, <1>3

\* Writing on a request what it read and wants to write.
LEMMA Written ==
  ASSUME StageInv, NEW p \in Proc, NEW stage \in Stage \ {"idle"},
         NEW read \in Body \cup {None}, NEW data \in Body,
         req' = [req EXCEPT ![p] = [@ EXCEPT !.at = stage, !.read = read, !.data = data]]
  PROVE  Moved(p, stage) /\ req'[p].data = data
<1> DEFINE r == req[p]
           s == [r EXCEPT !.at = stage, !.read = read, !.data = data]
<1>1. r \in Request /\ req \in [Proc -> Request]
  BY DEF StageInv, Types
<1>2. /\ s \in Request /\ s.at = stage /\ s.kind = r.kind /\ s.note = r.note
      /\ s.to = r.to /\ s.data = data
  BY <1>1 DEF Request
<1>3. req' = [req EXCEPT ![p] = s]
  OBVIOUS
<1> HIDE DEF s
<1>4. req' \in [Proc -> Request] /\ req'[p] = s /\ \A q \in Proc \ {p} : req'[q] = req[q]
  BY <1>1, <1>2, <1>3
<1> QED  BY <1>2, <1>4 DEF Moved

\* The steps of the lock: a request begins, gets the lock, gives it back.
LEMMA LockStepsKeep ==
  ASSUME MutexTypeOK, StageInv, NEW p \in Proc, Acquired(p) \/ Unlock(p) \/ Finish(p)
  PROVE  StageInv'
<1> USE DEF StageInv, Types
<1>1. UNCHANGED <<file, fd, carried, copy, requests>>
  BY DEF Acquired, Unlock, Finish, disk
<1>2. CASE Acquired(p)
  <2>1. Moved(p, "read") /\ PhaseMoves(p, key[p], "in")
    BY <1>2, Going, LockMoves DEF Acquired, Stage
  <2>3. Alone(p) /\ Types'
    BY <1>1, <2>1 DEF Alone, Moved, PhaseMoves, MutexTypeOK
  <2>4. InStage(req[p], phase[p], key[p])'
    BY <1>2, <2>1 DEF Acquired, At, Moved, PhaseMoves, InStage, MutexTypeOK, Locked
  <2> QED  BY <2>3, <2>4, AloneKeeps
<1>3. CASE Unlock(p)
  <2>1. Moved(p, "forget") /\ PhaseMoves(p, key[p], "leave")
    BY <1>3, Going, LockMoves DEF Unlock, Stage
  <2>3. Alone(p) /\ Types'
    BY <1>1, <2>1 DEF Alone, Moved, PhaseMoves, MutexTypeOK
  <2>4. InStage(req[p], phase[p], key[p])'
    BY <1>3, <2>1 DEF Unlock, At, Moved, PhaseMoves, InStage, MutexTypeOK
  <2> QED  BY <2>3, <2>4, AloneKeeps
<1>4. CASE Finish(p)
  <2>1. PhaseMoves(p, None, "out")
    BY <1>4, LockMoves DEF Finish
  <2>2. Moved(p, "idle") \/ (Moved(p, "tell") /\ req[p].kind = "post")
    BY <1>4, Going DEF Finish, Stage
  <2>3. Alone(p) /\ Types'
    BY <1>1, <2>1, <2>2 DEF Alone, Moved, PhaseMoves, MutexTypeOK
  <2>4. InStage(req[p], phase[p], key[p])'
    BY <1>4, <2>1, <2>2 DEF Finish, At, Moved, PhaseMoves, InStage, MutexTypeOK
  <2> QED  BY <2>3, <2>4, AloneKeeps
<1> QED  BY <1>2, <1>3, <1>4

\* A request that comes in keeps the types and the stages.
LEMMA BeginKeeps ==
  ASSUME MutexTypeOK, StageInv, NEW p \in Proc, NEW kind \in Kind, NEW n \in Note,
         NEW to \in Note, Begin(p, kind, n, to)
  PROVE  StageInv'
<1> USE ApiAssumption DEF StageInv, Types
<1>1. PICK body \in Bodies(p, kind, n, requests + 1) :
        req' = [req EXCEPT ![p] = [Idle EXCEPT !.at = FirstStage(kind), !.kind = kind,
                  !.note = n, !.to = to, !.body = body, !.new = requests + 1]]
  BY DEF Begin
<1>2. requests + 1 \in Piece
  <2>1. requests + 1 \in 0..MaxRequests[n]
    BY DEF Begin
  <2> QED  BY <2>1
<1>3. body \in SUBSET Piece
  <2>1. CASE kind = "save"
    <3>1. copy[p][n] \in SUBSET Piece /\ body \in Edits(p, n, requests + 1)
      <4>1. body \in IF copy[p][n] = None THEN {} ELSE Edits(p, n, requests + 1)
        BY <2>1 DEF Bodies
      <4>2. copy[p][n] # None
        BY <4>1
      <4>3. copy[p][n] \in (SUBSET Piece) \cup {None}
        OBVIOUS
      <4> QED  BY <4>1, <4>2, <4>3
    <3>2. body = {} \/ \E cut \in SUBSET copy[p][n] :
                         body = (copy[p][n] \ cut) \cup {requests + 1}
      BY <3>1 DEF Edits
    <3> QED  BY <1>2, <3>1, <3>2
  <2>2. CASE kind # "save"
    BY <1>1, <1>2, <2>2 DEF Bodies
  <2> QED  BY <2>1, <2>2
<1>4. FirstStage(kind) \in Stage
  BY DEF FirstStage, Stage
<1>5. /\ req' \in [Proc -> Request] /\ \A q \in Proc \ {p} : req'[q] = req[q]
      /\ req'[p].at = FirstStage(kind) /\ req'[p].kind = kind
      /\ req'[p].note = n /\ req'[p].to = to
  BY <1>1, <1>2, <1>3, <1>4 DEF Idle, Request
<1>6. Types'
  BY <1>5 DEF Begin, disk
<1>7. req[p].at = "idle" /\ phase[p] = "out" /\ kind \in Kinds[n]
      /\ (kind = "move" => to # n /\ kind \in Kinds[to])
  BY DEF Begin, At, InStage
<1>8. /\ \A q \in Proc \ {p} : phase'[q] = phase[q] /\ key'[q] = key[q]
      /\ IF kind \in Locked THEN phase'[p] = "wait" /\ key'[p] = n ELSE phase'[p] = "out"
  <2>1. CASE kind \in Locked
    <3>1. PhaseMoves(p, n, "wait")
      BY <2>1, LockMoves DEF Begin
    <3> QED  BY <2>1, <3>1 DEF PhaseMoves, MutexTypeOK
  <2>2. CASE kind \notin Locked
    BY <1>7, <2>2 DEF Begin, mutex
  <2> QED  BY <2>1, <2>2
<1>9. InStage(req[p], phase[p], key[p])'
  BY <1>5, <1>7, <1>8 DEF InStage, FirstStage, Kind, Locked, Unlocked
<1> QED  BY <1>5, <1>6, <1>8, <1>9, AloneKeeps DEF Alone

\* The steps that read the note and decide what to write.
LEMMA ReadsKeep ==
  ASSUME StageInv, NEW p \in Proc, ReadGet(p) \/ ReadToWrite(p) \/ Refused(p)
  PROVE  StageInv'
<1> USE DEF StageInv, Types
<1>1. UNCHANGED <<file, fd, carried, requests, phase, key>> /\ req[p].at = "read"
  BY DEF ReadGet, ReadToWrite, Refused, disk, mutex, At
<1>2. copy' \in [Proc -> [Note -> (SUBSET Piece) \cup {None}]]
  <2>1. CASE ReadGet(p)
    <3>1. req[p].note \in Note /\ file[req[p].note] \in Body \cup {None}
      BY <1>1 DEF InStage
    <3> QED  BY <2>1, <3>1 DEF ReadGet, Body
  <2> QED  BY <2>1 DEF ReadToWrite, Refused
<1>3. CASE ReadGet(p) \/ Refused(p)
  <2>1. Moved(p, After(p))
    <3>1. After(p) \in Stage /\ None \in Body \cup {None}
      BY DEF After, Stage
    <3>2. Leaves(p, After(p), None)
      BY <1>3 DEF ReadGet, Refused, After, Locked
    <3> QED  BY <3>1, <3>2, Going
  <2>2. InStage(req[p], phase[p], key[p])'
    BY <1>1, <2>1 DEF Moved, InStage, After
  <2> QED  BY <1>1, <1>2, <2>1, <2>2, AloneKeeps DEF Moved, Alone
<1>4. CASE ReadToWrite(p)
  <2> DEFINE n == req[p].note
  <2>1. PICK data \in Wanted(req[p], file[n], copy[p][n]) :
          req' = [req EXCEPT ![p].at = "reconcile", ![p].read = file[n], ![p].data = data]
    BY <1>4 DEF ReadToWrite
  <2>2. n \in Note /\ req[p].kind \notin {"get", "create", "delete", "move"}
    BY <1>1, <1>4 DEF InStage, ReadToWrite
  <2>3. data \in Body
    BY <2>2, WantedBodies
  <2>4. Moved(p, "reconcile") /\ req'[p].data = data
    <3>1. file[n] \in Body \cup {None} /\ "reconcile" \in Stage \ {"idle"}
      BY <2>2 DEF Stage
    <3>2. req' = [req EXCEPT ![p] = [@ EXCEPT !.at = "reconcile", !.read = file[n], !.data = data]]
      BY <2>1
    <3> QED  BY <2>3, <3>1, <3>2, Written
  <2>5. InStage(req[p], phase[p], key[p])'
    BY <1>1, <2>2, <2>3, <2>4 DEF Moved, InStage
  <2> QED  BY <1>1, <1>2, <2>4, <2>5, AloneKeeps DEF Moved, Alone
<1> QED  BY <1>3, <1>4

\* The steps of a write.
LEMMA WritesKeep ==
  ASSUME StageInv, NEW p \in Proc,
         Reconcile(p) \/ Open(p) \/ OpenFails(p) \/ Fill(p) \/ Tell(p)
  PROVE  StageInv'
<1> USE ApiAssumption DEF StageInv, Types
<1> DEFINE n == req[p].note
<1>1. UNCHANGED <<requests, phase, key>> /\ n \in Note
  BY DEF Reconcile, Open, OpenFails, Fill, Tell, mutex, At, InStage
<1>2. CASE Reconcile(p)
  <2>1. PICK id \in MarkersFor(req[p].data, n) :
          req' = [req EXCEPT ![p].at = "open", ![p].data.id = id]
    BY <1>2 DEF Reconcile
  <2>2. req[p].data \in Body /\ req[p].at = "reconcile"
    BY <1>2 DEF Reconcile, At, InStage
  <2>3. id \in Piece \cup {None}
    BY <1>1, <2>2 DEF MarkersFor, Body
  <2>4. [req[p].data EXCEPT !.id = id] \in Body
    BY <2>2, <2>3 DEF Body
  <2>5. Moved(p, "open") /\ req'[p].data \in Body
    <3> DEFINE data == [req[p].data EXCEPT !.id = id]
    <3>1. req' = [req EXCEPT ![p] = [@ EXCEPT !.at = "open", !.read = req[p].read, !.data = data]]
      BY <2>1 DEF Request
    <3>2. data \in Body /\ "open" \in Stage \ {"idle"} /\ req[p].read \in Body \cup {None}
      BY <2>4 DEF Stage, Request
    <3> HIDE DEF data
    <3> QED  BY <3>1, <3>2, Written
  <2>6. InStage(req[p], phase[p], key[p])'
    BY <1>1, <2>2, <2>5 DEF Moved, InStage
  <2> QED  BY <1>1, <1>2, <2>5, <2>6, AloneKeeps DEF Moved, Alone, Reconcile, disk
<1>3. CASE Open(p)
  <2>1. Moved(p, "fill") /\ req'[p].data = req[p].data
    BY <1>3, Going DEF Open, Stage
  <2>2. InStage(req[p], phase[p], key[p])'
    BY <1>1, <1>3, <2>1 DEF Moved, InStage, Open, At
  <2>3. Blank \in Body /\ Blank # None
    BY NoneAssumption DEF Blank, Body
  <2>4. Types'
    BY <1>1, <1>3, <2>1, <2>3 DEF Open, Moved
  <2> QED  BY <1>1, <2>1, <2>2, <2>4, AloneKeeps DEF Moved, Alone
<1>4. CASE OpenFails(p)
  <2>1. Moved(p, After(p))
    <3>1. After(p) \in Stage /\ None \in Body \cup {None}
      BY DEF After, Stage
    <3> QED  BY <1>4, <3>1, Going DEF OpenFails
  <2>2. InStage(req[p], phase[p], key[p])'
    BY <1>1, <1>4, <2>1 DEF Moved, InStage, OpenFails, At, After
  <2> QED  BY <1>1, <1>4, <2>1, <2>2, AloneKeeps DEF Moved, Alone, OpenFails, disk
<1>5. CASE Fill(p)
  <2>1. req[p].data \in Body /\ req[p].at = "fill" /\ req[p].body \in SUBSET Piece
    BY <1>5 DEF Fill, At, InStage, Request
  <2>2. Moved(p, AfterFill(req[p].kind))
    BY <1>5, <2>1, Going DEF Fill, AfterFill, Stage
  <2>3. InStage(req[p], phase[p], key[p])'
    BY <1>1, <2>1, <2>2 DEF Moved, InStage, AfterFill, Locked
  <2>4. ASSUME NEW old \in Body, NEW b \in Over(old, req[p].data) PROVE b \in Body
    BY <2>1, <2>4 DEF Over, Body
  <2>5. /\ file' \in [Note -> Body \cup {None}] /\ carried' \in [Note -> SUBSET Piece]
        /\ \A k \in Note : file[k] # None => file'[k] # None
    <3>1. CASE fd[p] = None
      BY <1>5, <3>1 DEF Fill
    <3>2. CASE fd[p] # None
      <4>1. PICK b \in Over(file[fd[p]], req[p].data) : file' = [file EXCEPT ![fd[p]] = b]
        BY <1>5, <3>2 DEF Fill
      <4>2. fd[p] \in Note /\ carried' = [carried EXCEPT ![fd[p]] = @ \cup ({req[p].data.id} \ {None})]
        BY <1>5, <3>2 DEF Fill
      <4>3. req[p].data.id \in Piece \cup {None}
        BY <2>1 DEF Body
      <4>4. b \in Body
        BY <2>4, <3>2, <4>1, <4>2
      <4> QED  BY <4>1, <4>2, <4>3, <4>4, NoneAssumption
    <3> QED  BY <3>1, <3>2
  <2>6. copy' \in [Proc -> [Note -> (SUBSET Piece) \cup {None}]]
    BY <1>1, <1>5, <2>1 DEF Fill
  <2>7. fd' \in [Proc -> Note \cup {None}] /\ \A q \in Proc : fd'[q] # None => file'[fd'[q]] # None
    BY <1>5, <2>5 DEF Fill
  <2>8. Types'
    BY <1>1, <2>2, <2>5, <2>6, <2>7 DEF Moved
  <2> QED  BY <1>1, <2>2, <2>3, <2>8, AloneKeeps DEF Moved, Alone
<1>6. CASE Tell(p)
  <2>1. Moved(p, IF phase[p] = "in" THEN "unlock" ELSE "idle") /\ req[p].at = "tell"
    BY <1>6, Going DEF Tell, At, Stage
  <2>2. InStage(req[p], phase[p], key[p])'
    BY <1>1, <2>1 DEF Moved, InStage, Locked
  <2> QED  BY <1>1, <1>6, <2>1, <2>2, AloneKeeps DEF Moved, Alone, Tell, disk
<1> QED  BY <1>2, <1>3, <1>4, <1>5, <1>6

\* The steps of create, delete and move.
LEMMA StatsKeep ==
  ASSUME StageInv, NEW p \in Proc,
         StatCreate(p) \/ StatSource(p) \/ StatTo(p) \/ Remove(p) \/ Rename(p)
  PROVE  StageInv'
<1> USE ApiAssumption DEF StageInv, Types
<1> DEFINE n == req[p].note
<1>1. /\ UNCHANGED <<copy, requests, phase, key>> /\ n \in Note /\ req[p].to \in Note
      /\ req[p].at \in {"stat", "statTo", "act"} /\ phase[p] = "out"
  BY DEF StatCreate, StatSource, StatTo, Remove, Rename, mutex, At, InStage
<1>2. CASE StatCreate(p) /\ file[n] = None
  <2> DEFINE data == [text |-> req[p].body, id |-> None]
  <2>1. data \in Body /\ req' = [req EXCEPT ![p].at = "reconcile", ![p].data = data]
    BY <1>2 DEF StatCreate, Request, Body
  <2>2. Moved(p, "reconcile") /\ req'[p].data = data
    <3>1. "reconcile" \in Stage \ {"idle"} /\ req[p].read \in Body \cup {None}
      BY DEF Stage, Request
    <3>2. req' = [req EXCEPT ![p] = [@ EXCEPT !.at = "reconcile", !.read = req[p].read, !.data = data]]
      BY <2>1 DEF Request
    <3>3. data \in Body
      BY <2>1
    <3> HIDE DEF data
    <3> QED  BY <3>1, <3>2, <3>3, Written
  <2>3. InStage(req[p], phase[p], key[p])'
    BY <1>1, <1>2, <2>1, <2>2 DEF StatCreate, Moved, InStage, Locked
  <2> QED  BY <1>1, <1>2, <2>2, <2>3, AloneKeeps DEF Moved, Alone, StatCreate, disk
<1>3. CASE (StatCreate(p) /\ file[n] # None) \/ StatSource(p) \/ StatTo(p)
  <2>1. Moved(p, "idle") \/ Moved(p, "act") \/ (Moved(p, "statTo") /\ req[p].kind = "move")
    BY <1>3, Going DEF StatCreate, StatSource, StatTo, Stage
  <2>2. InStage(req[p], phase[p], key[p])'
    BY <1>1, <2>1 DEF Moved, InStage
  <2> QED  BY <1>1, <1>3, <2>1, <2>2, AloneKeeps DEF Moved, Alone, StatCreate, StatSource, StatTo, disk
<1>4. CASE Remove(p) \/ Rename(p)
  <2>1. Moved(p, "idle")
    BY <1>4, Going DEF Remove, Rename, Stage
  <2>2. InStage(req[p], phase[p], key[p])'
    BY <1>1, <2>1 DEF Moved, InStage
  <2>3. /\ file' \in [Note -> Body \cup {None}] /\ fd' \in [Proc -> Note \cup {None}]
        /\ carried' \in [Note -> SUBSET Piece]
        /\ \A q \in Proc : fd'[q] # None => file'[fd'[q]] # None
    <3>1. CASE Remove(p)
      BY <1>1, <3>1 DEF Remove
    <3>2. CASE Rename(p)
      <4>1. CASE file[n] = None
        BY <3>2, <4>1 DEF Rename, disk
      <4>2. CASE file[n] # None
        <5>1. file[n].id \in Piece \cup {None}
          BY <1>1, <4>2 DEF Body
        <5> DEFINE to == req[p].to
        <5>2. /\ file' = [file EXCEPT ![to] = file[n], ![n] = None]
              /\ fd' = [q \in Proc |-> IF fd[q] = n THEN to
                                       ELSE IF fd[q] = to THEN None ELSE fd[q]]
              /\ carried' = [carried EXCEPT ![to] = @ \cup ({file[n].id} \ {None})]
          BY <3>2, <4>2 DEF Rename
        <5>3. to \in Note /\ n # to
          BY <1>1, <3>2 DEF Rename, InStage
        <5> HIDE DEF n, to
        <5>4. file' \in [Note -> Body \cup {None}] /\ carried' \in [Note -> SUBSET Piece]
          BY <5>1, <5>2, <5>3, <1>1
        <5>5. fd' \in [Proc -> Note \cup {None}]
          BY <5>2, <5>3
        <5>6. \A q \in Proc : fd'[q] # None => file'[fd'[q]] # None
          BY <5>2, <5>3, <5>5, <4>2, <1>1, MutexAssumption
        <5> QED  BY <5>4, <5>5, <5>6
      <4> QED  BY <4>1, <4>2
    <3> QED  BY <1>4, <3>1, <3>2
  <2> QED  BY <1>1, <2>1, <2>2, <2>3, AloneKeeps DEF Moved, Alone
<1> QED  BY <1>2, <1>3, <1>4

\* At the start every client is idle.
LEMMA StageStart == Init => StageInv
  BY ApiAssumption, NoneAssumption DEF Init, MutexInit, StageInv, Types, InStage, Idle, Request,
     Body, Stage, Kind, Locked

\* Every step keeps the types and the stages.
LEMMA StageStep == MutexTypeOK /\ StageInv /\ [Next]_vars => StageInv'
<1> SUFFICES ASSUME MutexTypeOK, StageInv, [Next]_vars PROVE StageInv'
  OBVIOUS
<1>1. CASE UNCHANGED vars
  BY <1>1 DEF vars, disk, mutex, StageInv, Types, InStage
<1>2. CASE Next
  <2>1. PICK p \in Proc : (\E kind \in Kind, n, to \in Note : Begin(p, kind, n, to)) \/ Step(p)
    BY <1>2 DEF Next
  <2>2. CASE \E kind \in Kind, n, to \in Note : Begin(p, kind, n, to)
    BY <2>2, BeginKeeps
  <2>3. CASE Step(p)
    BY <2>3, LockStepsKeep, ReadsKeep, WritesKeep, StatsKeep DEF Step
  <2> QED  BY <2>1, <2>2, <2>3
<1> QED  BY <1>1, <1>2

\* The stages hold along every behaviour.
LEMMA StagesHold == Spec => [](MutexInv /\ StageInv)
<1>1. MutexInv /\ StageInv /\ [Next]_vars => StageInv'
  BY StageStep DEF MutexInv
<1> QED  BY <1>1, LockHolds, StageStart, PTL DEF Spec

\* Every variable keeps its type, and a request that is over holds no lock, for
\* any notes, clients and mix of requests.
THEOREM ApiTypes == Spec => []TypeOK
<1>1. MutexInv /\ StageInv => TypeOK
  BY DEF MutexInv, StageInv, Types, InStage, TypeOK, At
<1> QED  BY <1>1, StagesHold, PTL

-----------------------------------------------------------------------------
(* What a write on a guarded note is about to do.                          *)

\* A request has a file open while it fills it, and no other way leads from or
\* to a guarded note.
Hands(p) ==
  /\ req[p].at # "fill" => fd[p] = None
  /\ req[p].at = "fill" /\ {fd[p], req[p].note} \cap Guarded # {} => fd[p] = req[p].note

\* What request r means to write over the body it read, by a client whose
\* If-Match is known.
Meant(r, known) ==
  /\ r.kind = "save" => r.read # None /\ known = r.read.text /\ r.data.text = r.body
  /\ r.kind # "save" /\ r.read # None => r.read.text \subseteq r.data.text
  /\ r.read # None /\ r.read.id # None => r.data.id = r.read.id

\* From its read to its write a request on a guarded note finds the file as it
\* read it, or as it truncated it.
Holding(p) ==
  LET r == req[p]
  IN  r.note \in Guarded /\ r.at \in {"reconcile", "open", "fill"} =>
        /\ file[r.note] = IF r.at = "fill" THEN Blank ELSE r.read
        /\ Meant(r, copy[p][r.note])

\* What it tells is what the file has.
Told(p) ==
  At(p, "tell") /\ req[p].kind \in {"save", "append"} /\ req[p].note \in Guarded
    => file[req[p].note].text = req[p].data.text

ContentInv == \A p \in Proc : Hands(p) /\ Holding(p) /\ Told(p)

ApiInv == MutexInv /\ StageInv /\ ContentInv

\* Requests on guarded notes hold the lock from the read to the write.
LEMMA GuardedLocked ==
  ASSUME StageInv, NEW p \in Proc, req[p].note \in Guarded, req[p].at # "idle"
  PROVE  /\ req[p].kind \in {"get", "save", "append", "post", "convert"}
         /\ req[p].at \in {"read", "reconcile", "open", "fill"}
              \/ (req[p].at = "tell" /\ req[p].kind \in {"save", "append"})
            => phase[p] = "in" /\ key[p] = req[p].note
  BY DEF StageInv, InStage, Guarded, Locked

\* No two requests are between read and broadcast of one guarded note.
LEMMA OneWriter ==
  ASSUME MutexInv, StageInv, NEW p \in Proc, NEW q \in Proc, p # q,
         req[p].note = req[q].note, req[p].note \in Guarded,
         req[p].at \in {"read", "reconcile", "open", "fill"}
  PROVE  /\ req[q].at \notin {"read", "reconcile", "open", "fill"}
         /\ ~(req[q].at = "tell" /\ req[q].kind \in {"save", "append"})
  BY GuardedLocked, Excludes DEF MutualExclusion

\* A step of p leaves the others' requests alone, and guarded files unless p
\* writes them.
Touches(p) ==
  /\ \A q \in Proc \ {p} : req'[q] = req[q] /\ copy'[q] = copy[q]
  /\ \A q \in Proc : q # p \/ req[p].at \notin {"open", "fill"} =>
       \/ fd'[q] = fd[q]
       \/ fd[q] # None /\ fd[q] \notin Guarded /\ fd'[q] \notin Guarded
  /\ \A n \in Guarded : \/ file'[n] = file[n]
                        \/ req[p].note = n /\ req[p].at \in {"open", "fill"}

\* A request that comes in touches no file.
LEMMA BeginTouches ==
  ASSUME StageInv, NEW p \in Proc, NEW kind \in Kind, NEW n \in Note, NEW to \in Note,
         Begin(p, kind, n, to)
  PROVE  Touches(p)
  BY DEF Begin, disk, Touches, StageInv, Types

\* Delete and move never meet a guarded note.
LEMMA MovesTouch ==
  ASSUME StageInv, NEW p \in Proc, Remove(p) \/ Rename(p)
  PROVE  Touches(p)
<1> USE ApiAssumption, MutexAssumption DEF StageInv, Types
<1> DEFINE n == req[p].note
           to == req[p].to
<1>1. /\ req[p].at = "act" /\ n \in Note \ Guarded /\ to \in Note
      /\ req[p].kind = "move" => to \in Note \ Guarded
  BY DEF Remove, Rename, At, InStage, Guarded, Locked
<1>2. \A q \in Proc \ {p} : req'[q] = req[q] /\ copy'[q] = copy[q]
  BY DEF Remove, Rename, Goes
<1>3. CASE Remove(p)
  <2>1. /\ file' = [file EXCEPT ![n] = None]
        /\ fd' = [q \in Proc |-> IF fd[q] = n THEN None ELSE fd[q]]
    BY <1>3 DEF Remove
  <2>2. None \notin Guarded
    BY DEF Guarded
  <2> HIDE DEF n
  <2> QED  BY <1>1, <1>2, <2>1, <2>2 DEF Touches, Guarded
<1>4. CASE Rename(p)
  <2>1. CASE file[n] = None
    BY <1>2, <1>4, <2>1 DEF Rename, disk, Touches
  <2>2. CASE file[n] # None
    <3>1. /\ file' = [file EXCEPT ![to] = file[n], ![n] = None]
          /\ fd' = [q \in Proc |-> IF fd[q] = n THEN to
                                   ELSE IF fd[q] = to THEN None ELSE fd[q]]
      BY <1>4, <2>2 DEF Rename
    <3>2. None \notin Guarded /\ to \notin Guarded
      BY <1>1, <1>4 DEF Guarded, Rename
    <3> HIDE DEF n, to
    <3> QED  BY <1>1, <1>2, <3>1, <3>2 DEF Touches, Guarded
  <2> QED  BY <2>1, <2>2
<1> QED  BY <1>3, <1>4

\* A write meets a guarded note only as its own.
LEMMA WritesTouch ==
  ASSUME StageInv, ContentInv, NEW p \in Proc, Open(p) \/ Fill(p)
  PROVE  Touches(p)
<1> USE DEF StageInv, Types
<1>1. \A q \in Proc \ {p} : req'[q] = req[q] /\ copy'[q] = copy[q] /\ fd'[q] = fd[q]
  BY DEF Open, Fill, Goes, Leaves
<1>2. req[p].at \in {"open", "fill"}
  BY DEF Open, Fill, At
<1>3. \A n \in Guarded : file'[n] = file[n] \/ req[p].note = n
  <2>1. CASE Open(p)
    BY <2>1 DEF Open, Guarded
  <2>2. CASE Fill(p)
    <3>1. CASE fd[p] = None
      BY <2>2, <3>1 DEF Fill
    <3>2. CASE fd[p] # None
      <4>1. PICK b : file' = [file EXCEPT ![fd[p]] = b]
        BY <2>2, <3>2 DEF Fill
      <4>2. fd[p] \in Guarded => fd[p] = req[p].note
        BY <2>2 DEF ContentInv, Hands, Fill, At
      <4> QED  BY <4>1, <4>2 DEF Guarded
    <3> QED  BY <3>1, <3>2
  <2> QED  BY <2>1, <2>2
<1> QED  BY <1>1, <1>2, <1>3 DEF Touches

\* No step of a request touches a guarded file but a write of that note.
LEMMA StepTouches ==
  ASSUME StageInv, ContentInv, NEW p \in Proc, Step(p)
  PROVE  Touches(p)
<1>1. CASE Remove(p) \/ Rename(p)
  BY <1>1, MovesTouch
<1>2. CASE Open(p) \/ Fill(p)
  BY <1>2, WritesTouch
<1>3. CASE ReadGet(p)
  BY <1>3 DEF ReadGet, Leaves, disk, Touches, StageInv, Types
<1>4. CASE Acquired(p) \/ ReadToWrite(p) \/ Refused(p) \/ Reconcile(p) \/ OpenFails(p) \/ Tell(p)
             \/ Unlock(p) \/ Finish(p) \/ StatCreate(p) \/ StatSource(p) \/ StatTo(p)
  <2>1. UNCHANGED <<disk, copy>> /\ \A q \in Proc \ {p} : req'[q] = req[q]
    BY <1>4 DEF Acquired, ReadToWrite, Refused, Reconcile, OpenFails, Tell, Unlock, Finish,
       StatCreate, StatSource, StatTo, Goes, Leaves, StageInv, Types
  <2> QED  BY <2>1 DEF disk, Touches
<1> QED  BY <1>1, <1>2, <1>3, <1>4 DEF Step

\* What such a step leaves the other requests.
LEMMA OthersKeep ==
  ASSUME ApiInv, NEW p \in Proc, Touches(p), NEW q \in Proc \ {p}
  PROVE  (Hands(q) /\ Holding(q) /\ Told(q))'
<1>1. req'[q] = req[q] /\ copy'[q] = copy[q]
  BY DEF Touches
<1>2. Hands(q) /\ Holding(q) /\ Told(q)
  BY DEF ApiInv, ContentInv
<1>3. Hands(q)'
  BY <1>1, <1>2 DEF Hands, Touches
<1>4. ASSUME req[q].note \in Guarded, req[q].at \in {"reconcile", "open", "fill"}
             \/ (req[q].at = "tell" /\ req[q].kind \in {"save", "append"})
      PROVE  file'[req[q].note] = file[req[q].note]
  BY <1>4, OneWriter DEF Touches, ApiInv
<1>5. Holding(q)'
  BY <1>1, <1>2, <1>4 DEF Holding
<1>6. Told(q)'
  BY <1>1, <1>2, <1>4 DEF Told, At
<1> QED  BY <1>3, <1>5, <1>6

\* A step that ends nowhere between read and broadcast of a guarded note.
LEMMA QuietKeeps ==
  ASSUME ApiInv, NEW p \in Proc, Touches(p), req[p].at \notin {"open", "fill"},
         /\ req'[p].at # "fill"
         /\ req'[p].at \in {"reconcile", "open"} => req'[p].note \notin Guarded
         /\ req'[p].at = "tell" => req'[p].kind \notin {"save", "append"}
  PROVE  (Hands(p) /\ Holding(p) /\ Told(p))'
<1>1. fd[p] = None
  BY DEF ApiInv, ContentInv, Hands
<1>2. fd'[p] = None
  BY <1>1 DEF Touches
<1> QED  BY <1>2 DEF Hands, Holding, Told, At

\* What a guarded request wants to write keeps what it read.
LEMMA WantedMeant ==
  ASSUME NEW r \in Request, NEW cur \in Body \cup {None}, NEW known,
         r.kind \in {"save", "append", "post", "convert"}, NEW data \in Wanted(r, cur, known)
  PROVE  /\ r.kind = "save" => cur # None /\ known = cur.text /\ data.text = r.body
         /\ r.kind # "save" /\ cur # None => cur.text \subseteq data.text
         /\ cur # None /\ cur.id # None => data.id = cur.id
<1> USE DEF Body
<1>1. CASE cur = None
  BY <1>1 DEF Wanted
<1>2. CASE cur # None
  <2>1. CASE r.kind = "save"
    BY <1>2, <2>1 DEF Wanted, Matches
  <2>2. CASE r.kind # "save"
    BY <1>2, <2>2 DEF Wanted, With
  <2> QED  BY <2>1, <2>2
<1> QED  BY <1>1, <1>2

\* A handler that goes on to write holds what it just read.
LEMMA ReadToWriteContent ==
  ASSUME ApiInv, NEW p \in Proc, ReadToWrite(p)
  PROVE  (Hands(p) /\ Holding(p) /\ Told(p))'
<1> USE DEF ApiInv, StageInv, Types
<1> DEFINE n == req[p].note
<1>1. PICK data \in Wanted(req[p], file[n], copy[p][n]) :
        req' = [req EXCEPT ![p].at = "reconcile", ![p].read = file[n], ![p].data = data]
  BY DEF ReadToWrite
<1>2. UNCHANGED <<file, fd, copy>> /\ req[p].at = "read" /\ req[p].kind # "get"
  BY DEF ReadToWrite, disk, At
<1>3. n \in Note /\ file[n] \in Body \cup {None}
  BY <1>2 DEF InStage
<1>4. /\ req'[p].at = "reconcile" /\ req'[p].note = n /\ req'[p].kind = req[p].kind
      /\ req'[p].body = req[p].body /\ req'[p].read = file[n] /\ req'[p].data = data
  BY <1>1 DEF Request
<1>5. fd'[p] = None
  BY <1>2 DEF ContentInv, Hands
<1>6. ASSUME n \in Guarded PROVE Meant(req[p], copy[p][n])'
  <2>1. req[p].kind \in {"save", "append", "post", "convert"}
    BY <1>2, <1>6, GuardedLocked
  <2> DEFINE r == req[p]
             cur == file[n]
             known == copy[p][n]
  <2>2. /\ r.kind = "save" => cur # None /\ known = cur.text /\ data.text = r.body
        /\ r.kind # "save" /\ cur # None => cur.text \subseteq data.text
        /\ cur # None /\ cur.id # None => data.id = cur.id
    <3>1. data \in Wanted(r, cur, known) /\ cur \in Body \cup {None}
          /\ r.kind \in {"save", "append", "post", "convert"} /\ r \in Request
      BY <1>3, <2>1
    <3> HIDE DEF r, cur, known
    <3> QED  BY <3>1, WantedMeant
  <2> QED  BY <1>2, <1>4, <2>2 DEF Meant
<1> QED  BY <1>2, <1>4, <1>5, <1>6 DEF Hands, Holding, Told, At

\* The marker of a guarded note survives the reconciliation.
LEMMA ReconcileContent ==
  ASSUME ApiInv, NEW p \in Proc, Reconcile(p)
  PROVE  (Hands(p) /\ Holding(p) /\ Told(p))'
<1> USE DEF ApiInv, StageInv, Types
<1> DEFINE n == req[p].note
<1>1. PICK id \in MarkersFor(req[p].data, n) :
        req' = [req EXCEPT ![p].at = "open", ![p].data.id = id]
  BY DEF Reconcile
<1>2. UNCHANGED <<file, fd, copy>> /\ req[p].at = "reconcile" /\ req[p].data \in Body
  BY DEF Reconcile, disk, At, InStage
<1>3. /\ req'[p].at = "open" /\ req'[p].note = n /\ req'[p].kind = req[p].kind
      /\ req'[p].body = req[p].body /\ req'[p].read = req[p].read
      /\ req'[p].data.id = id /\ req'[p].data.text = req[p].data.text
  BY <1>1, <1>2 DEF Request, Body
<1>4. fd'[p] = None
  BY <1>2 DEF ContentInv, Hands
<1>5. ASSUME n \in Guarded PROVE file[n] = req[p].read /\ Meant(req[p], copy[p][n])
  BY <1>2, <1>5 DEF ContentInv, Holding
<1>6. ASSUME n \in Guarded, req[p].read # None, req[p].read.id # None
      PROVE  id = req[p].read.id
  BY <1>1, <1>5, <1>6 DEF MarkersFor, Meant
<1>7. ASSUME n \in Guarded PROVE Meant(req[p], copy[p][n])'
  BY <1>2, <1>3, <1>5, <1>6, <1>7 DEF Meant
<1> QED  BY <1>2, <1>3, <1>4, <1>5, <1>7 DEF Hands, Holding, Told, At

\* Truncating leaves the file empty and what is meant as it was.
LEMMA OpenContent ==
  ASSUME ApiInv, NEW p \in Proc, Open(p)
  PROVE  (Hands(p) /\ Holding(p) /\ Told(p))'
<1> USE DEF ApiInv, StageInv, Types
<1> DEFINE n == req[p].note
<1>1. /\ file' = [file EXCEPT ![n] = Blank] /\ fd' = [fd EXCEPT ![p] = n] /\ copy' = copy
      /\ req' = [req EXCEPT ![p] = [@ EXCEPT !.at = "fill"]] /\ req[p].at = "open" /\ n \in Note
  BY DEF Open, Goes, At, InStage
<1>2. /\ req'[p].at = "fill" /\ req'[p].note = n /\ req'[p].kind = req[p].kind
      /\ req'[p].body = req[p].body /\ req'[p].read = req[p].read /\ req'[p].data = req[p].data
  BY <1>1 DEF Request
<1>3. file'[n] = Blank /\ fd'[p] = n
  BY <1>1
<1>4. n \in Guarded => Meant(req[p], copy[p][n])
  BY <1>1 DEF ContentInv, Holding
<1>5. n \in Guarded => Meant(req[p], copy[p][n])'
  BY <1>1, <1>2, <1>4 DEF Meant
<1> QED  BY <1>2, <1>3, <1>5 DEF Hands, Holding, Told, At

\* Nothing is left behind by a write to an empty file.
LEMMA OverBlank == ASSUME NEW data \in Body, NEW b \in Over(Blank, data) PROVE b = data
<1>1. /\ \A tail \in SUBSET Blank.text : data.text \cup tail = data.text
      /\ \A id \in {None, Blank.id} : id = None
  BY DEF Blank
<1>2. b \in {[text |-> data.text, id |-> IF data.id = None THEN None ELSE data.id]}
  BY <1>1 DEF Over
<1> QED  BY <1>2 DEF Body

\* On a guarded note the write leaves exactly what was meant.
LEMMA FillWrites ==
  ASSUME ApiInv, NEW p \in Proc, Fill(p), req[p].note \in Guarded
  PROVE  file' = [file EXCEPT ![req[p].note] = req[p].data] /\ req[p].data \in Body
<1> USE DEF ApiInv, StageInv, Types
<1> DEFINE n == req[p].note
<1>1. req[p].at = "fill" /\ n \in Note /\ req[p].data \in Body
  BY DEF Fill, At, InStage
<1>2. fd[p] = n /\ file[n] = Blank /\ n # None
  BY <1>1, ApiAssumption, MutexAssumption DEF ContentInv, Hands, Holding
<1>3. PICK b \in Over(Blank, req[p].data) : file' = [file EXCEPT ![n] = b]
  BY <1>2 DEF Fill
<1>4. b = req[p].data
  BY <1>1, OverBlank
<1> QED  BY <1>1, <1>3, <1>4

\* After the write nothing is open, and what will be told is in the file.
LEMMA FillContent ==
  ASSUME ApiInv, NEW p \in Proc, Fill(p)
  PROVE  (Hands(p) /\ Holding(p) /\ Told(p))'
<1> USE DEF ApiInv, StageInv, Types
<1>1. (Moved(p, AfterFill(req[p].kind)) /\ req'[p].data = req[p].data) \/ req'[p].at = "idle"
  <2>1. req[p].data \in Body /\ AfterFill(req[p].kind) \in Stage
    BY DEF Fill, At, InStage, AfterFill, Stage
  <2>2. Leaves(p, AfterFill(req[p].kind), req[p].data)
    BY DEF Fill
  <2>3. AfterFill(req[p].kind) = "idle" => Moved(p, "idle")
    BY <2>1, <2>2, Going
  <2> QED  BY <2>1, <2>2, <2>3, Going DEF Moved
<1>2. fd'[p] = None
  BY DEF Fill
<1>3. req'[p].at \in {"tell", "unlock", "idle"}
  BY <1>1 DEF Moved, AfterFill
<1>4. Told(p)'
  <2> SUFFICES ASSUME req'[p].at = "tell", req'[p].note \in Guarded
               PROVE  file'[req'[p].note].text = req'[p].data.text
    BY DEF Told, At
  <2>1. req'[p].note = req[p].note /\ req'[p].data = req[p].data
    BY <1>1 DEF Moved
  <2>2. req[p].note \in Note
    BY <2>1 DEF Guarded
  <2> QED  BY <2>1, <2>2, FillWrites
<1> QED  BY <1>2, <1>3, <1>4 DEF Hands, Holding

\* Where a request is after it went on.
LEMMA GoesAt ==
  ASSUME StageInv, NEW p \in Proc, NEW stage \in Stage,
         Goes(p, stage) \/ Leaves(p, stage, None)
  PROVE  req'[p].at = stage /\ (stage # "idle" => req'[p].kind = req[p].kind)
  BY Going DEF Moved

\* Every step keeps what the requests hold.
LEMMA ContentStep == ApiInv /\ [Next]_vars => ContentInv'
<1> SUFFICES ASSUME ApiInv, [Next]_vars PROVE ContentInv'
  OBVIOUS
<1>1. CASE UNCHANGED vars
  BY <1>1 DEF vars, disk, ApiInv, ContentInv, Hands, Holding, Meant, Told, At
<1>2. CASE Next
  <2>1. PICK p \in Proc : (\E kind \in Kind, n, to \in Note : Begin(p, kind, n, to)) \/ Step(p)
    BY <1>2 DEF Next
  <2>2. Touches(p)
    BY <2>1, BeginTouches, StepTouches DEF ApiInv
  <2>3. (Hands(p) /\ Holding(p) /\ Told(p))'
    <3> USE DEF ApiInv, StageInv, Types, Stage
    <3>1. CASE \E kind \in Kind, n, to \in Note : Begin(p, kind, n, to)
      <4>1. PICK kind \in Kind, n \in Note, to \in Note : Begin(p, kind, n, to)
        BY <3>1
      <4>2. req[p].at = "idle" /\ req'[p].at = FirstStage(kind)
        BY <4>1 DEF Begin, At, Idle
      <4>3. req'[p].at \in {"acquire", "stat", "read"}
        BY <4>2 DEF FirstStage
      <4> QED  BY <2>2, <4>2, <4>3, QuietKeeps
    <3>2. CASE Acquired(p) \/ Unlock(p) \/ StatSource(p) \/ StatTo(p) \/ Remove(p) \/ Rename(p)
               \/ (StatCreate(p) /\ file[req[p].note] # None)
      <4>1. req[p].at \notin {"open", "fill"}
        BY <3>2 DEF Acquired, Unlock, StatSource, StatTo, Remove, Rename, StatCreate, At
      <4>2. \E stage \in {"read", "forget", "idle", "act", "statTo"} : Goes(p, stage)
        BY <3>2 DEF Acquired, Unlock, StatSource, StatTo, Remove, Rename, StatCreate
      <4>3. req'[p].at \in {"read", "forget", "idle", "act", "statTo"}
        BY <4>2, GoesAt
      <4> QED  BY <2>2, <4>1, <4>3, QuietKeeps
    <3>3. CASE StatCreate(p) /\ file[req[p].note] = None
      <4>1. req[p].at = "stat" /\ req[p].kind = "create" /\ req[p].note \notin Guarded
        BY <3>3, GuardedLocked DEF StatCreate, At
      <4>2. req'[p].at = "reconcile" /\ req'[p].note = req[p].note
        BY <3>3 DEF StatCreate, Request
      <4> QED  BY <2>2, <4>1, <4>2, QuietKeeps
    <3>4. CASE ReadGet(p) \/ Refused(p)
      <4>1. req[p].at = "read" /\ \E stage \in {"unlock", "idle"} : Leaves(p, stage, None)
        BY <3>4 DEF ReadGet, Refused, At, After
      <4>2. req'[p].at \in {"unlock", "idle"}
        BY <4>1, GoesAt
      <4> QED  BY <2>2, <4>1, <4>2, QuietKeeps
    <3>5. CASE Finish(p) \/ Tell(p)
      <4>1. req[p].at \in {"forget", "tell"}
        BY <3>5 DEF Finish, Tell, At
      <4>2. \E stage \in {"unlock", "idle", "tell"} :
              Goes(p, stage) /\ (stage = "tell" => req[p].kind = "post")
        BY <3>5 DEF Finish, Tell
      <4>3. req'[p].at \in {"unlock", "idle", "tell"} /\ (req'[p].at = "tell" => req'[p].kind = "post")
        BY <4>2, GoesAt
      <4> QED  BY <2>2, <4>1, <4>3, QuietKeeps
    <3>6. CASE OpenFails(p)
      <4>0. \E stage \in {"unlock", "idle"} : Leaves(p, stage, None)
        BY <3>6 DEF OpenFails, After
      <4>1. /\ req[p].at = "open" /\ req'[p].at \in {"unlock", "idle"} /\ fd'[p] = fd[p]
        BY <3>6, <4>0, GoesAt DEF OpenFails, At, disk
      <4>2. fd'[p] = None
        BY <4>1 DEF ContentInv, Hands
      <4> QED  BY <4>1, <4>2 DEF Hands, Holding, Told, At
    <3> QED  BY <2>1, <3>1, <3>2, <3>3, <3>4, <3>5, <3>6, ReadToWriteContent, ReconcileContent,
             OpenContent, FillContent DEF Step
  <2> QED  BY <2>2, <2>3, OthersKeep DEF ContentInv
<1> QED  BY <1>1, <1>2

\* The whole invariant holds along every behaviour.
LEMMA ApiHolds == Spec => []ApiInv
<1>1. Init => ContentInv
  BY DEF Init, ContentInv, Hands, Holding, Told, At, Idle
<1>2. ApiInv /\ MutexInv' /\ StageInv' /\ [Next]_vars => ApiInv'
  BY ContentStep DEF ApiInv
<1> QED  BY <1>1, <1>2, StagesHold, PTL DEF Spec, ApiInv

\* What PUT and PATCH tell about a guarded note is what the file has, whatever
\* else happens (notes.go:516-517).
THEOREM ApiTells == Spec => []ToldInOrder
<1>1. ApiInv => ToldInOrder
  BY DEF ApiInv, ContentInv, Told, ToldInOrder
<1> QED  BY <1>1, ApiHolds, PTL

-----------------------------------------------------------------------------
(* A guarded note is a versioned register.                                 *)

\* A guarded note has at most one request that is filling it, and then its text
\* is what that request read.
LEMMA SettledIs ==
  ASSUME ApiInv, NEW n \in Guarded
  PROVE  /\ Filling(n) = {} => Settled(n) = file[n]
         /\ \A p \in Filling(n) : Settled(n) = req[p].read
         /\ \A p \in Proc : req[p].note = n /\ req[p].at \in {"read", "reconcile", "open"}
              => Filling(n) = {}
<1>1. \A p, q \in Filling(n) : p = q
  BY OneWriter DEF Filling, At, ApiInv
<1>2. ASSUME NEW p \in Filling(n) PROVE Settled(n) = req[p].read
  BY <1>1, <1>2 DEF Settled
<1>3. ASSUME NEW p \in Proc, req[p].note = n, req[p].at \in {"read", "reconcile", "open"}
      PROVE  Filling(n) = {}
  BY <1>3, OneWriter DEF Filling, At, ApiInv
<1> QED  BY <1>2, <1>3 DEF Settled

\* What is read of a note that is settled is a body or nothing.
LEMMA SettledType ==
  ASSUME ApiInv, NEW n \in Guarded
  PROVE  /\ Settled(n) \in Body \cup {None}
         /\ TextAt(n) \in (SUBSET Piece) \cup {None} /\ IdAt(n) \in Piece \cup {None}
<1>1. Settled(n) \in Body \cup {None}
  <2>1. CASE Filling(n) = {}
    BY <2>1, SettledIs DEF ApiInv, StageInv, Types, Guarded
  <2>2. CASE Filling(n) # {}
    <3>1. PICK p \in Filling(n) : Settled(n) = req[p].read
      BY <2>2, SettledIs
    <3> QED  BY <3>1 DEF Filling, ApiInv, StageInv, Types, Request
  <2> QED  BY <2>1, <2>2
<1> QED  BY <1>1 DEF TextAt, IdAt, Body

\* What a step of p leaves: the guarded notes other than the one p fills.
LEMMA SettledStays ==
  ASSUME ApiInv, NEW p \in Proc, Touches(p), NEW n \in Guarded, file'[n] = file[n],
         req[p].note = n => req[p].at # "fill", req'[p].note = n => req'[p].at # "fill"
  PROVE  Settled(n)' = Settled(n)
<1>1. \A q \in Proc \ {p} : req'[q] = req[q]
  BY DEF Touches
<1>2. Filling(n)' = Filling(n) /\ p \notin Filling(n)
  BY <1>1 DEF Filling, At
<1>3. CASE Filling(n) = {}
  BY <1>2, <1>3 DEF Settled
<1>4. CASE Filling(n) # {}
  <2> DEFINE q == CHOOSE x \in Filling(n) : TRUE
  <2>1. q \in Filling(n)
    BY <1>4
  <2>2. req'[q] = req[q]
    BY <1>1, <1>2, <2>1 DEF Filling
  <2>3. Settled(n) = req[q].read /\ Settled(n)' = req'[q].read
    BY <1>2, <1>4 DEF Settled
  <2> QED  BY <2>2, <2>3
<1> QED  BY <1>3, <1>4

\* Truncating a guarded file changes nothing a reader can see.
LEMMA OpenStutters ==
  ASSUME ApiInv, NEW p \in Proc, Open(p), Touches(p)
  PROVE  \A n \in Guarded : Settled(n)' = Settled(n)
<1> SUFFICES ASSUME NEW n \in Guarded PROVE Settled(n)' = Settled(n)
  OBVIOUS
<1>1. /\ req[p].at = "open" /\ req'[p].at = "fill" /\ req'[p].note = req[p].note
      /\ req'[p].read = req[p].read
  BY DEF Open, At, Goes, ApiInv, StageInv, Types, Request
<1>2. CASE req[p].note # n
  BY <1>1, <1>2, SettledStays DEF Touches
<1>3. CASE req[p].note = n
  <2>1. Settled(n) = file[n] /\ Filling(n) = {}
    BY <1>1, <1>3, SettledIs
  <2>2. file[n] = req[p].read
    BY <1>1, <1>3 DEF ApiInv, ContentInv, Holding
  <2>3. Filling(n)' = {p}
    BY <1>1, <1>3, <2>1 DEF Filling, At, Touches
  <2>4. Settled(n)' = req'[p].read
    BY <2>3 DEF Settled
  <2> QED  BY <1>1, <2>1, <2>2, <2>4
<1> QED  BY <1>2, <1>3

\* Filling it puts what was meant in the place of what was read.
LEMMA FillSettles ==
  ASSUME ApiInv, NEW p \in Proc, Fill(p), Touches(p), NEW n \in Guarded
  PROVE  IF req[p].note = n
         THEN /\ Settled(n) = req[p].read /\ Settled(n)' = req[p].data
              /\ req[p].data \in Body /\ Meant(req[p], copy[p][n])
         ELSE Settled(n)' = Settled(n)
<1>1. req[p].at = "fill" /\ req'[p].at # "fill"
  <2>1. Leaves(p, AfterFill(req[p].kind), req[p].data) /\ req[p].at = "fill"
    BY DEF Fill, At
  <2>2. req[p].data \in Body /\ AfterFill(req[p].kind) \in Stage \ {"fill"}
    BY <2>1 DEF ApiInv, StageInv, InStage, AfterFill, Stage
  <2>3. Moved(p, AfterFill(req[p].kind))
    BY <2>1, <2>2, Going DEF ApiInv
  <2> QED  BY <2>1, <2>2, <2>3 DEF Moved
<1>2. CASE req[p].note # n
  <2>1. req'[p].at # "fill" /\ file'[n] = file[n]
    BY <1>1, <1>2 DEF Touches
  <2> QED  BY <1>1, <1>2, <2>1, SettledStays
<1>3. CASE req[p].note = n
  <2>1. p \in Filling(n)
    BY <1>1, <1>3 DEF Filling, At
  <2>2. Settled(n) = req[p].read
    BY <2>1, SettledIs
  <2>3. Filling(n)' = {}
    BY <1>1, <1>3, OneWriter DEF Filling, At, Touches, ApiInv
  <2>4. Settled(n)' = file'[n]
    BY <2>3 DEF Settled
  <2>5. file'[n] = req[p].data /\ req[p].data \in Body
    BY <1>3, FillWrites DEF ApiInv, StageInv, Types, Guarded
  <2>6. Meant(req[p], copy[p][n])
    BY <1>1, <1>3 DEF ApiInv, ContentInv, Holding
  <2> QED  BY <1>3, <2>2, <2>4, <2>5, <2>6
<1> QED  BY <1>2, <1>3

\* What the abstract specification sees.
Texts  == [n \in Guarded |-> TextAt(n)]
Ids    == [n \in Guarded |-> IdAt(n)]
Copies == [p \in Proc |-> [n \in Guarded |-> copy[p][n]]]

\* Notes that stay settled look the same from outside.
LEMMA SettledSeen ==
  ASSUME \A n \in Guarded : Settled(n)' = Settled(n)
  PROVE  UNCHANGED <<Texts, Ids>>
<1>1. \A n \in Guarded : TextAt(n)' = TextAt(n) /\ IdAt(n)' = IdAt(n)
  BY DEF TextAt, IdAt
<1> QED  BY <1>1 DEF Texts, Ids

\* A client's copy of one guarded note changes.
LEMMA CopiesMove ==
  ASSUME Types, NEW p \in Proc, NEW n \in Guarded, NEW v, copy' = [copy EXCEPT ![p][n] = v]
  PROVE  Copies' = [Copies EXCEPT ![p][n] = v]
<1>0. \A q \in Proc, k \in Guarded : copy'[q][k] = IF q = p /\ k = n THEN v ELSE copy[q][k]
  BY DEF Types, Guarded
<1>1. Copies' = [q \in Proc |-> IF q = p THEN [Copies[p] EXCEPT ![n] = v] ELSE Copies[q]]
  <2>1. [Copies[p] EXCEPT ![n] = v] = [k \in Guarded |-> copy'[p][k]]
    BY <1>0 DEF Copies
  <2>2. \A q \in Proc \ {p} : Copies[q] = [k \in Guarded |-> copy'[q][k]]
    BY <1>0 DEF Copies
  <2> QED  BY <2>1, <2>2 DEF Copies
<1> QED  BY <1>1 DEF Copies

\* A GET is a Get, or a look at a note that is not there.
LEMMA ReadIsGet ==
  ASSUME ApiInv, NEW p \in Proc, ReadGet(p), Touches(p)
  PROVE  [Versions!Next]_<<Texts, Ids, Copies>>
<1> USE DEF ApiInv, StageInv, Types
<1>0. PICK n \in Note : n = req[p].note
  BY DEF ReadGet, At, InStage
<1>1. /\ req[p].at = "read" /\ file[n] \in Body \cup {None} /\ file' = file
      /\ copy' = IF file[n] = None THEN copy ELSE [copy EXCEPT ![p][n] = file[n].text]
  BY <1>0 DEF ReadGet, At, disk
<1>2. req'[p].at # "fill"
  <2>1. "unlock" \in Stage
    BY DEF Stage
  <2> QED  BY <2>1, GoesAt DEF ReadGet
<1>3. \A k \in Guarded : Settled(k)' = Settled(k)
  BY <1>1, <1>2, SettledStays
<1>4. UNCHANGED <<Texts, Ids>>
  BY <1>3, SettledSeen
<1>5. CASE n \notin Guarded \/ file[n] = None
  <2>1. \A q \in Proc, k \in Guarded : copy'[q][k] = copy[q][k]
    BY <1>1, <1>5 DEF Guarded
  <2>2. Copies' = Copies
    BY <2>1 DEF Copies
  <2> QED  BY <1>4, <2>2
<1>6. CASE n \in Guarded /\ file[n] # None
  <2>1. Settled(n) = file[n]
    BY <1>0, <1>1, <1>6, SettledIs
  <2>2. Texts[n] = file[n].text
    BY <1>6, <2>1 DEF Texts, TextAt
  <2>3. copy' = [copy EXCEPT ![p][n] = Texts[n]]
    BY <1>1, <1>6, <2>2
  <2>4. Copies' = [Copies EXCEPT ![p][n] = Texts[n]]
    BY <1>6, <2>3, CopiesMove
  <2>5. Versions!Get(p, n)
    BY <1>4, <2>4 DEF Versions!Get, Texts, Ids, Copies
  <2> QED  BY <1>6, <2>5 DEF Versions!Next
<1> QED  BY <1>5, <1>6

\* A finished write is a Save or adds text.
LEMMA FillIsSaveOrAdd ==
  ASSUME ApiInv, NEW p \in Proc, Fill(p), Touches(p)
  PROVE  [Versions!Next]_<<Texts, Ids, Copies>>
<1> USE DEF ApiInv, StageInv, Types
<1>0. PICK n \in Note : n = req[p].note
  BY DEF Fill, At, InStage
<1> DEFINE data == req[p].data
           read == req[p].read
<1>1. /\ req[p].at = "fill" /\ req[p].kind \in Kinds[n]
      /\ copy' = IF req[p].kind \in {"save", "overwrite"}
                 THEN [copy EXCEPT ![p][n] = req[p].body] ELSE copy
  BY <1>0 DEF Fill, At, InStage
<1>2. CASE n \notin Guarded
  <2>1. \A k \in Guarded : Settled(k)' = Settled(k)
    BY <1>0, <1>2, FillSettles
  <2>2. \A q \in Proc, k \in Guarded : copy'[q][k] = copy[q][k]
    BY <1>1, <1>2 DEF Guarded
  <2>3. Copies' = Copies
    BY <2>2 DEF Copies
  <2> QED  BY <2>1, <2>3, SettledSeen
<1>3. CASE n \in Guarded
  <2>1. /\ Settled(n) = read /\ Settled(n)' = data /\ data \in Body
        /\ Meant(req[p], copy[p][n])
        /\ \A k \in Guarded \ {n} : Settled(k)' = Settled(k)
    BY <1>0, <1>3, FillSettles
  <2>2. data # None /\ data.text \in SUBSET Piece /\ data.text # None
    BY <2>1, NoneAssumption DEF Body
  <2>3. read \in Body \cup {None}
    BY DEF Request
  <2>4. /\ \A k \in Guarded : TextAt(k)' = IF k = n THEN data.text ELSE TextAt(k)
        /\ \A k \in Guarded : IdAt(k)' = IF k = n THEN data.id ELSE IdAt(k)
        /\ TextAt(n) = IF read = None THEN None ELSE read.text
        /\ IdAt(n) = IF read = None THEN None ELSE read.id
    BY <2>1, <2>2 DEF TextAt, IdAt
  <2>5. /\ Texts' = [Texts EXCEPT ![n] = data.text] /\ Ids' = [Ids EXCEPT ![n] = data.id]
        /\ Texts[n] = TextAt(n) /\ Ids[n] = IdAt(n)
    BY <1>3, <2>4 DEF Texts, Ids
  <2>6. Texts'[n] = data.text /\ Ids'[n] = data.id
    BY <1>3, <2>5 DEF Texts, Ids
  <2>7. Ids[n] # None => Ids'[n] = Ids[n]
    BY <2>1, <2>4, <2>5, <2>6 DEF Meant
  <2>8. Versions!Changes(n)
    BY <2>2, <2>5, <2>6, <2>7 DEF Versions!Changes, Texts, Ids
  <2>9. CASE req[p].kind = "save"
    <3>1. read # None /\ copy[p][n] = read.text /\ data.text = req[p].body
      BY <2>1, <2>9 DEF Meant
    <3>2. copy' = [copy EXCEPT ![p][n] = data.text]
      BY <1>1, <2>9, <3>1
    <3>3. Copies' = [Copies EXCEPT ![p][n] = Texts'[n]] /\ Copies[p][n] = copy[p][n]
      <4>1. Copies' = [Copies EXCEPT ![p][n] = data.text]
        BY <1>3, <3>2, CopiesMove
      <4> QED  BY <1>3, <2>6, <4>1 DEF Copies
    <3>4. Texts[n] # None /\ Copies[p][n] = Texts[n]
      BY <2>3, <2>4, <2>5, <3>1, <3>3, NoneAssumption DEF Body
    <3>5. Versions!Save(p, n)
      BY <3>3, <3>4 DEF Versions!Save, Texts, Ids, Copies
    <3> QED  BY <1>3, <2>8, <3>5 DEF Versions!Next
  <2>10. CASE req[p].kind # "save"
    <3>1. copy' = copy
      BY <1>1, <1>3, <2>10 DEF Guarded
    <3>2. Copies' = Copies
      BY <3>1 DEF Copies
    <3>3. Texts[n] # None => Texts[n] \subseteq Texts'[n]
      BY <2>1, <2>4, <2>5, <2>6, <2>10 DEF Meant
    <3>4. Versions!Add(n)
      BY <3>2, <3>3 DEF Versions!Add, Texts, Ids, Copies
    <3> QED  BY <1>3, <2>8, <3>4 DEF Versions!Next
  <2> QED  BY <2>9, <2>10
<1> QED  BY <1>2, <1>3

\* Every other step is one nobody can see.
LEMMA RestStutters ==
  ASSUME ApiInv, NEW p \in Proc, Touches(p), req[p].at # "fill", req'[p].at # "fill",
         copy' = copy, \A n \in Guarded : file'[n] = file[n]
  PROVE  UNCHANGED <<Texts, Ids, Copies>>
<1>1. \A n \in Guarded : Settled(n)' = Settled(n)
  BY SettledStays
<1>2. UNCHANGED <<Texts, Ids>>
  BY <1>1, SettledSeen
<1> QED  BY <1>2 DEF Copies

\* The API implements the versioned register: on guarded notes, for any notes,
\* clients and requests, a reader sees no half-written file, no append is lost
\* and a save replaces exactly the text its If-Match names.
THEOREM ApiImplements == Spec => ImplementsVersions
<1>1. Init => Versions!Init
  <2> SUFFICES ASSUME Init PROVE Versions!Init
    OBVIOUS
  <2>1. \A n \in Guarded : Settled(n) = file[n] /\ file[n] \in {[text |-> {0}, id |-> None], None}
    BY DEF Init, Settled, Filling, At, Idle, Guarded
  <2>2. \A n \in Guarded : TextAt(n) \in (SUBSET Piece) \cup {None} /\ IdAt(n) = None
    BY <2>1, ApiAssumption DEF TextAt, IdAt
  <2>3. Copies = [p \in Proc |-> [n \in Guarded |-> None]]
    BY DEF Init, Copies, Guarded
  <2> QED  BY <2>2, <2>3 DEF Versions!Init, Copies
<1>2. ApiInv /\ [Next]_vars => [Versions!Next]_<<Texts, Ids, Copies>>
  <2> SUFFICES ASSUME ApiInv, [Next]_vars PROVE [Versions!Next]_<<Texts, Ids, Copies>>
    OBVIOUS
  <2>1. CASE UNCHANGED vars
    <3>1. \A n \in Guarded : Settled(n)' = Settled(n)
      BY <2>1 DEF vars, disk, Settled, Filling, At
    <3> QED  BY <2>1, <3>1, SettledSeen DEF vars, Copies
  <2>2. CASE Next
    <3>1. PICK p \in Proc : (\E kind \in Kind, n, to \in Note : Begin(p, kind, n, to)) \/ Step(p)
      BY <2>2 DEF Next
    <3>2. Touches(p)
      BY <3>1, BeginTouches, StepTouches DEF ApiInv
    <3> USE DEF ApiInv, StageInv, Types, Stage
    <3>3. CASE \E kind \in Kind, n, to \in Note : Begin(p, kind, n, to)
      <4>1. PICK kind \in Kind, n \in Note, to \in Note : Begin(p, kind, n, to)
        BY <3>3
      <4>2. req[p].at = "idle" /\ req'[p].at = FirstStage(kind) /\ copy' = copy /\ file' = file
        BY <4>1 DEF Begin, At, Idle, disk
      <4>3. req'[p].at # "fill"
        BY <4>2 DEF FirstStage
      <4> QED  BY <3>2, <4>2, <4>3, RestStutters
    <3>4. CASE ReadGet(p)
      BY <3>2, <3>4, ReadIsGet
    <3>5. CASE Fill(p)
      BY <3>2, <3>5, FillIsSaveOrAdd
    <3>6. CASE Open(p)
      <4>1. UNCHANGED <<Texts, Ids>>
        BY <3>2, <3>6, OpenStutters, SettledSeen
      <4> QED  BY <3>6, <4>1 DEF Open, Copies
    <3>7. CASE Acquired(p) \/ Tell(p) \/ Unlock(p) \/ Finish(p) \/ StatSource(p) \/ StatTo(p)
               \/ Remove(p) \/ Rename(p) \/ (StatCreate(p) /\ file[req[p].note] # None)
      <4>1. req[p].at \notin {"open", "fill"} /\ copy' = copy
        BY <3>7 DEF Acquired, Tell, Unlock, Finish, StatSource, StatTo, Remove, Rename, StatCreate, At
      <4>2. \E stage \in Stage \ {"fill"} : Goes(p, stage)
        BY <3>7 DEF Acquired, Tell, Unlock, Finish, StatSource, StatTo, Remove, Rename, StatCreate
      <4>3. req'[p].at # "fill"
        BY <4>2, GoesAt
      <4> QED  BY <3>2, <4>1, <4>3, RestStutters DEF Touches
    <3>8. CASE Refused(p) \/ OpenFails(p)
      <4>1. req[p].at # "fill" /\ copy' = copy /\ file' = file
        BY <3>8 DEF Refused, OpenFails, At, disk
      <4>2. \E stage \in {"unlock", "idle"} : Leaves(p, stage, None)
        BY <3>8 DEF Refused, OpenFails, After
      <4>3. req'[p].at # "fill"
        BY <4>2, GoesAt
      <4> QED  BY <3>2, <4>1, <4>3, RestStutters
    <3>9. CASE ReadToWrite(p) \/ Reconcile(p) \/ (StatCreate(p) /\ file[req[p].note] = None)
      <4>1. req[p].at # "fill" /\ copy' = copy /\ file' = file
        BY <3>9 DEF ReadToWrite, Reconcile, StatCreate, At, disk
      <4>2. req'[p].at \in {"reconcile", "open"}
        BY <3>9 DEF ReadToWrite, Reconcile, StatCreate, Request
      <4> QED  BY <3>2, <4>1, <4>2, RestStutters
    <3> QED  BY <3>1, <3>3, <3>4, <3>5, <3>6, <3>7, <3>8, <3>9 DEF Step
  <2> QED  BY <2>1, <2>2
<1> QED
  BY <1>1, <1>2, ApiHolds, PTL DEF Spec, ImplementsVersions, Versions!Spec, Texts, Ids, Copies
=============================================================================
