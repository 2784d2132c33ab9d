------------------------------ MODULE KeyedMutex ------------------------------
(***************************************************************************)
(* The lock per note of one server process (backend/handlers/notelock.go): *)
(* a table of mutexes that are created when a goroutine first asks for a   *)
(* key, counted, and taken out of the table by the last one that used them.*)
(* Four steps, because the table's own mutex is only held for the first    *)
(* and the last of them.                                                   *)
(***************************************************************************)
EXTENDS Naturals, FiniteSets

CONSTANTS
  Proc,   \* goroutines
  Key,    \* what they lock
  Obj,    \* refMutex objects
  None    \* no object

ASSUME MutexAssumption ==
  /\ IsFiniteSet(Proc)
  /\ None \notin Proc \cup Key \cup Obj

VARIABLES
  locks,  \* k.locks: the object of each key
  refs,   \* per object: m.refs
  owner,  \* per object: who holds it
  handle, \* per goroutine: m
  key,    \* per goroutine: the key it asked for
  phase   \* per goroutine: where it stands

mutex == <<locks, refs, owner, handle, key, phase>>

MutexInit ==
  /\ locks = [k \in Key |-> None]
  /\ refs = [o \in Obj |-> 0]
  /\ owner = [o \in Obj |-> None]
  /\ handle = [p \in Proc |-> None]
  /\ key = [p \in Proc |-> None]
  /\ phase = [p \in Proc |-> "out"]

\* An object nobody can reach: allocating gives one of these.
Unused(o) == (\A p \in Proc : handle[p] # o) /\ (\A k \in Key : locks[k] # o)

\* lock, under k.mu: find or create the entry and count oneself in.
Look(p, k) ==
  /\ phase[p] = "out"
  /\ \E o \in Obj :
       /\ IF locks[k] = None THEN Unused(o) ELSE o = locks[k]
       /\ locks' = [locks EXCEPT ![k] = o]
       /\ refs' = [refs EXCEPT ![o] = (IF locks[k] = None THEN 0 ELSE @) + 1]
       /\ handle' = [handle EXCEPT ![p] = o]
  /\ key' = [key EXCEPT ![p] = k]
  /\ phase' = [phase EXCEPT ![p] = "wait"]
  /\ UNCHANGED owner

\* m.Lock()
Acquire(p) ==
  /\ phase[p] = "wait" /\ owner[handle[p]] = None
  /\ owner' = [owner EXCEPT ![handle[p]] = p]
  /\ phase' = [phase EXCEPT ![p] = "in"]
  /\ UNCHANGED <<locks, refs, handle, key>>

\* The release function: m.Unlock()...
Release(p) ==
  /\ phase[p] = "in"
  /\ owner' = [owner EXCEPT ![handle[p]] = None]
  /\ phase' = [phase EXCEPT ![p] = "leave"]
  /\ UNCHANGED <<locks, refs, handle, key>>

\* Mutant: the entry goes whoever still waits for it.
ForgetAlways(p) ==
  /\ phase[p] = "leave"
  /\ refs' = [refs EXCEPT ![handle[p]] = @ - 1]
  /\ locks' = [locks EXCEPT ![key[p]] = None]
  /\ handle' = [handle EXCEPT ![p] = None]
  /\ key' = [key EXCEPT ![p] = None]
  /\ phase' = [phase EXCEPT ![p] = "out"]
  /\ UNCHANGED owner

\* Mutant: the entry stays when the last one leaves before it counts itself out.
ForgetNever(p) ==
  /\ phase[p] = "leave"
  /\ refs' = [refs EXCEPT ![handle[p]] = @ - 1]
  /\ locks' = IF refs[handle[p]] = 0 THEN [locks EXCEPT ![key[p]] = None] ELSE locks
  /\ handle' = [handle EXCEPT ![p] = None]
  /\ key' = [key EXCEPT ![p] = None]
  /\ phase' = [phase EXCEPT ![p] = "out"]
  /\ UNCHANGED owner

\* ...and, under k.mu, count oneself out and delete an entry nobody uses.
Forget(p) ==
  /\ phase[p] = "leave"
  /\ refs' = [refs EXCEPT ![handle[p]] = @ - 1]
  /\ locks' = IF refs'[handle[p]] = 0 THEN [locks EXCEPT ![key[p]] = None] ELSE locks
  /\ handle' = [handle EXCEPT ![p] = None]
  /\ key' = [key EXCEPT ![p] = None]
  /\ phase' = [phase EXCEPT ![p] = "out"]
  /\ UNCHANGED owner

MutexNext ==
  \E p \in Proc :
    \/ \E k \in Key : Look(p, k)
    \/ Acquire(p) \/ Release(p) \/ Forget(p)

-----------------------------------------------------------------------------
MutexTypeOK ==
  /\ locks \in [Key -> Obj \cup {None}]
  /\ refs \in [Obj -> Nat]
  /\ owner \in [Obj -> Proc \cup {None}]
  /\ handle \in [Proc -> Obj \cup {None}]
  /\ key \in [Proc -> Key \cup {None}]
  /\ phase \in [Proc -> {"out", "wait", "in", "leave"}]

\* Two goroutines never hold the lock of one note (notelock.go:5-8), although
\* entries come and go while others ask for them: a goroutine that waits on an
\* entry and one that finds none must not end up with two mutexes for one key.
MutualExclusion ==
  \A p, q \in Proc : phase[p] = "in" /\ phase[q] = "in" /\ key[p] = key[q] => p = q

\* The table holds exactly the notes being written right now (lines 33-35):
\* an entry is neither left behind nor taken from somebody who uses it.
EntriesUsed ==
  \A k \in Key : locks[k] # None <=> \E p \in Proc : phase[p] # "out" /\ key[p] = k

\* A lock that excludes and leaves nothing behind.
LockTableRight == MutualExclusion /\ EntriesUsed
=============================================================================
