------------------------------ MODULE MCNoteApi -------------------------------
(* One note whose writers all take the lock, one that gets the other requests,
   and a place to move it to. *)
EXTENDS NoteApi, TLC

CONSTANTS p1, p2, g, m, d, o1, o2

ByLock == {"get", "save", "append", "post"}
TheMax   == g :> 3 @@ m :> 2 @@ d :> 0
Others == Unlocked \cup {"overwrite", "convert"}
TheKinds == g :> ByLock @@ m :> Others @@ d :> Others

\* PATCH against the handlers that rewrite a note without the lock.
RewriteKinds == m :> {"append", "ensure", "taskEdit"}
RewriteMax   == m :> 2
=============================================================================
