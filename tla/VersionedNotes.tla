---------------------------- MODULE VersionedNotes ----------------------------
(***************************************************************************)
(* What the notes API promises of a note whose writers all take its lock,  *)
(* without locks, files or requests: readers get the whole text, adding    *)
(* text never loses any, and a save replaces exactly the text its client   *)
(* had seen.  A note keeps the identity it once got.                       *)
(***************************************************************************)
CONSTANTS Note, Client, Text, None

VARIABLES
  text,   \* per note: its text, or None
  id,     \* per note: its marker, or None
  copy    \* per client and note: the text the client last saw

Init ==
  /\ text \in [Note -> Text \cup {None}]
  /\ id \in [Note -> {None}]
  /\ copy = [c \in Client |-> [n \in Note |-> None]]

\* A client reads a note.
Get(c, n) ==
  /\ copy' = [copy EXCEPT ![c][n] = text[n]]
  /\ UNCHANGED <<text, id>>

\* A client replaces the text it saw, and knows what it wrote.
Save(c, n) ==
  /\ text[n] # None /\ copy[c][n] = text[n]
  /\ copy' = [copy EXCEPT ![c][n] = text'[n]]

\* A client adds to the text, whatever it is now, or creates the note.
Add(n) ==
  /\ text[n] # None => text[n] \subseteq text'[n]
  /\ UNCHANGED copy

\* Only note n changes; an identity is given once.
Changes(n) ==
  /\ text'[n] \in Text
  /\ text' = [text EXCEPT ![n] = text'[n]]
  /\ id' = [id EXCEPT ![n] = id'[n]]
  /\ id[n] # None => id'[n] = id[n]

Next == \E n \in Note : \/ \E c \in Client : Get(c, n) \/ (Save(c, n) /\ Changes(n))
                        \/ Add(n) /\ Changes(n)

Spec == Init /\ [][Next]_<<text, id, copy>>
=============================================================================
