------------------------------ MODULE SharedText ------------------------------
(***************************************************************************)
(* The shared document of a note, as the browsers hold it (the Yjs         *)
(* document of frontend/src/sharedDoc.js) and the texts they read out of   *)
(* it and merge (sharedText.js).                                           *)
(*                                                                         *)
(* A text is the set of its pieces (paragraphs).  A Yjs document is the    *)
(* set of the items it integrated, so an update is a set of items and      *)
(* applying it is union: an inserted piece, its deletion, or a value set   *)
(* in the 'meta' map.  A set value goes after the value its author saw, at *)
(* a path that grows by the author's client id; Yjs shows the last one.    *)
(***************************************************************************)
EXTENDS Naturals, Sequences

CONSTANT Unset \* a value nobody set

\* Mutant: takes our side where both changed.
MergeOurs(base, ours, theirs) == IF ours = base THEN theirs ELSE ours

\* mergeThreeWay, by pieces: a piece changed on one side takes that side.
Merge(base, ours, theirs) ==
  (ours \cap theirs) \cup (ours \ base) \cup (theirs \ base)

-----------------------------------------------------------------------------
Inserted(p, by)  == [put |-> p, by |-> by]
Deleted(p, by)  == [cut |-> p, by |-> by]

Has(d, field) == {i \in d : field \in DOMAIN i}

\* The insertions that are still in the text.
Shown(d) == {i \in Has(d, "put") : Deleted(i.put, i.by) \notin d}
Text(d)  == {i.put : i \in Shown(d)}

\* The items that turn the text of d into `text`: updateYFragment and the
\* editor's own transactions change only what differs.
Rewrite(d, text, by) ==
  {Inserted(p, by) : p \in text \ Text(d)} \cup {Deleted(i.put, i.by) : i \in {j \in Shown(d) : j.put \notin text}}

\* Path p comes after path q: it continues it, or leaves it to a higher client.
After(p, q) ==
  \E k \in 1..Len(p) : /\ k <= Len(q) + 1
                       /\ \A i \in 1..(k - 1) : p[i] = q[i]
                       /\ k <= Len(q) => p[k] > q[k]

LastPath(d, key) ==
  IF Has(d, key) = {} THEN <<>>
  ELSE (CHOOSE i \in Has(d, key) : \A j \in Has(d, key) : j.at = i.at \/ After(i.at, j.at)).at

Value(d, key) ==
  IF Has(d, key) = {} THEN Unset
  ELSE (CHOOSE i \in Has(d, key) : i.at = LastPath(d, key))[key]

\* meta: base (with its etag), baseMd when it differs from base, dirty.
Base(d)   == Value(d, "base")
BaseMd(d) == IF Has(d, "md") = {} \/ [unset |-> LastPath(d, "md")] \in d
             THEN Base(d) ELSE Value(d, "md")
Dirty(d)  == Value(d, "dirty") = TRUE

\* Nobody saved or loaded through the room yet: hasBase is not set.
Agreed(d) == Base(d) # Unset

\* _unchanged: the text is what the room and the file last agreed on.
Unchanged(d, text) == ~Dirty(d) /\ text = BaseMd(d)

\* _setAgreed: the items client c adds to d.
Agree(d, c, base, md, dirty) ==
  (IF Base(d) = base THEN {} ELSE {[base |-> base, at |-> Append(LastPath(d, "base"), c)]})
    \cup (IF md = base
          THEN {[unset |-> i.at] : i \in {j \in Has(d, "md") : j.at = LastPath(d, "md")}} \ d
          ELSE IF Has(d, "md") # {} /\ [unset |-> LastPath(d, "md")] \notin d /\ Value(d, "md") = md
               THEN {} ELSE {[md |-> md, at |-> Append(LastPath(d, "md"), c)]})
    \cup (IF Dirty(d) = dirty THEN {} ELSE {[dirty |-> dirty, at |-> Append(LastPath(d, "dirty"), c)]})
===============================================================================
