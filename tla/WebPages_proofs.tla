---------------------------- MODULE WebPages_proofs ----------------------------
(***************************************************************************)
(* Proofs about pages of the web app, for any notes, boards, stickies,     *)
(* decks and plans.  Each part of the app has an invariant of its own; a   *)
(* step of another part leaves it alone.                                   *)
(***************************************************************************)
EXTENDS FiniteSetTheorems, SequenceTheorems, WebApp, TLAPS

-----------------------------------------------------------------------------
(* The open note: what is typed is never lost by a save.                   *)

LEMMA NoteSteps ==
  ASSUME [Next]_vars
  PROVE  (view = "note" /\ view' = "note" /\ NoteNext) \/ (UNCHANGED noteVars /\ (UNCHANGED plan \/ view # "note") /\ view' = view)
  BY DEF Next, PageNext, ToolNext, RestNext, vars, pageVars, Part

\* None is not a job, not a text and not a notice.
NoneIsNothing == "note" \notin DOMAIN None /\ None \notin {"banner", "console"} /\ \A q : q \notin None

TypedIn(n) == {q \in made : q[1] = n}
Ours       == TypedIn(tab.open)
OnDisk     == file[tab.open]

TabTypes ==
  /\ DOMAIN file = Note
  /\ DOMAIN tab = {"open", "ed", "text", "saved", "etag", "shown", "said"}
  /\ tab.open \in Note
  /\ put # None => DOMAIN put = {"note", "text", "wrote", "base", "shown", "at", "reply", "theirs", "tries", "live"}
  /\ going # None => DOMAIN going = {"to", "waits", "got"}
  /\ DOMAIN plan = {"typed", "ticked", "elsewhere", "opens", "fails", "peers"}
  /\ \A q \in made : q[1] \in Note

\* Nothing holds a piece that is yet to be typed.
Unborn(text) == text \cap plan.typed = {}
TypedLater ==
  /\ \A n \in Note : Unborn(file[n])
  /\ Unborn(tab.ed) /\ Unborn(tab.text) /\ Unborn(tab.saved) /\ Unborn(tab.shown)
  /\ timer # None => Unborn(timer.text) /\ Unborn(timer.on)
  /\ next # None => Unborn(next.text) /\ Unborn(next.on)
  /\ put # None => /\ Unborn(put.text) /\ Unborn(put.base) /\ Unborn(put.wrote)
                   /\ Unborn(put.shown) /\ Unborn(put.theirs)
  /\ look # None => Unborn(look.base) /\ Unborn(look.got)
  /\ going # None => Unborn(going.got)
  /\ plan.typed \cap (plan.ticked \cup plan.elsewhere) = {} /\ plan.ticked \cap plan.elsewhere = {}
  /\ made \cap (plan.typed \cup plan.ticked \cup plan.elsewhere) = {}

\* The page: all that was typed in its note is in the editor, what the page
\* takes to be saved is in the file, and with nothing under way all it knows of
\* is saved, or it said that it is not.
ScreenInv ==
  /\ Ours \subseteq tab.ed /\ Ours \cap OnDisk \subseteq tab.text
  /\ Ours \cap tab.saved \subseteq OnDisk /\ Ours \cap tab.shown \subseteq OnDisk
  /\ going # None => tab.ed = tab.text /\ going.to \in Note /\ going.to # tab.open
  /\ timer = None /\ next = None /\ put = None =>
       Ours \cap tab.text \subseteq OnDisk \/ tab.said # None

\* The edit that waits holds all that was reported.
TimerInv ==
  timer # None =>
    /\ timer.note = tab.open
    /\ Ours \cap tab.text \subseteq timer.text /\ Ours \cap timer.text \subseteq tab.text
    /\ Ours \cap timer.on \subseteq tab.saved

\* The queued save takes nothing from the file, and with no edit that waits it
\* holds all that was reported.
NextInv ==
  next # None =>
    /\ next.note = tab.open
    /\ timer = None => Ours \cap tab.text \subseteq next.text
    /\ Ours \cap OnDisk \subseteq next.text /\ Ours \cap next.text \subseteq tab.text
    /\ Ours \cap next.on \subseteq tab.saved

\* So does the save that runs, through every retry and merge.
PutInv ==
  put # None =>
    /\ put.note = tab.open
    /\ timer = None /\ next = None => Ours \cap tab.text \subseteq put.text
    /\ next # None => Ours \cap put.text \subseteq next.text
    /\ Ours \cap OnDisk \subseteq put.text /\ Ours \cap put.text \subseteq tab.text
    /\ Ours \cap put.base \subseteq OnDisk /\ Ours \cap put.shown \subseteq OnDisk
    /\ put.at = "asked" => Ours \cap put.theirs \subseteq OnDisk /\ Ours \cap put.base \subseteq put.theirs
    /\ Ours \cap put.wrote = Ours \cap put.text
    /\ put.reply = "ok" /\ put.at # "asked" => Ours \cap put.wrote \subseteq OnDisk

\* What a look read holds what its page took to be saved.
LookInv ==
  look # None =>
    /\ look.note \in Note
    /\ TypedIn(look.note) \cap look.base \subseteq look.got
    /\ TypedIn(look.note) \cap look.got \subseteq file[look.note]

\* What was typed in a note that is not open is in its file.
AwayInv ==
  \A n \in Note : n # tab.open =>
    /\ TypedIn(n) \subseteq file[n]
    /\ going # None /\ going.got # None /\ going.to = n => TypedIn(n) \subseteq going.got

TabInv ==
  TabTypes /\ TypedLater /\ ScreenInv /\ TimerInv /\ NextInv /\ PutInv /\ LookInv /\ AwayInv

-----------------------------------------------------------------------------
(* Steps.                                                                  *)

LEMMA MergeKeeps ==
  ASSUME NEW base, NEW ours, NEW theirs
  PROVE  /\ Shared!Merge(base, ours, theirs) \subseteq ours \cup theirs
         /\ \A q \in ours : q \notin base \/ q \in theirs => q \in Shared!Merge(base, ours, theirs)
         /\ \A q \in theirs : q \notin base \/ q \in ours => q \in Shared!Merge(base, ours, theirs)
  BY DEF Shared!Merge

\* A PUT writes the text or nothing, and says which.
LEMMA PutWrites ==
  ASSUME DOMAIN file = Note, NEW n \in Note, NEW etag, NEW text, Put(n, etag, text)
  PROVE  /\ DOMAIN file' = Note /\ \A m \in Note : m # n => file'[m] = file[m]
         /\ file'[n] = text \/ file'[n] = file[n]
         /\ Reply(n, etag) = "ok" \/ etag = None => file'[n] = text
  BY DEF Put, Reply

\* What a save writes keeps what was typed in the edit and in the file.
LEMMA WritesAll ==
  ASSUME TabInv, next # None
  PROVE  /\ Ours \cap ToWrite(next) = Ours \cap next.text
         /\ Unborn(ToWrite(next))
  <1>1. /\ Ours \cap next.on \subseteq tab.saved /\ Ours \cap tab.saved \subseteq OnDisk
        /\ Ours \cap OnDisk \subseteq next.text /\ Unborn(next.text) /\ Unborn(tab.saved)
    BY DEF TabInv, ScreenInv, NextInv, TypedLater
  <1> DEFINE m == Shared!Merge(next.on, next.text, tab.saved)
  <1>2. /\ m \subseteq next.text \cup tab.saved
        /\ \A q \in next.text : q \notin next.on \/ q \in tab.saved => q \in m
    BY MergeKeeps
  <1>3. ToWrite(next) \in {m, next.text}
    BY DEF ToWrite
  <1> HIDE DEF m
  <1>4. Ours \cap m = Ours \cap next.text /\ Unborn(m)
    BY <1>1, <1>2 DEF Unborn
  <1> QED  BY <1>1, <1>3, <1>4

LEMMA StartSaveInv == ASSUME TabInv, NoneIsNothing, StartSave PROVE TabInv'
  <1> DEFINE w == ToWrite(next)
             job == [note |-> next.note, text |-> w, wrote |-> w, base |-> tab.saved,
                     shown |-> tab.shown, at |-> "put", reply |-> "ok", theirs |-> None,
                     tries |-> 1, live |-> TRUE]
  <1>1. /\ next # None /\ put = None /\ next' = None
        /\ UNCHANGED <<tab, timer, tick, gate, look, going, made>>
    BY DEF StartSave
  <1>2. /\ next.note = tab.open /\ tab.open \in Note /\ Ours \cap w = Ours \cap next.text /\ Unborn(w)
    BY <1>1, WritesAll DEF TabInv, NextInv, TabTypes
  <1>3. \/ (w = tab.saved \/ w = {}) /\ UNCHANGED <<file, put, plan>>
        \/ Sends(job, tab.etag, w, "put") /\ UNCHANGED plan
        \/ Spend("fails") /\ put' = [job EXCEPT !.reply = "failed"] /\ UNCHANGED file
    BY DEF StartSave
  <1> HIDE DEF w
  <1>4. UNCHANGED <<Ours, tab, timer, look, going, made>> /\ next' = None
    BY <1>1 DEF Ours, TypedIn
  <1>5. CASE (w = tab.saved \/ w = {}) /\ UNCHANGED <<file, put, plan>>
    <2>1. put' = None
      BY <1>1, <1>5
    <2>2. TabTypes' /\ TypedLater' /\ LookInv' /\ AwayInv'
      BY <1>1, <1>5 DEF TabInv, TabTypes, TypedLater, Unborn, LookInv, AwayInv, TypedIn
    <2>3. Ours \cap w \subseteq OnDisk
      BY <1>5 DEF TabInv, ScreenInv
    <2>4. ScreenInv'
      BY <1>2, <1>4, <1>5, <1>1, <2>3 DEF TabInv, ScreenInv, NextInv, OnDisk
    <2>5. TimerInv' /\ NextInv' /\ PutInv'
      BY <1>4, <1>5, <2>1 DEF TabInv, TimerInv, NextInv, PutInv, OnDisk
    <2> QED  BY <2>2, <2>4, <2>5 DEF TabInv
  <1>6. ASSUME NEW text,
               put' = [note |-> next.note, text |-> w, wrote |-> w, base |-> tab.saved,
                       shown |-> tab.shown, at |-> "put", reply |-> text, theirs |-> None,
                       tries |-> 1, live |-> TRUE],
               DOMAIN file' = Note, \A m \in Note : m # tab.open => file'[m] = file[m],
               file'[tab.open] = w \/ file'[tab.open] = file[tab.open],
               text = "ok" => file'[tab.open] = w,
               DOMAIN plan' = DOMAIN plan, plan'.typed = plan.typed,
               plan'.ticked = plan.ticked, plan'.elsewhere = plan.elsewhere
        PROVE  TabInv'
    <2>1. Ours \cap OnDisk \subseteq w /\ Ours \cap OnDisk \subseteq OnDisk'
      BY <1>2, <1>4, <1>1, <1>6 DEF TabInv, NextInv, OnDisk
    <2>2. Ours \cap OnDisk' \subseteq w
      BY <1>1, <1>6, <2>1 DEF OnDisk
    <2>3. TabTypes'
      BY <1>1, <1>6 DEF TabInv, TabTypes
    <2>4. TypedLater'
      BY <1>1, <1>2, <1>6, NoneIsNothing DEF TabInv, TypedLater, Unborn, TabTypes, NoneIsNothing
    <2>5. ScreenInv'
      <3>1. put' # None
        BY <1>6 DEF NoneIsNothing
      <3> QED  BY <1>1, <1>2, <1>4, <2>1, <2>2, <3>1 DEF TabInv, ScreenInv, NextInv
    <2>6. TimerInv' /\ NextInv'
      BY <1>4 DEF TabInv, TimerInv, NextInv
    <2>7. PutInv'
      BY <1>1, <1>2, <1>4, <1>6, <2>1, <2>2 DEF TabInv, PutInv, ScreenInv, NextInv, OnDisk
    <2>8. LookInv' /\ AwayInv'
      BY <1>1, <1>4, <1>6, <2>1 DEF TabInv, LookInv, AwayInv, TypedIn, Ours, OnDisk, TabTypes
    <2> QED  BY <2>3, <2>4, <2>5, <2>6, <2>7, <2>8 DEF TabInv
  <1>7. CASE Sends(job, tab.etag, w, "put") /\ UNCHANGED plan
    <2> DEFINE r == Reply(tab.open, tab.etag)
    <2>1. Put(tab.open, tab.etag, w) /\ put' = [job EXCEPT !.at = "put", !.wrote = w, !.reply = r]
      BY <1>2, <1>7 DEF Sends
    <2> HIDE DEF r
    <2>2. put' = [note |-> next.note, text |-> w, wrote |-> w, base |-> tab.saved,
                  shown |-> tab.shown, at |-> "put", reply |-> r, theirs |-> None,
                  tries |-> 1, live |-> TRUE]
      BY <2>1
    <2>3. /\ DOMAIN file' = Note /\ \A m \in Note : m # tab.open => file'[m] = file[m]
          /\ file'[tab.open] = w \/ file'[tab.open] = file[tab.open]
          /\ r = "ok" => file'[tab.open] = w
      BY <1>2, <2>1, PutWrites DEF TabInv, TabTypes, r
    <2> QED  BY <1>6, <1>7, <2>2, <2>3
  <1>8. CASE Spend("fails") /\ put' = [job EXCEPT !.reply = "failed"] /\ UNCHANGED file
    <2>1. put' = [note |-> next.note, text |-> w, wrote |-> w, base |-> tab.saved,
                  shown |-> tab.shown, at |-> "put", reply |-> "failed", theirs |-> None,
                  tries |-> 1, live |-> TRUE]
      BY <1>8
    <2>2. /\ DOMAIN plan' = DOMAIN plan /\ plan'.typed = plan.typed
          /\ plan'.ticked = plan.ticked /\ plan'.elsewhere = plan.elsewhere
      BY <1>8 DEF Spend, TabInv, TabTypes
    <2>3. DOMAIN file' = Note /\ file' = file
      BY <1>8 DEF TabInv, TabTypes
    <2> QED  BY <1>6, <2>1, <2>2, <2>3
  <1> QED  BY <1>3, <1>5, <1>7, <1>8

\* A look at the file, or an ETag that changes: nothing of a text does.
LEMMA LooksInv ==
  ASSUME TabInv, UNCHANGED <<file, timer, next, put, going, made, plan>>, look' \in {look, Asked, None},
         DOMAIN tab' = DOMAIN tab, tab'.open = tab.open, tab'.ed = tab.ed, tab'.text = tab.text,
         tab'.saved = tab.saved, tab'.shown = tab.shown, tab'.said = tab.said
  PROVE  TabInv'
  <1>1. UNCHANGED <<Ours, OnDisk>>
    BY DEF Ours, TypedIn, OnDisk
  <1>2. TabTypes' /\ ScreenInv' /\ TimerInv' /\ NextInv' /\ PutInv' /\ AwayInv'
    BY <1>1 DEF TabInv, TabTypes, ScreenInv, TimerInv, NextInv, PutInv, AwayInv, TypedIn
  <1>3. Asked.base = tab.saved /\ Asked.got = OnDisk /\ Asked.note = tab.open
    BY DEF Asked, OnDisk
  <1>4. Unborn(Asked.base) /\ Unborn(Asked.got)
    BY <1>3 DEF TabInv, TypedLater, TabTypes, OnDisk
  <1> HIDE DEF Asked
  <1>5. TypedLater'
    BY <1>4 DEF TabInv, TypedLater, Unborn
  <1>6. LookInv'
    BY <1>1, <1>3 DEF TabInv, LookInv, TypedIn, Ours, OnDisk, ScreenInv, TabTypes
  <1> QED  BY <1>2, <1>5, <1>6 DEF TabInv

LEMMA TimerFiresInv == ASSUME TabInv, TimerFires PROVE TabInv'
  <1>1. /\ timer # None /\ next' = timer /\ timer' = None
        /\ UNCHANGED <<file, tab, put, look, going, made, plan>>
    BY DEF TimerFires
  <1>2. UNCHANGED <<Ours, OnDisk>>
    BY <1>1 DEF Ours, TypedIn, OnDisk
  <1>3. TabTypes' /\ TypedLater' /\ LookInv' /\ AwayInv'
    BY <1>1 DEF TabInv, TabTypes, TypedLater, Unborn, LookInv, AwayInv, TypedIn
  <1>4. ScreenInv' /\ TimerInv' /\ NextInv' /\ PutInv'
    BY <1>1, <1>2 DEF TabInv, ScreenInv, TimerInv, NextInv, PutInv
  <1> QED  BY <1>3, <1>4 DEF TabInv

\* The editor is handed a text, or reports one: all of it waits to be saved.
LEMMA ReportsInv == ASSUME TabInv, NoneIsNothing, Reports PROVE TabInv'
  <1> DEFINE j == [note |-> tab.open, text |-> tab.ed, on |-> tab.saved]
  <1>1. /\ tab' = [tab EXCEPT !.ed = tab.ed, !.text = tab.ed, !.said = None] /\ timer' = j
        /\ UNCHANGED <<file, next, put, look, going, made, plan>>
    BY DEF Reports, Changed
  <1>2. timer' # None /\ timer'.note = tab.open /\ timer'.text = tab.ed /\ timer'.on = tab.saved
    BY <1>1 DEF NoneIsNothing
  <1>3. /\ DOMAIN tab' = DOMAIN tab /\ tab'.open = tab.open /\ tab'.ed = tab.ed /\ tab'.text = tab.ed
        /\ tab'.saved = tab.saved /\ tab'.shown = tab.shown
    BY <1>1 DEF TabInv, TabTypes
  <1>4. UNCHANGED <<Ours, OnDisk>>
    BY <1>1, <1>3 DEF Ours, TypedIn, OnDisk
  <1>5. TabTypes' /\ TypedLater' /\ LookInv' /\ AwayInv'
    BY <1>1, <1>2, <1>3 DEF TabInv, TabTypes, TypedLater, Unborn, LookInv, AwayInv, TypedIn
  <1>6. ScreenInv' /\ TimerInv' /\ NextInv' /\ PutInv'
    BY <1>1, <1>2, <1>3, <1>4 DEF TabInv, ScreenInv, TimerInv, NextInv, PutInv
  <1> QED  BY <1>5, <1>6 DEF TabInv

\* A text read from the file, or written to it, that holds all the page took to
\* be saved is merged into the editor.
LEMMA ShowsInv ==
  ASSUME TabInv, NoneIsNothing, NEW theirs, NEW base,
         Shows([tab EXCEPT !.saved = theirs, !.etag = theirs, !.shown = None], base, theirs),
         UNCHANGED <<file, next, going, made, plan>>, put' \in {put, None}, look' \in {look, None},
         Ours \cap base \subseteq theirs, Ours \cap theirs \subseteq OnDisk,
         Ours \cap tab.saved \subseteq theirs, Unborn(theirs)
  PROVE  TabInv'
  <1> DEFINE m == Shared!Merge(base, tab.ed, theirs)
  <1>1. /\ m \subseteq tab.ed \cup theirs
        /\ \A q \in tab.ed : q \notin base \/ q \in theirs => q \in m
    BY MergeKeeps
  <1>2. /\ DOMAIN tab' = DOMAIN tab /\ tab'.open = tab.open /\ tab'.ed = m /\ tab'.text = m
        /\ tab'.saved = theirs /\ tab'.shown = None
        /\ \/ timer' = timer /\ m = theirs
           \/ timer' = [note |-> tab.open, text |-> m, on |-> theirs] /\ timer' # None
    <2> DEFINE t == [tab EXCEPT !.saved = theirs, !.etag = theirs, !.shown = None]
    <2>1. /\ DOMAIN t = DOMAIN tab /\ t.open = tab.open /\ t.ed = tab.ed /\ t.saved = theirs /\ t.shown = None
          /\ DOMAIN t = {"open", "ed", "text", "saved", "etag", "shown", "said"}
      BY DEF TabInv, TabTypes
    <2>2. /\ m = theirs => tab' = [t EXCEPT !.ed = theirs, !.text = theirs] /\ UNCHANGED timer
          /\ m # theirs => Changed(t, m)
      BY <2>1 DEF Shows
    <2> HIDE DEF t, m
    <2>3. CASE m = theirs
      BY <2>1, <2>2, <2>3
    <2>4. CASE m # theirs
      <3>1. /\ tab' = [t EXCEPT !.ed = m, !.text = m, !.said = None]
            /\ timer' = [note |-> t.open, text |-> m, on |-> t.saved]
        BY <2>1, <2>2, <2>4 DEF Changed
      <3>2. timer' # None
        BY <3>1 DEF NoneIsNothing
      <3> QED  BY <2>1, <3>1, <3>2
    <2> QED  BY <2>3, <2>4
  <1> HIDE DEF m
  <1>3. Ours \subseteq m /\ Unborn(m)
    BY <1>1 DEF TabInv, ScreenInv, TypedLater, Unborn
  <1>4. UNCHANGED <<Ours, OnDisk>>
    BY <1>2 DEF Ours, TypedIn, OnDisk
  <1>6. TabTypes' /\ LookInv' /\ AwayInv'
    BY <1>2 DEF TabInv, TabTypes, LookInv, AwayInv, TypedIn
  <1>7. TypedLater'
    <2>1. timer' # None => Unborn(timer'.text) /\ Unborn(timer'.on)
      BY <1>2, <1>3 DEF TabInv, TypedLater
    <2> QED  BY <1>2, <1>3, <2>1 DEF TabInv, TypedLater, Unborn, NoneIsNothing
  <1>8. ScreenInv'
    BY <1>2, <1>3, <1>4 DEF TabInv, ScreenInv, NoneIsNothing
  <1>9. CASE timer' = timer /\ m = theirs
    <2>1. Ours \subseteq OnDisk /\ Ours \subseteq tab.text
      BY <1>3, <1>9 DEF TabInv, ScreenInv
    <2>2. TimerInv' /\ NextInv' /\ PutInv'
      BY <1>2, <1>3, <1>4, <1>9, <2>1 DEF TabInv, TimerInv, NextInv, PutInv
    <2> QED  BY <1>6, <1>7, <1>8, <2>2 DEF TabInv
  <1>10. CASE timer' = [note |-> tab.open, text |-> m, on |-> theirs] /\ timer' # None
    <2>1. timer'.note = tab.open /\ timer'.text = m /\ timer'.on = theirs
      BY <1>10
    <2>2. TimerInv' /\ NextInv' /\ PutInv'
      BY <1>2, <1>3, <1>4, <1>10, <2>1 DEF TabInv, TimerInv, NextInv, PutInv
    <2> QED  BY <1>6, <1>7, <1>8, <2>2 DEF TabInv
  <1> QED  BY <1>2, <1>9, <1>10

-----------------------------------------------------------------------------
(* Answers to a save.                                                      *)

LEMMA SavedInv ==
  ASSUME TabInv, put # None, NEW text, Saved(text), UNCHANGED <<next, look, going, made, plan>>,
         Ours \cap put.text \subseteq text, Ours \cap text \subseteq OnDisk, Unborn(text)
  PROVE  TabInv'
  <1>1. /\ tab' = [tab EXCEPT !.saved = text, !.etag = text] /\ put' = None
        /\ UNCHANGED <<file, timer, next, look, going, made, plan>>
    BY DEF Saved
  <1>2. /\ DOMAIN tab' = DOMAIN tab /\ tab'.open = tab.open /\ tab'.ed = tab.ed /\ tab'.text = tab.text
        /\ tab'.saved = text /\ tab'.shown = tab.shown /\ tab'.said = tab.said
    BY <1>1 DEF TabInv, TabTypes
  <1>3. UNCHANGED <<Ours, OnDisk>>
    BY <1>1, <1>2 DEF Ours, TypedIn, OnDisk
  <1>4. TabTypes' /\ TypedLater' /\ LookInv' /\ AwayInv'
    BY <1>1, <1>2 DEF TabInv, TabTypes, TypedLater, Unborn, LookInv, AwayInv, TypedIn
  <1>5. ScreenInv' /\ TimerInv' /\ NextInv' /\ PutInv'
    BY <1>1, <1>2, <1>3 DEF TabInv, ScreenInv, TimerInv, NextInv, PutInv
  <1> QED  BY <1>4, <1>5 DEF TabInv

LEMMA GaveUpInv ==
  ASSUME TabInv, NoneIsNothing, NEW said \in {"banner", "console"}, GaveUp(said),
         UNCHANGED <<next, look, going, made, plan>>
  PROVE  TabInv'
  <1>1. /\ tab' = [tab EXCEPT !.said = said] /\ put' = None
        /\ UNCHANGED <<file, timer, next, look, going, made, plan>>
    BY DEF GaveUp
  <1>2. /\ DOMAIN tab' = DOMAIN tab /\ tab'.open = tab.open /\ tab'.ed = tab.ed /\ tab'.text = tab.text
        /\ tab'.saved = tab.saved /\ tab'.shown = tab.shown /\ tab'.said # None
    BY <1>1 DEF TabInv, TabTypes, NoneIsNothing
  <1>3. UNCHANGED <<Ours, OnDisk>>
    BY <1>1, <1>2 DEF Ours, TypedIn, OnDisk
  <1>4. TabTypes' /\ TypedLater' /\ LookInv' /\ AwayInv'
    BY <1>1, <1>2 DEF TabInv, TabTypes, TypedLater, Unborn, LookInv, AwayInv, TypedIn
  <1>5. ScreenInv' /\ TimerInv' /\ NextInv' /\ PutInv'
    BY <1>1, <1>2, <1>3 DEF TabInv, ScreenInv, TimerInv, NextInv, PutInv
  <1> QED  BY <1>4, <1>5 DEF TabInv

\* A refused save reads the note: all that the save knew of is in it.
LEMMA AsksInv ==
  ASSUME TabInv, NoneIsNothing, put # None, UNCHANGED <<file, tab, timer, next, look, going, made, plan>>,
         DOMAIN put' = DOMAIN put, put'.note = put.note, put'.text = put.text, put'.wrote = put.wrote,
         put'.base = put.base, put'.shown = put.shown, put'.at = "asked", put'.theirs = file[put.note]
  PROVE  TabInv'
  <1>1. UNCHANGED <<Ours, OnDisk>> /\ put'.theirs = OnDisk
    BY DEF Ours, TypedIn, OnDisk, TabInv, PutInv
  <1>2. put' # None
    BY DEF TabInv, TabTypes, NoneIsNothing
  <1>3. Unborn(put'.theirs)
    BY DEF TabInv, TypedLater, PutInv, TabTypes, Unborn
  <1>4. TabTypes' /\ LookInv' /\ AwayInv'
    BY <1>2 DEF TabInv, TabTypes, LookInv, AwayInv, TypedIn
  <1>5. TypedLater'
    BY <1>2, <1>3 DEF TabInv, TypedLater, Unborn
  <1>6. ScreenInv' /\ TimerInv' /\ NextInv' /\ PutInv'
    BY <1>1, <1>2 DEF TabInv, ScreenInv, TimerInv, NextInv, PutInv
  <1> QED  BY <1>4, <1>5, <1>6 DEF TabInv

\* A save is sent again: as it was, or merged with what it found.
LEMMA SendsInv ==
  ASSUME TabInv, NoneIsNothing, put # None, NEW etag, NEW text, NEW stage \in {"again", "merge"},
         Sends(put, etag, text, stage),
         UNCHANGED <<tab, timer, next, look, going, made, plan>>,
         Ours \cap text = Ours \cap put.text, Unborn(text)
  PROVE  TabInv'
  <1> DEFINE r == Reply(put.note, etag)
  <1>1. Put(put.note, etag, text) /\ put' = [put EXCEPT !.at = stage, !.wrote = text, !.reply = r]
    BY DEF Sends
  <1>2. put.note = tab.open /\ tab.open \in Note /\ DOMAIN file = Note
    BY DEF TabInv, PutInv, TabTypes
  <1>3. /\ DOMAIN file' = Note /\ \A m \in Note : m # tab.open => file'[m] = file[m]
        /\ file'[tab.open] = text \/ file'[tab.open] = file[tab.open]
        /\ r = "ok" => file'[tab.open] = text
    BY <1>1, <1>2, PutWrites DEF r
  <1> HIDE DEF r
  <1>4. /\ DOMAIN put' = DOMAIN put /\ put'.note = put.note /\ put'.text = put.text /\ put'.wrote = text
        /\ put'.base = put.base /\ put'.shown = put.shown /\ put'.at = stage /\ put'.reply = r
        /\ put'.theirs = put.theirs
    BY <1>1 DEF TabInv, TabTypes
  <1>5. put' # None
    BY <1>4 DEF TabInv, TabTypes, NoneIsNothing
  <1>6. UNCHANGED Ours
    BY DEF Ours, TypedIn
  <1>7. Ours \cap OnDisk \subseteq put.text /\ Ours \cap OnDisk \subseteq OnDisk' /\ Ours \cap OnDisk' \subseteq put.text
    BY <1>3 DEF TabInv, PutInv, OnDisk
  <1>8. TabTypes'
    BY <1>3, <1>4 DEF TabInv, TabTypes
  <1>9. TypedLater'
    BY <1>3, <1>4 DEF TabInv, TypedLater, TabTypes, Unborn
  <1>10. ScreenInv'
    BY <1>5, <1>6, <1>7 DEF TabInv, ScreenInv, PutInv
  <1>11. TimerInv' /\ NextInv'
    BY <1>6, <1>7 DEF TabInv, TimerInv, NextInv, PutInv, ScreenInv, OnDisk
  <1>12. PutInv'
    BY <1>2, <1>3, <1>4, <1>6, <1>7 DEF TabInv, PutInv, OnDisk
  <1>13. LookInv' /\ AwayInv'
    BY <1>3, <1>7 DEF TabInv, LookInv, AwayInv, TypedIn, Ours, OnDisk, TabTypes
  <1> QED  BY <1>8, <1>9, <1>10, <1>11, <1>12, <1>13 DEF TabInv

LEMMA PutAnsweredInv == ASSUME TabInv, NoneIsNothing, PutAnswered PROVE TabInv'
  <1>1. /\ put # None /\ put.at \in {"put", "again"} /\ UNCHANGED <<next, look, going, made, plan>>
        /\ DOMAIN put = {"note", "text", "wrote", "base", "shown", "at", "reply", "theirs", "tries", "live"}
    BY DEF PutAnswered, TabInv, TabTypes
  <1>2. \/ put.reply = "ok" /\ Saved(put.wrote)
        \/ Asks
        \/ \E said \in {"banner", "console"} : GaveUp(said)
    BY DEF PutAnswered
  <1>3. CASE put.reply = "ok" /\ Saved(put.wrote)
    <2>1. Ours \cap put.text \subseteq put.wrote /\ Ours \cap put.wrote \subseteq OnDisk /\ Unborn(put.wrote)
      BY <1>1, <1>3 DEF TabInv, PutInv, TypedLater
    <2> QED  BY <1>1, <1>3, <2>1, SavedInv
  <1>4. CASE Asks
    BY <1>1, <1>4, AsksInv DEF Asks
  <1>5. CASE \E said \in {"banner", "console"} : GaveUp(said)
    BY <1>1, <1>5, GaveUpInv
  <1> QED  BY <1>2, <1>3, <1>4, <1>5

LEMMA AskAnsweredInv == ASSUME TabInv, NoneIsNothing, AskAnswered PROVE TabInv'
  <1> DEFINE m == Shared!Merge(put.base, put.text, put.theirs)
  <1>1. put # None /\ put.at = "asked" /\ UNCHANGED <<next, look, going, made, plan>>
    BY DEF AskAnswered
  <1>2. \/ put.theirs = put.text /\ Saved(put.text)
        \/ Sends(put, put.theirs, put.text, "again") /\ UNCHANGED <<tab, timer, gate>>
        \/ Sends(put, put.theirs, m, "merge") /\ UNCHANGED <<tab, timer, gate>>
    BY DEF AskAnswered
  <1>3. /\ Ours \cap put.theirs \subseteq OnDisk /\ Ours \cap put.base \subseteq put.theirs
        /\ Ours \cap OnDisk \subseteq put.text /\ Unborn(put.text) /\ Unborn(put.theirs)
    BY <1>1 DEF TabInv, PutInv, TypedLater
  <1>4. /\ m \subseteq put.text \cup put.theirs
        /\ \A q \in put.text : q \notin put.base \/ q \in put.theirs => q \in m
    BY MergeKeeps
  <1> HIDE DEF m
  <1>5. Ours \cap m = Ours \cap put.text /\ Unborn(m)
    BY <1>3, <1>4 DEF Unborn
  <1>6. CASE put.theirs = put.text /\ Saved(put.text)
    BY <1>1, <1>3, <1>6, SavedInv
  <1>7. CASE Sends(put, put.theirs, put.text, "again") /\ UNCHANGED <<tab, timer, gate>>
    BY <1>1, <1>3, <1>7, SendsInv
  <1>8. CASE Sends(put, put.theirs, m, "merge") /\ UNCHANGED <<tab, timer, gate>>
    BY <1>1, <1>5, <1>8, SendsInv
  <1> QED  BY <1>2, <1>6, <1>7, <1>8

LEMMA MergeAnsweredInv == ASSUME TabInv, NoneIsNothing, MergeAnswered PROVE TabInv'
  <1>1. /\ put # None /\ put.at = "merge" /\ UNCHANGED <<next, look, going, made, plan>>
        /\ put.note = tab.open
        /\ DOMAIN put = {"note", "text", "wrote", "base", "shown", "at", "reply", "theirs", "tries", "live"}
    BY DEF MergeAnswered, TabInv, TabTypes, PutInv
  <1>2. \/ /\ put.reply = "ok"
           /\ Shows([tab EXCEPT !.saved = put.wrote, !.etag = put.wrote, !.shown = None], put.text, put.wrote)
           /\ put' = None /\ UNCHANGED file
        \/ /\ put' = [put EXCEPT !.at = "asked", !.theirs = file[put.note], !.tries = @ + 1]
           /\ UNCHANGED <<file, tab, timer>>
        \/ GaveUp("banner")
    BY <1>1 DEF MergeAnswered
  <1>3. CASE /\ put.reply = "ok"
             /\ Shows([tab EXCEPT !.saved = put.wrote, !.etag = put.wrote, !.shown = None], put.text, put.wrote)
             /\ put' = None /\ UNCHANGED file
    <2>1. /\ Ours \cap put.text \subseteq put.wrote /\ Ours \cap put.wrote \subseteq OnDisk
          /\ Ours \cap tab.saved \subseteq put.wrote /\ Unborn(put.wrote)
      BY <1>1, <1>3 DEF TabInv, PutInv, TypedLater, ScreenInv
    <2> QED  BY <1>1, <1>3, <2>1, ShowsInv
  <1>4. CASE /\ put' = [put EXCEPT !.at = "asked", !.theirs = file[put.note], !.tries = @ + 1]
             /\ UNCHANGED <<file, tab, timer>>
    BY <1>1, <1>4, AsksInv
  <1>5. CASE GaveUp("banner")
    BY <1>1, <1>5, GaveUpInv
  <1> QED  BY <1>2, <1>3, <1>4, <1>5

LEMMA GateInv == ASSUME TabInv, Receive \/ Polls \/ TickAnswered PROVE TabInv'
  <1>1. CASE Receive
    BY <1>1, LooksInv DEF Receive
  <1>2. CASE Polls
    BY <1>2, LooksInv DEF Polls
  <1>3. CASE TickAnswered
    BY <1>3, LooksInv DEF TickAnswered, TabInv, TabTypes
  <1> QED  BY <1>1, <1>2, <1>3

LEMMA LookAnsweredInv == ASSUME TabInv, NoneIsNothing, LookAnswered PROVE TabInv'
  <1>1. look # None /\ look' = None /\ UNCHANGED <<file, next, put, going, made, plan>>
    BY DEF LookAnswered
  <1>2. \/ UNCHANGED <<tab, timer>>
        \/ /\ Current(look)
           /\ Shows([tab EXCEPT !.saved = look.got, !.etag = look.got, !.shown = None], look.base, look.got)
    BY DEF LookAnswered
  <1>3. CASE UNCHANGED <<tab, timer>>
    BY <1>1, <1>3, LooksInv
  <1>4. CASE /\ Current(look)
             /\ Shows([tab EXCEPT !.saved = look.got, !.etag = look.got, !.shown = None], look.base, look.got)
    <2>1. /\ look.note = tab.open /\ look.base = tab.saved
          /\ Ours \cap look.base \subseteq look.got /\ Ours \cap look.got \subseteq OnDisk /\ Unborn(look.got)
      BY <1>1, <1>4 DEF Current, TabInv, LookInv, TypedLater, Ours, OnDisk
    <2> QED  BY <1>1, <1>4, <2>1, ShowsInv
  <1> QED  BY <1>2, <1>3, <1>4

-----------------------------------------------------------------------------
(* What people do.                                                         *)

\* What is typed is in no text yet.
LEMMA PressInv == ASSUME TabInv, NoneIsNothing, ~Hurried, NEW q, Press(q) PROVE TabInv'
  <1>1. /\ q \in plan.typed /\ q[1] = tab.open /\ going = None /\ made' = made \cup {q}
        /\ tab' = [tab EXCEPT !.ed = tab.ed \cup {q}] /\ plan' = [plan EXCEPT !["typed"] = @ \ {q}]
        /\ UNCHANGED <<file, timer, next, put, look, going>>
    BY DEF Press, Take
  <1>2. /\ DOMAIN tab' = DOMAIN tab /\ tab'.open = tab.open /\ tab'.ed = tab.ed \cup {q} /\ tab'.text = tab.text
        /\ tab'.saved = tab.saved /\ tab'.shown = tab.shown /\ tab'.said = tab.said
    BY <1>1 DEF TabInv, TabTypes
  <1>3. /\ DOMAIN plan' = DOMAIN plan /\ plan'.typed = plan.typed \ {q}
        /\ plan'.ticked = plan.ticked /\ plan'.elsewhere = plan.elsewhere
    BY <1>1 DEF TabInv, TabTypes
  <1>4. /\ Ours' = Ours \cup {q} /\ UNCHANGED OnDisk
        /\ \A n : TypedIn(n)' = IF n = tab.open THEN TypedIn(n) \cup {q} ELSE TypedIn(n)
    BY <1>1, <1>2 DEF Ours, TypedIn, OnDisk
  <1>5. /\ q \notin OnDisk /\ q \notin tab.text /\ q \notin tab.saved /\ q \notin tab.shown
        /\ timer # None => q \notin timer.text /\ q \notin timer.on
        /\ next # None => q \notin next.text /\ q \notin next.on
        /\ put # None => /\ q \notin put.text /\ q \notin put.base /\ q \notin put.wrote
                         /\ q \notin put.shown /\ q \notin put.theirs
        /\ look # None => q \notin look.base /\ q \notin look.got
    BY <1>1 DEF TabInv, TypedLater, Unborn, OnDisk, TabTypes
  <1>6. TabTypes'
    BY <1>1, <1>2, <1>3 DEF TabInv, TabTypes
  <1>7. TypedLater'
    BY <1>1, <1>2, <1>3 DEF TabInv, TypedLater, Unborn
  <1>8. ScreenInv' /\ TimerInv'
    BY <1>1, <1>2, <1>4, <1>5 DEF TabInv, ScreenInv, TimerInv
  <1>9. NextInv' /\ PutInv'
    BY <1>1, <1>2, <1>4, <1>5 DEF TabInv, NextInv, PutInv
  <1>10. LookInv' /\ AwayInv'
    BY <1>1, <1>2, <1>4, <1>5 DEF TabInv, LookInv, AwayInv
  <1> QED  BY <1>6, <1>7, <1>8, <1>9, <1>10 DEF TabInv

\* Somebody writes, or shows, a piece that nobody typed here.
LEMMA ElsewhereInv == ASSUME TabInv, NEW q, ElsewhereWrites(q) PROVE TabInv'
  <1>1. /\ q \in plan.elsewhere /\ file' = [file EXCEPT ![q[1]] = @ \cup {q}]
        /\ plan' = [plan EXCEPT !["elsewhere"] = @ \ {q}]
        /\ UNCHANGED <<tab, timer, next, put, look, going, made>>
    BY DEF ElsewhereWrites, Take
  <1>2. /\ DOMAIN plan' = DOMAIN plan /\ plan'.typed = plan.typed
        /\ plan'.ticked = plan.ticked /\ plan'.elsewhere \subseteq plan.elsewhere
    BY <1>1 DEF TabInv, TabTypes
  <1>3. /\ DOMAIN file' = Note /\ q \notin made /\ q \notin plan.typed
        /\ \A n \in Note : file[n] \subseteq file'[n] /\ file'[n] \subseteq file[n] \cup {q}
    BY <1>1 DEF TabInv, TabTypes, TypedLater
  <1>4. UNCHANGED Ours /\ Ours \cap OnDisk' = Ours \cap OnDisk /\ \A n : TypedIn(n)' = TypedIn(n) /\ q \notin TypedIn(n)
    BY <1>1, <1>3 DEF Ours, TypedIn, OnDisk, TabInv, TabTypes
  <1>5. TabTypes'
    BY <1>1, <1>2, <1>3 DEF TabInv, TabTypes
  <1>6. TypedLater'
    BY <1>1, <1>2, <1>3 DEF TabInv, TypedLater, Unborn
  <1>7. ScreenInv' /\ TimerInv' /\ NextInv' /\ PutInv'
    BY <1>1, <1>4 DEF TabInv, ScreenInv, TimerInv, NextInv, PutInv
  <1>8. LookInv' /\ AwayInv'
    BY <1>1, <1>3, <1>4 DEF TabInv, LookInv, AwayInv
  <1> QED  BY <1>5, <1>6, <1>7, <1>8 DEF TabInv

LEMMA PeerShownInv == ASSUME TabInv, ~Hurried, NEW q, PeerShown(q) PROVE TabInv'
  <1> DEFINE theirs == OnDisk \cup {q}
  <1>1. /\ q \in plan.elsewhere /\ timer = None /\ tab.ed = tab.text
        /\ tab.text = tab.saved \/ tab.text = tab.shown
        /\ plan' = [plan EXCEPT !["peers"] = @ - 1]
        /\ tab' = [tab EXCEPT !.ed = theirs, !.text = theirs, !.shown = theirs]
        /\ UNCHANGED <<file, timer, next, put, look, going, made>>
    BY DEF PeerShown, Spend, LocalEdits, OnDisk
  <1> HIDE DEF theirs
  <1>2. /\ DOMAIN plan' = DOMAIN plan /\ plan'.typed = plan.typed
        /\ plan'.ticked = plan.ticked /\ plan'.elsewhere = plan.elsewhere
    BY <1>1 DEF TabInv, TabTypes
  <1>3. /\ DOMAIN tab' = DOMAIN tab /\ tab'.open = tab.open /\ tab'.ed = theirs /\ tab'.text = theirs
        /\ tab'.saved = tab.saved /\ tab'.shown = theirs /\ tab'.said = tab.said
    BY <1>1 DEF TabInv, TabTypes
  <1>4. UNCHANGED <<Ours, OnDisk>> /\ q \notin Ours
    BY <1>1, <1>3 DEF Ours, TypedIn, OnDisk, TabInv, TypedLater
  <1>5. Ours \subseteq tab.text /\ Ours \subseteq OnDisk /\ Ours \cap theirs = Ours /\ Unborn(theirs)
    BY <1>1, <1>4 DEF TabInv, ScreenInv, theirs, TypedLater, OnDisk, Unborn, TabTypes
  <1>6. TabTypes' /\ LookInv' /\ AwayInv'
    BY <1>1, <1>2, <1>3 DEF TabInv, TabTypes, LookInv, AwayInv, TypedIn
  <1>7. TypedLater'
    BY <1>1, <1>2, <1>3, <1>5 DEF TabInv, TypedLater, Unborn
  <1>8. ScreenInv' /\ TimerInv' /\ NextInv' /\ PutInv'
    BY <1>1, <1>3, <1>4, <1>5 DEF TabInv, ScreenInv, TimerInv, NextInv, PutInv
  <1> QED  BY <1>6, <1>7, <1>8 DEF TabInv

\* A checkbox, with no save that runs or waits for one.
LEMMA TicksInv ==
  ASSUME TabInv, NoneIsNothing, ~Hurried, NEW q, Ticks(q), next = None
  PROVE  TabInv'
  <1> DEFINE new == tab.text \cup {q}
  <1>1. /\ q \in plan.ticked /\ going = None /\ put = None /\ tab.ed = tab.text
        /\ plan' = [plan EXCEPT !["ticked"] = @ \ {q}]
        /\ tab' = [tab EXCEPT !.ed = new, !.text = new, !.saved = new]
        /\ Put(tab.open, None, new)
        /\ UNCHANGED <<timer, next, put, look, going, made>>
    BY DEF Ticks, Take
  <1> HIDE DEF new
  <1>2. /\ DOMAIN plan' = DOMAIN plan /\ plan'.typed = plan.typed
        /\ plan'.ticked \subseteq plan.ticked /\ plan'.elsewhere = plan.elsewhere
    BY <1>1 DEF TabInv, TabTypes
  <1>3. /\ DOMAIN tab' = DOMAIN tab /\ tab'.open = tab.open /\ tab'.ed = new /\ tab'.text = new
        /\ tab'.saved = new /\ tab'.shown = tab.shown /\ tab'.said = tab.said
    BY <1>1 DEF TabInv, TabTypes
  <1>4. DOMAIN file' = Note /\ (\A m \in Note : m # tab.open => file'[m] = file[m]) /\ file'[tab.open] = new
    BY <1>1, PutWrites DEF TabInv, TabTypes
  <1>5. UNCHANGED Ours /\ OnDisk' = new /\ q \notin Ours /\ q \notin plan.typed
    BY <1>1, <1>3, <1>4 DEF Ours, TypedIn, OnDisk, TabInv, TypedLater
  <1>6. Ours \subseteq new /\ Ours \cap new \subseteq tab.text /\ Unborn(new)
    BY <1>1, <1>5 DEF TabInv, ScreenInv, TypedLater, Unborn, new
  <1>7. TabTypes'
    BY <1>1, <1>2, <1>3, <1>4 DEF TabInv, TabTypes
  <1>8. TypedLater'
    BY <1>1, <1>2, <1>3, <1>4, <1>6 DEF TabInv, TypedLater, Unborn, TabTypes
  <1>9. ScreenInv' /\ TimerInv' /\ NextInv' /\ PutInv'
    BY <1>1, <1>3, <1>5, <1>6 DEF TabInv, ScreenInv, TimerInv, NextInv, PutInv
  <1>10. LookInv' /\ AwayInv'
    BY <1>1, <1>3, <1>4, <1>5, <1>6 DEF TabInv, TabTypes, LookInv, AwayInv, TypedIn, Ours, OnDisk
  <1> QED  BY <1>7, <1>8, <1>9, <1>10 DEF TabInv

-----------------------------------------------------------------------------
(* Opening another note.                                                   *)

LEMMA OpenInv == ASSUME TabInv, NoneIsNothing, NEW n \in Note, Open(n) PROVE TabInv'
  <1> DEFINE edit == [note |-> tab.open, text |-> tab.ed, on |-> tab.saved]
             job == IF tab.ed # tab.text THEN edit ELSE timer
  <1>1. /\ plan' = [plan EXCEPT !["opens"] = @ - 1] /\ n # tab.open /\ going = None
        /\ going' = [to |-> n, waits |-> job # None, got |-> None]
        /\ next' = (IF job = None THEN next ELSE job)
        /\ tab' = [tab EXCEPT !.text = tab.ed] /\ timer' = None
        /\ UNCHANGED <<file, put, look, made>>
    BY DEF Open, Spend
  <1>2. /\ DOMAIN plan' = DOMAIN plan /\ plan'.typed = plan.typed
        /\ plan'.ticked = plan.ticked /\ plan'.elsewhere = plan.elsewhere
    BY <1>1 DEF TabInv, TabTypes
  <1>3. /\ DOMAIN tab' = DOMAIN tab /\ tab'.open = tab.open /\ tab'.ed = tab.ed /\ tab'.text = tab.ed
        /\ tab'.saved = tab.saved /\ tab'.shown = tab.shown /\ tab'.said = tab.said
    BY <1>1 DEF TabInv, TabTypes
  <1>4. /\ job # None => /\ job.note = tab.open /\ Ours \subseteq job.text
                         /\ Ours \cap job.on \subseteq tab.saved /\ Unborn(job.text) /\ Unborn(job.on)
        /\ job = None => tab.ed = tab.text /\ timer = None
    BY DEF TabInv, TimerInv, ScreenInv, TypedLater, NoneIsNothing
  <1> HIDE DEF job
  <1>5. UNCHANGED <<Ours, OnDisk>>
    BY <1>1, <1>3 DEF Ours, TypedIn, OnDisk
  <1>6. going'.got = None /\ going'.to = n /\ DOMAIN going' = {"to", "waits", "got"}
    BY <1>1
  <1>7. TabTypes' /\ LookInv' /\ AwayInv'
    BY <1>1, <1>2, <1>3, <1>6 DEF TabInv, TabTypes, LookInv, AwayInv, TypedIn
  <1>8. TypedLater'
    BY <1>1, <1>2, <1>3, <1>4, <1>6, NoneIsNothing DEF TabInv, TypedLater, Unborn, NoneIsNothing
  <1>9. ScreenInv'
    BY <1>1, <1>3, <1>4, <1>5, <1>6 DEF TabInv, ScreenInv
  <1>10. TimerInv' /\ NextInv'
    BY <1>1, <1>3, <1>4, <1>5 DEF TabInv, ScreenInv, NextInv, TimerInv, PutInv
  <1>11. PutInv'
    BY <1>1, <1>3, <1>4, <1>5 DEF TabInv, ScreenInv, NextInv, PutInv
  <1> QED  BY <1>7, <1>8, <1>9, <1>10, <1>11 DEF TabInv

LEMMA FetchesInv == ASSUME TabInv, Fetches PROVE TabInv'
  <1>1. /\ going # None /\ going' = [going EXCEPT !.got = file[going.to]]
        /\ UNCHANGED <<file, tab, timer, next, put, look, made, plan>>
    BY DEF Fetches
  <1>2. going'.to = going.to /\ going'.got = file[going.to] /\ DOMAIN going' = DOMAIN going /\ going.to \in Note
    BY <1>1 DEF TabInv, TabTypes, ScreenInv
  <1>3. UNCHANGED <<Ours, OnDisk>>
    BY <1>1 DEF Ours, TypedIn, OnDisk
  <1>4. TabTypes' /\ TypedLater' /\ LookInv'
    BY <1>1, <1>2 DEF TabInv, TabTypes, TypedLater, Unborn, LookInv, TypedIn
  <1>5. ScreenInv' /\ TimerInv' /\ NextInv' /\ PutInv'
    BY <1>1, <1>2, <1>3 DEF TabInv, ScreenInv, TimerInv, NextInv, PutInv
  <1>6. AwayInv'
    BY <1>1, <1>2 DEF TabInv, ScreenInv, AwayInv, TypedIn
  <1> QED  BY <1>4, <1>5, <1>6 DEF TabInv

\* The note comes up with all that was typed in it, and the other is saved.
LEMMA OpensInv == ASSUME TabInv, NoneIsNothing, ~Hurried, Opens PROVE TabInv'
  <1> SUFFICES ASSUME NEW left, left = tab.open PROVE TabInv'
    OBVIOUS
  <1> DEFINE got == going.got
  <1>1. /\ going # None /\ got # None /\ timer = None /\ next = None /\ put = None
        /\ tab' = [open |-> going.to, ed |-> got, text |-> got, saved |-> got,
                   etag |-> got, shown |-> None, said |-> None]
        /\ going' = None /\ put' = None /\ made' = StillMeant(tab.open)
        /\ UNCHANGED <<file, timer, next, look, plan>>
    BY DEF Opens
  <1> HIDE DEF got
  <1>2. /\ DOMAIN tab' = DOMAIN tab /\ tab'.open = going.to /\ tab'.ed = got /\ tab'.text = got
        /\ tab'.saved = got /\ tab'.shown = None /\ tab'.said = None
    BY <1>1 DEF TabInv, TabTypes
  <1>3. going.to \in Note /\ going.to # tab.open /\ tab.ed = tab.text /\ tab.open \in Note
    BY <1>1 DEF TabInv, ScreenInv, TabTypes
  <1>4. /\ made' \subseteq made
        /\ \A n : n # left => TypedIn(n)' = TypedIn(n)
        /\ TypedIn(left)' \subseteq Ours
        /\ tab.said # None => TypedIn(left)' \subseteq file[left]
    BY <1>1 DEF StillMeant, TypedIn, Ours, OnDisk
  <1>5. Ours' = TypedIn(going.to) /\ OnDisk' = file[going.to]
    BY <1>1, <1>2, <1>3, <1>4 DEF Ours, OnDisk
  <1>6. Ours' \subseteq got /\ Ours' \subseteq OnDisk'
    BY <1>1, <1>3, <1>5 DEF TabInv, AwayInv, got
  <1>7. TypedIn(left)' \subseteq file[left]
    BY <1>1, <1>3, <1>4 DEF TabInv, ScreenInv, OnDisk
  <1>8. TabTypes'
    BY <1>1, <1>2, <1>3, <1>4 DEF TabInv, TabTypes
  <1>9. TypedLater'
    BY <1>1, <1>2, <1>4 DEF TabInv, TypedLater, Unborn, NoneIsNothing, got
  <1>10. ScreenInv' /\ TimerInv' /\ NextInv' /\ PutInv'
    BY <1>1, <1>2, <1>6 DEF ScreenInv, TimerInv, NextInv, PutInv, NoneIsNothing
  <1>11. LookInv'
    <2>1. \A n : TypedIn(n)' \subseteq TypedIn(n)
      BY <1>4 DEF TypedIn
    <2> QED  BY <1>1, <2>1 DEF TabInv, LookInv
  <1>12. AwayInv'
    BY <1>1, <1>2, <1>3, <1>4, <1>7 DEF TabInv, AwayInv
  <1> QED  BY <1>8, <1>9, <1>10, <1>11, <1>12 DEF TabInv

-----------------------------------------------------------------------------
LEMMA TabInvInit == ASSUME Init, NoneIsNothing, view = "note" PROVE TabInv
  <1>1. /\ file = [n \in Note |-> First(n)]
        /\ tab = [open |-> Home, ed |-> First(Home), text |-> First(Home), saved |-> First(Home),
                  etag |-> First(Home), shown |-> None, said |-> None]
        /\ timer = None /\ next = None /\ put = None /\ look = None /\ going = None /\ made = {}
    BY DEF Init, NoteInit
  <1>2. /\ DOMAIN plan = {"typed", "ticked", "elsewhere", "opens", "fails", "peers"}
        /\ plan.typed \cap (plan.ticked \cup plan.elsewhere) = {} /\ plan.ticked \cap plan.elsewhere = {}
        /\ \A n \in Note : Unborn(First(n))
    BY PlansAssumption DEF Init, Unborn
  <1>3. Home \in Note
    BY NoteAssumption
  <1>4. TabTypes /\ TypedLater
    BY <1>1, <1>2, <1>3 DEF TabTypes, TypedLater, Unborn, NoneIsNothing
  <1>5. ScreenInv /\ TimerInv /\ NextInv /\ PutInv /\ LookInv /\ AwayInv
    BY <1>1, <1>3 DEF ScreenInv, TimerInv, NextInv, PutInv, LookInv, AwayInv, Ours, TypedIn, OnDisk
  <1> QED  BY <1>4, <1>5 DEF TabInv

LEMMA TabInvStep == ASSUME TabInv, NoneIsNothing, ~Hurried, NoteNext PROVE TabInv'
  <1>1. CASE StartSave
    BY <1>1, StartSaveInv
  <1>2. CASE Works /\ next = None
    BY <1>2, ReportsInv, TimerFiresInv, PutAnsweredInv, AskAnsweredInv, MergeAnsweredInv, GateInv,
       LookAnsweredInv, FetchesInv, OpensInv DEF Works
  <1>3. CASE Works /\ put # None
    BY <1>3, ReportsInv, TimerFiresInv, PutAnsweredInv, AskAnsweredInv, MergeAnsweredInv, GateInv,
       LookAnsweredInv, FetchesInv, OpensInv DEF Works
  <1>4. CASE Polls
    BY <1>4, GateInv
  <1>5. CASE Acts /\ (next = None \/ put # None)
    <2>1. ASSUME NEW q, Ticks(q) PROVE TabInv'
      <3>1. next = None
        BY <1>5, <2>1 DEF Ticks
      <3> QED  BY <2>1, <3>1, TicksInv
    <2> QED  BY <1>5, <2>1, PressInv, ElsewhereInv, PeerShownInv, OpenInv DEF Acts
  <1> QED  BY <1>1, <1>2, <1>3, <1>4, <1>5 DEF NoteNext, Idle

LEMMA TabInvKept == ASSUME TabInv, UNCHANGED <<noteVars, plan>> PROVE TabInv'
  <1>1. UNCHANGED <<Ours, OnDisk>> /\ \A n : TypedIn(n)' = TypedIn(n)
    BY DEF noteVars, Ours, TypedIn, OnDisk
  <1>2. TabTypes' /\ TypedLater'
    BY DEF noteVars, TabInv, TabTypes, TypedLater, Unborn
  <1>3. ScreenInv' /\ TimerInv' /\ NextInv' /\ PutInv' /\ LookInv' /\ AwayInv'
    BY <1>1 DEF noteVars, TabInv, ScreenInv, TimerInv, NextInv, PutInv, LookInv, AwayInv
  <1> QED  BY <1>2, <1>3 DEF TabInv

\* No typed piece is lost by a save that runs, waits, is refused or merged, by
\* a poll or broadcast, or by opening another note, while nothing is done in
\* the moments Hurried names: a piece is in its file, on screen, or in a save
\* that will write it, until its note is left after a save that did not land.
THEOREM TabKeepsEdits ==
  ASSUME ~Hurried, NoneIsNothing
  PROVE  Spec => []EditsKept
  <1> DEFINE Inv == IF view = "note" THEN TabInv ELSE made = {}
  <1>1. Init => Inv
    BY TabInvInit DEF Init, NoteInit
  <1>2. Inv /\ [Next]_vars => Inv'
    <2> SUFFICES ASSUME Inv, [Next]_vars PROVE Inv'
      OBVIOUS
    <2>1. CASE view = "note" /\ view' = "note" /\ NoteNext
      BY <2>1, TabInvStep
    <2>2. CASE UNCHANGED noteVars /\ (UNCHANGED plan \/ view # "note") /\ view' = view
      BY <2>2, TabInvKept DEF noteVars
    <2> QED  BY <2>1, <2>2, NoteSteps
  <1>3. Inv => EditsKept
    <2> SUFFICES ASSUME TabInv, NEW q \in made
                 PROVE  q \in file[q[1]] \/ (tab.open = q[1] /\ q \in tab.ed)
      BY DEF EditsKept
    <2>1. q[1] \in Note /\ q \in TypedIn(q[1])
      BY DEF TabInv, TabTypes, TypedIn
    <2>2. CASE tab.open = q[1]
      BY <2>1, <2>2 DEF TabInv, ScreenInv, Ours
    <2>3. CASE tab.open # q[1]
      BY <2>1, <2>3 DEF TabInv, AwayInv
    <2> QED  BY <2>2, <2>3
  <1> QED  BY <1>1, <1>2, <1>3, PTL DEF Spec

-----------------------------------------------------------------------------
(* The open note: no save but a checkbox's takes anything out of a file.   *)

Of(n, text)     == \A q \in text : q[1] = n
Unticked(text)  == text \cap plan.ticked = {}

\* Piece q of note n is in its file, and whatever the tab will take for its text has it.
Known(n, q) ==
  /\ q \in file[n]
  /\ tab.open = n => q \in tab.saved
  /\ going # None /\ going.got # None /\ going.to = n => q \in going.got
  /\ put # None /\ put.note = n => q \in put.base

FilesGrow ==
  \A n \in Note : First(n) \subseteq file[n] /\ Of(n, file[n]) /\ Unticked(file[n])

\* What the tab takes to be saved is in the file, and on screen; its ETag is of such
\* a text, or of one that this note never has.
ScreenGrow ==
  /\ First(tab.open) \subseteq tab.saved /\ tab.saved \subseteq OnDisk
  /\ tab.saved \subseteq tab.text /\ tab.text \subseteq tab.ed
  /\ Of(tab.open, tab.ed) /\ Unticked(tab.ed)
  /\ tab.shown # None => tab.shown \subseteq tab.text
  /\ tab.etag # {}
  /\ tab.etag \subseteq tab.saved \/ \E q \in tab.etag : q[1] # tab.open

\* An edit that waits holds what it was made on and the peer's text it was made under.
JobGrow(job) ==
  job # None =>
    /\ job.on \subseteq job.text /\ job.text \subseteq tab.text
    /\ tab.shown # None => tab.shown \subseteq job.text /\ job.on \cap tab.shown \subseteq tab.saved

PutGrow ==
  put # None =>
    /\ First(tab.open) \subseteq put.base
    /\ put.base \subseteq OnDisk /\ put.base \subseteq put.text /\ put.text \subseteq tab.text
    /\ put.text \subseteq put.wrote /\ Of(tab.open, put.wrote) /\ Unticked(put.wrote)
    /\ put.shown # None => put.shown \subseteq put.text
    /\ tab.shown # None => tab.shown \subseteq put.text
    /\ put.at \in {"put", "again"} => put.wrote = put.text
    /\ put.at = "asked" => put.base \subseteq put.theirs /\ put.theirs \subseteq OnDisk
    /\ put.at # "asked" /\ put.reply = "ok" => put.wrote \subseteq OnDisk

TickGrow == tick # None => tick.text # {} /\ \A q \in tick.text : q[1] \in Note /\ Known(q[1], q)

\* What a look read is in the file still, or the look is of no use any more.
LookGrow ==
  look # None =>
    /\ look.base \subseteq look.got /\ Of(look.note, look.got) /\ Unticked(look.got)
    /\ \/ look.got \subseteq file[look.note]
       \/ \E q \in file[look.note] : q \notin look.base /\ Known(look.note, q)

GoingGrow ==
  going # None /\ going.got # None =>
    First(going.to) \subseteq going.got /\ going.got \subseteq file[going.to]

GrowInv ==
  /\ FilesGrow /\ ScreenGrow /\ JobGrow(timer) /\ JobGrow(next) /\ PutGrow
  /\ TickGrow /\ LookGrow /\ GoingGrow

FileGrows  == \A n \in Note : file[n] \subseteq file'[n]
TickLands  == \E q \in plan.ticked : Ticks(q)
KnownStays == \A n \in Note : \A q : Known(n, q) => Known(n, q)'

-----------------------------------------------------------------------------
(* What a step leaves of it.                                               *)

LEMMA Remembers ==
  ASSUME TabInv, FileGrows, tab'.open = tab.open, UNCHANGED going,
         tab.saved \subseteq tab'.saved \/ (put # None /\ put.base \subseteq tab'.saved),
         put' # None => put'.base = tab.saved \/ (put # None /\ put'.base = put.base),
         put' # None => put'.note = tab.open
  PROVE  KnownStays
  <1>1. put # None => put.note = tab.open
    BY DEF TabInv, PutInv
  <1> QED  BY <1>1 DEF KnownStays, Known, FileGrows

LEMMA RestGrows ==
  ASSUME TabInv, GrowInv, FileGrows, KnownStays, UNCHANGED <<tick, look, going>>,
         plan'.ticked \subseteq plan.ticked
  PROVE  TickGrow' /\ LookGrow' /\ GoingGrow'
  <1>1. TickGrow'
    BY DEF GrowInv, TickGrow, KnownStays
  <1>2. LookGrow'
    <2>1. look # None => look.note \in Note
      BY DEF TabInv, LookInv
    <2> QED  BY <2>1 DEF GrowInv, LookGrow, KnownStays, FileGrows, Unticked
  <1>3. GoingGrow'
    BY DEF GrowInv, GoingGrow, FileGrows, TabInv, ScreenInv
  <1> QED  BY <1>1, <1>2, <1>3

\* The screen, the jobs and the files stay as they are; of the rest the save may end.
LEMMA SameGrows ==
  ASSUME TabInv, GrowInv, UNCHANGED <<file, timer, next, tick, look, going>>, plan'.ticked \subseteq plan.ticked,
         put' \in {put, None},
         tab'.open = tab.open, tab'.ed = tab.ed, tab'.text = tab.text,
         tab'.saved = tab.saved, tab'.shown = tab.shown, tab'.etag = tab.etag
  PROVE  GrowInv'
  <1>1. FileGrows /\ KnownStays /\ UNCHANGED OnDisk
    <2>1. FileGrows
      BY DEF FileGrows
    <2>2. put' # None => put' = put /\ put.note = tab.open
      BY DEF TabInv, PutInv
    <2>3. KnownStays
      BY <2>1, <2>2, Remembers
    <2> QED  BY <2>1, <2>3 DEF OnDisk
  <1>2. TickGrow' /\ LookGrow' /\ GoingGrow'
    BY <1>1, RestGrows
  <1>3. FilesGrow' /\ ScreenGrow' /\ JobGrow(timer)' /\ JobGrow(next)' /\ PutGrow'
    BY <1>1 DEF GrowInv, FilesGrow, ScreenGrow, JobGrow, PutGrow, Unticked, Of
  <1> QED  BY <1>2, <1>3 DEF GrowInv

-----------------------------------------------------------------------------
(* Writing.                                                                *)

\* A PUT on an ETag that the text has all of, or that is no text of this note, only adds.
LEMMA PutGrows ==
  ASSUME TabInv, GrowInv, NoneIsNothing, NEW etag, NEW text, Put(tab.open, etag, text),
         etag # {}, etag \subseteq text \/ \E q \in etag : q[1] # tab.open
  PROVE  /\ FileGrows /\ \A m \in Note : m # tab.open => file'[m] = file[m]
         /\ file'[tab.open] \in {file[tab.open], text}
         /\ Reply(tab.open, etag) = "ok" => file'[tab.open] = text
  <1>1. /\ tab.open \in Note /\ DOMAIN file = Note /\ Of(tab.open, file[tab.open])
    BY DEF TabInv, TabTypes, GrowInv, FilesGrow
  <1>2. /\ \A m \in Note : m # tab.open => file'[m] = file[m]
        /\ file'[tab.open] = text \/ file'[tab.open] = file[tab.open]
        /\ Reply(tab.open, etag) = "ok" => file'[tab.open] = text
    BY <1>1, PutWrites
  <1>3. etag # None
    BY DEF NoneIsNothing
  <1>4. etag = file[tab.open] => etag \subseteq text
    BY <1>1 DEF Of
  <1>5. file[tab.open] \subseteq file'[tab.open]
    BY <1>1, <1>2, <1>3, <1>4 DEF Put
  <1> QED  BY <1>2, <1>5 DEF FileGrows

LEMMA WriteGrows ==
  ASSUME TabInv, GrowInv, next # None
  PROVE  /\ tab.saved \subseteq ToWrite(next) /\ ToWrite(next) \subseteq tab.text
         /\ tab.shown # None => tab.shown \subseteq ToWrite(next)
  <1> DEFINE m == Shared!Merge(next.on, next.text, tab.saved)
  <1>1. /\ next.on \subseteq next.text /\ next.text \subseteq tab.text /\ tab.saved \subseteq tab.text
        /\ tab.shown # None => tab.shown \subseteq next.text /\ next.on \cap tab.shown \subseteq tab.saved
    BY DEF GrowInv, JobGrow, ScreenGrow
  <1>2. /\ m \subseteq next.text \cup tab.saved
        /\ \A q \in next.text : q \notin next.on \/ q \in tab.saved => q \in m
        /\ \A q \in tab.saved : q \notin next.on \/ q \in next.text => q \in m
    BY MergeKeeps
  <1> HIDE DEF m
  <1>3. /\ tab.saved \subseteq m /\ m \subseteq tab.text
        /\ tab.shown # None => tab.shown \subseteq m
    BY <1>1, <1>2
  <1>6. next.note = tab.open
    BY DEF TabInv, NextInv
  <1>4. CASE next.on # tab.saved
    BY <1>3, <1>4, <1>6 DEF ToWrite, m
  <1>5. CASE next.on = tab.saved
    BY <1>1, <1>5 DEF ToWrite
  <1> QED  BY <1>4, <1>5

-----------------------------------------------------------------------------
(* Saves.                                                                  *)

\* A save that is sent, with what it knows of the note.
LEMMA SendGrows ==
  ASSUME TabInv, GrowInv, FileGrows,
         \A m \in Note : m # tab.open => file'[m] = file[m],
         UNCHANGED <<tab, timer, tick, look, going>>, plan'.ticked \subseteq plan.ticked,
         next' \in {next, None}, NEW text, NEW whole, NEW base,
         file'[tab.open] \in {file[tab.open], whole},
         put'.note = tab.open, put'.text = text, put'.wrote = whole, put'.base = base,
         First(tab.open) \subseteq base, base \subseteq OnDisk, base \subseteq text, text \subseteq tab.text,
         text \subseteq whole, Of(tab.open, whole), Unticked(whole),
         put'.shown # None => put'.shown \subseteq text,
         tab.shown # None => tab.shown \subseteq text,
         put'.at \in {"put", "again"} => whole = text, put'.at # "asked",
         put'.reply = "ok" => file'[tab.open] = whole,
         base = tab.saved \/ (put # None /\ base = put.base)
  PROVE  GrowInv'
  <1>1. tab.open \in Note
    BY DEF TabInv, TabTypes
  <1>2. put # None => put.note = tab.open
    BY DEF TabInv, PutInv
  <1>3. KnownStays
    BY <1>2, Remembers
  <1>4. TickGrow' /\ LookGrow' /\ GoingGrow'
    BY <1>3, RestGrows
  <1>5. OnDisk \subseteq OnDisk' /\ OnDisk' = file'[tab.open]
    BY <1>1 DEF OnDisk, FileGrows
  <1>6. FilesGrow'
    <2> SUFFICES ASSUME NEW n \in Note
                 PROVE  First(n) \subseteq file'[n] /\ Of(n, file'[n]) /\ file'[n] \cap plan'.ticked = {}
      BY DEF FilesGrow, Unticked, Of, First
    <2>1. First(n) \subseteq file[n] /\ Of(n, file[n]) /\ Unticked(file[n]) /\ file[n] \subseteq file'[n]
      BY DEF GrowInv, FilesGrow, FileGrows
    <2>2. CASE file'[n] = file[n]
      BY <2>1, <2>2 DEF Unticked
    <2>3. CASE n = tab.open /\ file'[n] = whole
      BY <2>1, <2>3 DEF Unticked
    <2> QED  BY <2>2, <2>3
  <1>7. ScreenGrow'
    BY <1>5 DEF GrowInv, ScreenGrow, Unticked, Of
  <1>8. JobGrow(timer)' /\ JobGrow(next)'
    BY DEF GrowInv, JobGrow
  <1>9. PutGrow'
    BY <1>5 DEF PutGrow, Unticked, Of
  <1> QED  BY <1>4, <1>6, <1>7, <1>8, <1>9 DEF GrowInv

LEMMA StartSaveGrows == ASSUME TabInv, NoneIsNothing, GrowInv, StartSave PROVE GrowInv' /\ FileGrows
  <1> DEFINE w == ToWrite(next)
             job == [note |-> next.note, text |-> w, wrote |-> w, base |-> tab.saved,
                     shown |-> tab.shown, at |-> "put", reply |-> "ok", theirs |-> None,
                     tries |-> 1, live |-> TRUE]
  <1>1. /\ next # None /\ put = None /\ next' = None
        /\ UNCHANGED <<tab, timer, tick, look, going>>
    BY DEF StartSave
  <1>2. /\ tab.saved \subseteq w /\ w \subseteq tab.text
        /\ tab.shown # None => tab.shown \subseteq w
    BY <1>1, WriteGrows
  <1>3. next.note = tab.open /\ tab.open \in Note
    BY <1>1 DEF TabInv, NextInv, TabTypes
  <1>4. \/ UNCHANGED <<file, put, plan>>
        \/ Sends(job, tab.etag, w, "put") /\ UNCHANGED plan
        \/ Spend("fails") /\ put' = [job EXCEPT !.reply = "failed"] /\ UNCHANGED file
    BY DEF StartSave
  <1>5. /\ First(tab.open) \subseteq tab.saved /\ tab.saved \subseteq OnDisk /\ tab.saved \subseteq tab.text
        /\ Of(tab.open, w) /\ Unticked(w) /\ tab.etag # {}
        /\ tab.etag \subseteq w \/ \E q \in tab.etag : q[1] # tab.open
    BY <1>2 DEF GrowInv, ScreenGrow, Of, Unticked
  <1> HIDE DEF w
  <1>6. CASE UNCHANGED <<file, put, plan>>
    <2>1. FilesGrow' /\ ScreenGrow' /\ JobGrow(timer)' /\ JobGrow(next)' /\ PutGrow'
      BY <1>1, <1>6 DEF GrowInv, FilesGrow, ScreenGrow, JobGrow, PutGrow, Of, Unticked, OnDisk
    <2>2. FileGrows
      BY <1>6 DEF FileGrows
    <2>3. KnownStays
      BY <1>1, <1>6 DEF KnownStays, Known
    <2>4. TickGrow' /\ LookGrow' /\ GoingGrow'
      BY <1>1, <1>6, <2>2, <2>3, RestGrows
    <2> QED  BY <2>1, <2>2, <2>4 DEF GrowInv
  <1>7. CASE Sends(job, tab.etag, w, "put") /\ UNCHANGED plan
    <2> DEFINE r == Reply(tab.open, tab.etag)
    <2>1. Put(tab.open, tab.etag, w) /\ put' = [job EXCEPT !.at = "put", !.wrote = w, !.reply = r]
      BY <1>3, <1>7 DEF Sends
    <2>2. /\ FileGrows /\ \A m \in Note : m # tab.open => file'[m] = file[m]
          /\ file'[tab.open] \in {file[tab.open], w}
          /\ r = "ok" => file'[tab.open] = w
      BY <1>5, <2>1, PutGrows
    <2> HIDE DEF r
    <2>3. /\ put'.note = tab.open /\ put'.text = w /\ put'.wrote = w /\ put'.base = tab.saved
          /\ put'.shown = tab.shown /\ put'.at = "put" /\ put'.reply = r
      BY <1>3, <2>1
    <2>4. plan' = plan
      BY <1>7
    <2> QED  BY <1>1, <1>2, <1>5, <2>2, <2>3, <2>4, SendGrows
  <1>8. CASE Spend("fails") /\ put' = [job EXCEPT !.reply = "failed"] /\ UNCHANGED file
    <2>1. plan'.ticked = plan.ticked
      BY <1>8 DEF Spend, TabInv, TabTypes
    <2>2. FileGrows
      BY <1>8 DEF FileGrows
    <2>3. /\ put'.note = tab.open /\ put'.text = w /\ put'.wrote = w /\ put'.base = tab.saved
          /\ put'.shown = tab.shown /\ put'.at = "put" /\ put'.reply = "failed"
      BY <1>3, <1>8
    <2> QED  BY <1>1, <1>2, <1>5, <1>8, <2>1, <2>2, <2>3, SendGrows
  <1> QED  BY <1>4, <1>6, <1>7, <1>8

\* A save has landed: the text it wrote is the one the tab takes to be saved.
LEMMA SavedGrows ==
  ASSUME TabInv, GrowInv, put # None, NEW text, Saved(text), UNCHANGED <<next, tick, look, going, plan>>,
         put.text \subseteq text, text \subseteq tab.text, text \subseteq OnDisk
  PROVE  GrowInv' /\ FileGrows
  <1>1. /\ tab' = [tab EXCEPT !.saved = text, !.etag = text] /\ put' = None
        /\ UNCHANGED <<file, timer, next>>
    BY DEF Saved
  <1>2. /\ tab'.open = tab.open /\ tab'.ed = tab.ed /\ tab'.text = tab.text
        /\ tab'.saved = text /\ tab'.shown = tab.shown /\ tab'.etag = text
    BY <1>1 DEF TabInv, TabTypes
  <1>3. FileGrows /\ OnDisk' = OnDisk
    BY <1>1, <1>2 DEF FileGrows, OnDisk
  <1>4. put.base \subseteq text /\ First(tab.open) \subseteq text /\ (tab.shown # None => tab.shown \subseteq text)
    BY DEF GrowInv, PutGrow
  <1>5. KnownStays
    BY <1>1, <1>2, <1>3, <1>4, Remembers
  <1>6. TickGrow' /\ LookGrow' /\ GoingGrow'
    BY <1>3, <1>5, RestGrows
  <1>7. FilesGrow' /\ PutGrow'
    BY <1>1 DEF GrowInv, FilesGrow, PutGrow, Of, Unticked
  <1>8. ScreenGrow'
    BY <1>2, <1>3, <1>4 DEF GrowInv, ScreenGrow, Of, Unticked, First
  <1>9. JobGrow(timer)' /\ JobGrow(next)'
    BY <1>1, <1>2, <1>4 DEF GrowInv, JobGrow
  <1> QED  BY <1>3, <1>6, <1>7, <1>8, <1>9 DEF GrowInv

LEMMA GaveUpGrows ==
  ASSUME TabInv, GrowInv, NEW said, GaveUp(said), UNCHANGED <<next, tick, look, going, plan>>
  PROVE  GrowInv' /\ FileGrows
  <1>1. /\ tab' = [tab EXCEPT !.said = said] /\ put' = None
        /\ UNCHANGED <<file, timer>>
    BY DEF GaveUp
  <1>2. /\ tab'.open = tab.open /\ tab'.ed = tab.ed /\ tab'.text = tab.text
        /\ tab'.saved = tab.saved /\ tab'.shown = tab.shown /\ tab'.etag = tab.etag
    BY <1>1 DEF TabInv, TabTypes
  <1> QED  BY <1>1, <1>2, SameGrows DEF FileGrows

\* A refused save asks for the note as it is.
LEMMA AsksGrows ==
  ASSUME TabInv, GrowInv, put # None, UNCHANGED <<file, tab, timer, next, tick, look, going, plan>>,
         put'.note = put.note, put'.text = put.text, put'.wrote = put.wrote,
         put'.base = put.base, put'.shown = put.shown, put'.at = "asked", put'.theirs = file[put.note]
  PROVE  GrowInv' /\ FileGrows
  <1>1. put.note = tab.open /\ FileGrows /\ OnDisk' = OnDisk /\ put'.theirs = OnDisk
    BY DEF TabInv, PutInv, FileGrows, OnDisk
  <1>2. KnownStays
    BY <1>1, Remembers
  <1>3. TickGrow' /\ LookGrow' /\ GoingGrow'
    BY <1>1, <1>2, RestGrows
  <1>4. FilesGrow' /\ ScreenGrow' /\ JobGrow(timer)' /\ JobGrow(next)'
    BY <1>1 DEF GrowInv, FilesGrow, ScreenGrow, JobGrow, Of, Unticked
  <1>5. PutGrow'
    BY <1>1 DEF GrowInv, PutGrow, Of, Unticked
  <1> QED  BY <1>1, <1>3, <1>4, <1>5 DEF GrowInv

LEMMA PutAnsweredGrows == ASSUME TabInv, GrowInv, PutAnswered PROVE GrowInv' /\ FileGrows
  <1>1. /\ put # None /\ put.at \in {"put", "again"} /\ UNCHANGED <<next, tick, look, going, plan>>
        /\ DOMAIN put = {"note", "text", "wrote", "base", "shown", "at", "reply", "theirs", "tries", "live"}
    BY DEF PutAnswered, TabInv, TabTypes
  <1>2. \/ put.reply = "ok" /\ Saved(put.wrote)
        \/ Asks
        \/ \E said : GaveUp(said)
    BY DEF PutAnswered
  <1>3. CASE put.reply = "ok" /\ Saved(put.wrote)
    <2>1. put.text \subseteq put.wrote /\ put.wrote \subseteq tab.text /\ put.wrote \subseteq OnDisk
      BY <1>1, <1>3 DEF GrowInv, PutGrow
    <2> QED  BY <1>1, <1>3, <2>1, SavedGrows
  <1>4. CASE Asks
    BY <1>1, <1>4, AsksGrows DEF Asks
  <1>5. CASE \E said : GaveUp(said)
    BY <1>1, <1>5, GaveUpGrows
  <1> QED  BY <1>2, <1>3, <1>4, <1>5

\* The save is sent once more, over the text it was answered.
LEMMA SendsGrows ==
  ASSUME TabInv, NoneIsNothing, GrowInv, put # None, put.at = "asked",
         NEW text, NEW stage \in {"again", "merge"}, Sends(put, put.theirs, text, stage),
         UNCHANGED <<tab, timer, next, tick, look, going, plan>>,
         put.theirs \subseteq text, put.text \subseteq text, Of(tab.open, text), Unticked(text),
         stage = "again" => text = put.text
  PROVE  GrowInv' /\ FileGrows
  <1> DEFINE r == Reply(put.note, put.theirs)
  <1>1. /\ put.note = tab.open
        /\ DOMAIN put = {"note", "text", "wrote", "base", "shown", "at", "reply", "theirs", "tries", "live"}
    BY DEF TabInv, PutInv, TabTypes
  <1>2. Put(tab.open, put.theirs, text) /\ put' = [put EXCEPT !.at = stage, !.wrote = text, !.reply = r]
    BY <1>1 DEF Sends
  <1>3. put.theirs # {} /\ First(tab.open) \subseteq put.base /\ put.base \subseteq OnDisk
    BY DEF GrowInv, PutGrow, First
  <1>4. /\ FileGrows /\ \A m \in Note : m # tab.open => file'[m] = file[m]
        /\ file'[tab.open] \in {file[tab.open], text}
        /\ r = "ok" => file'[tab.open] = text
    BY <1>1, <1>2, <1>3, PutGrows
  <1> HIDE DEF r
  <1>5. /\ put'.note = tab.open /\ put'.text = put.text /\ put'.wrote = text /\ put'.base = put.base
        /\ put'.shown = put.shown /\ put'.at = stage /\ put'.reply = r
    BY <1>1, <1>2
  <1>6. /\ put.base \subseteq put.text /\ put.text \subseteq tab.text
        /\ put.shown # None => put.shown \subseteq put.text
        /\ tab.shown # None => tab.shown \subseteq put.text
    BY DEF GrowInv, PutGrow
  <1> QED  BY <1>3, <1>4, <1>5, <1>6, SendGrows

LEMMA AskAnsweredGrows == ASSUME TabInv, NoneIsNothing, GrowInv, AskAnswered PROVE GrowInv' /\ FileGrows
  <1> DEFINE m == Shared!Merge(put.base, put.text, put.theirs)
  <1>1. put # None /\ put.at = "asked" /\ UNCHANGED <<next, tick, look, going, plan>>
    BY DEF AskAnswered
  <1>2. \/ put.theirs = put.text /\ Saved(put.text)
        \/ /\ put.theirs \in {put.base, put.shown}
           /\ Sends(put, put.theirs, put.text, "again") /\ UNCHANGED <<tab, timer>>
        \/ Sends(put, put.theirs, m, "merge") /\ UNCHANGED <<tab, timer>>
    BY DEF AskAnswered
  <1>3. /\ put.base \subseteq put.theirs /\ put.theirs \subseteq OnDisk /\ put.base \subseteq put.text
        /\ put.text \subseteq tab.text /\ (put.shown # None => put.shown \subseteq put.text)
        /\ put.text \subseteq put.wrote /\ Of(tab.open, put.wrote) /\ Unticked(put.wrote)
        /\ First(tab.open) \subseteq put.base
    BY <1>1 DEF GrowInv, PutGrow
  <1>4. Of(tab.open, OnDisk) /\ Unticked(OnDisk)
    BY DEF GrowInv, FilesGrow, OnDisk, TabInv, TabTypes
  <1>5. /\ m \subseteq put.text \cup put.theirs
        /\ \A q \in put.text : q \notin put.base \/ q \in put.theirs => q \in m
        /\ \A q \in put.theirs : q \notin put.base \/ q \in put.text => q \in m
    BY MergeKeeps
  <1> HIDE DEF m
  <1>6. put.theirs \subseteq m /\ put.text \subseteq m /\ Of(tab.open, m) /\ Unticked(m)
    BY <1>3, <1>4, <1>5 DEF Of, Unticked
  <1>7. CASE put.theirs = put.text /\ Saved(put.text)
    BY <1>1, <1>3, <1>7, SavedGrows
  <1>8. CASE /\ put.theirs \in {put.base, put.shown}
             /\ Sends(put, put.theirs, put.text, "again") /\ UNCHANGED <<tab, timer>>
    <2>1. put.theirs # None
      BY <1>3 DEF NoneIsNothing, First
    <2>2. put.theirs \subseteq put.text
      BY <1>3, <1>8, <2>1
    <2>3. Of(tab.open, put.text) /\ Unticked(put.text)
      BY <1>3 DEF Of, Unticked
    <2> QED  BY <1>1, <1>8, <2>2, <2>3, SendsGrows
  <1>9. CASE Sends(put, put.theirs, m, "merge") /\ UNCHANGED <<tab, timer>>
    BY <1>1, <1>6, <1>9, SendsGrows
  <1> QED  BY <1>2, <1>7, <1>8, <1>9

\* A text that has all the editor was made on is merged into the editor: it shows both.
LEMMA ShowsGrows ==
  ASSUME TabInv, GrowInv, NoneIsNothing, NEW theirs, NEW base,
         Shows([tab EXCEPT !.saved = theirs, !.etag = theirs, !.shown = None], base, theirs),
         UNCHANGED <<file, next, tick, going, plan>>, put' \in {put, None}, look' \in {look, None},
         base \subseteq theirs, theirs \subseteq OnDisk, First(tab.open) \subseteq theirs,
         \A q \in theirs : q \in base => q \in tab.ed,
         tab.saved \subseteq theirs \/ (put # None /\ put.base \subseteq theirs)
  PROVE  GrowInv' /\ FileGrows
  <1> DEFINE m == Shared!Merge(base, tab.ed, theirs)
  <1>1. /\ m \subseteq tab.ed \cup theirs
        /\ \A q \in tab.ed : q \notin base \/ q \in theirs => q \in m
        /\ \A q \in theirs : q \notin base \/ q \in tab.ed => q \in m
    BY MergeKeeps
  <1>2. /\ tab'.open = tab.open /\ tab'.ed = m /\ tab'.text = m
        /\ tab'.saved = theirs /\ tab'.shown = None /\ tab'.etag = theirs
        /\ \/ timer' = timer
           \/ timer' = [note |-> tab.open, text |-> m, on |-> theirs]
    <2> DEFINE t == [tab EXCEPT !.saved = theirs, !.etag = theirs, !.shown = None]
    <2>1. /\ t.open = tab.open /\ t.ed = tab.ed /\ t.saved = theirs /\ t.shown = None /\ t.etag = theirs
          /\ DOMAIN t = {"open", "ed", "text", "saved", "etag", "shown", "said"}
      BY DEF TabInv, TabTypes
    <2>2. /\ m = theirs => tab' = [t EXCEPT !.ed = theirs, !.text = theirs] /\ UNCHANGED timer
          /\ m # theirs => Changed(t, m)
      BY <2>1 DEF Shows
    <2> HIDE DEF t, m
    <2>3. CASE m = theirs
      BY <2>1, <2>2, <2>3
    <2>4. CASE m # theirs
      <3>1. /\ tab' = [t EXCEPT !.ed = m, !.text = m, !.said = None]
            /\ timer' = [note |-> t.open, text |-> m, on |-> t.saved]
        BY <2>1, <2>2, <2>4 DEF Changed
      <3> QED  BY <2>1, <3>1
    <2> QED  BY <2>3, <2>4
  <1> HIDE DEF m
  <1>3. tab.ed \subseteq m /\ theirs \subseteq m /\ m \subseteq tab.ed \cup theirs
    BY <1>1
  <1>4. tab.open \in Note /\ FileGrows /\ OnDisk' = OnDisk
    BY <1>2 DEF TabInv, TabTypes, FileGrows, OnDisk
  <1>5. Of(tab.open, m) /\ Unticked(m)
    BY <1>3, <1>4 DEF GrowInv, ScreenGrow, FilesGrow, OnDisk, Of, Unticked
  <1>6. KnownStays
    <2>1. put' # None => put' = put /\ put.note = tab.open
      BY DEF TabInv, PutInv
    <2> QED  BY <1>2, <1>4, <2>1, Remembers
  <1>7. TickGrow' /\ GoingGrow'
    BY <1>4, <1>6 DEF GrowInv, TickGrow, GoingGrow, KnownStays, FileGrows
  <1>8. LookGrow'
    BY <1>4, <1>6 DEF GrowInv, LookGrow, KnownStays, FileGrows, TabInv, LookInv, Unticked, Of
  <1>9. FilesGrow'
    BY DEF GrowInv, FilesGrow, Of, Unticked
  <1>10. ScreenGrow'
    BY <1>2, <1>3, <1>4, <1>5 DEF ScreenGrow, Of, Unticked, First
  <1>11. JobGrow(timer)' /\ JobGrow(next)'
    BY <1>2, <1>3 DEF GrowInv, JobGrow, ScreenGrow
  <1>12. PutGrow'
    BY <1>2, <1>3, <1>4 DEF GrowInv, PutGrow, ScreenGrow, Of, Unticked
  <1> QED  BY <1>4, <1>7, <1>8, <1>9, <1>10, <1>11, <1>12 DEF GrowInv

LEMMA MergeAnsweredGrows == ASSUME TabInv, NoneIsNothing, GrowInv, MergeAnswered PROVE GrowInv' /\ FileGrows
  <1>1. /\ put # None /\ put.at = "merge" /\ UNCHANGED <<next, tick, look, going, plan>>
        /\ put.note = tab.open
        /\ DOMAIN put = {"note", "text", "wrote", "base", "shown", "at", "reply", "theirs", "tries", "live"}
    BY DEF MergeAnswered, TabInv, TabTypes, PutInv
  <1>2. \/ /\ put.reply = "ok"
           /\ Shows([tab EXCEPT !.saved = put.wrote, !.etag = put.wrote, !.shown = None], put.text, put.wrote)
           /\ put' = None /\ UNCHANGED file
        \/ /\ put' = [put EXCEPT !.at = "asked", !.theirs = file[put.note], !.tries = @ + 1]
           /\ UNCHANGED <<file, tab, timer>>
        \/ GaveUp("banner")
    BY <1>1 DEF MergeAnswered
  <1>3. CASE /\ put.reply = "ok"
             /\ Shows([tab EXCEPT !.saved = put.wrote, !.etag = put.wrote, !.shown = None], put.text, put.wrote)
             /\ put' = None /\ UNCHANGED file
    <2>1. /\ put.text \subseteq put.wrote /\ put.wrote \subseteq OnDisk /\ put.base \subseteq put.wrote
          /\ First(tab.open) \subseteq put.wrote /\ put.text \subseteq tab.ed
      BY <1>1, <1>3 DEF GrowInv, PutGrow, ScreenGrow
    <2> QED  BY <1>1, <1>3, <2>1, ShowsGrows
  <1>4. CASE /\ put' = [put EXCEPT !.at = "asked", !.theirs = file[put.note], !.tries = @ + 1]
             /\ UNCHANGED <<file, tab, timer>>
    BY <1>1, <1>4, AsksGrows
  <1>5. CASE GaveUp("banner")
    BY <1>1, <1>5, GaveUpGrows
  <1> QED  BY <1>2, <1>3, <1>4, <1>5

-----------------------------------------------------------------------------
(* Looks at the file, and what people do.                                  *)

\* A look is asked for, or an ETag becomes that of the checkbox's text.
LEMMA LooksGrow ==
  ASSUME TabInv, GrowInv, UNCHANGED <<file, timer, next, put, going, plan>>,
         tick' \in {tick, None}, look' \in {look, Asked, None},
         tab'.open = tab.open, tab'.ed = tab.ed, tab'.text = tab.text,
         tab'.saved = tab.saved, tab'.shown = tab.shown,
         tab'.etag = tab.etag \/ (tick # None /\ tab'.etag = tick.text)
  PROVE  GrowInv' /\ FileGrows
  <1>1. FileGrows /\ OnDisk' = OnDisk /\ tab.open \in Note
    BY DEF FileGrows, OnDisk, TabInv, TabTypes
  <1>2. KnownStays
    BY DEF KnownStays, Known
  <1>3. TickGrow' /\ GoingGrow'
    BY <1>2 DEF GrowInv, TickGrow, GoingGrow, KnownStays
  <1>4. Asked.base = tab.saved /\ Asked.got = OnDisk /\ Asked.note = tab.open
    BY DEF Asked, OnDisk
  <1>5. tab.saved \subseteq OnDisk /\ Of(tab.open, OnDisk) /\ Unticked(OnDisk)
    BY <1>1 DEF GrowInv, ScreenGrow, FilesGrow, OnDisk
  <1> HIDE DEF Asked
  <1>6. LookGrow'
    <2>1. CASE look' = look
      BY <1>1, <1>2, <2>1 DEF GrowInv, LookGrow, KnownStays, TabInv, LookInv, Unticked, Of
    <2>2. CASE look' = Asked
      BY <1>1, <1>4, <1>5, <2>2 DEF LookGrow, Unticked, Of, OnDisk
    <2>3. CASE look' = None
      BY <2>3 DEF LookGrow
    <2> QED  BY <2>1, <2>2, <2>3
  <1>7. FilesGrow' /\ JobGrow(timer)' /\ JobGrow(next)' /\ PutGrow'
    BY <1>1 DEF GrowInv, FilesGrow, JobGrow, PutGrow, Of, Unticked
  <1>8. tick # None => tick.text # {} /\ (tick.text \subseteq tab.saved \/ \E q \in tick.text : q[1] # tab.open)
    BY DEF GrowInv, TickGrow, Known
  <1>9. ScreenGrow'
    BY <1>1, <1>8 DEF GrowInv, ScreenGrow, Of, Unticked
  <1> QED  BY <1>1, <1>3, <1>6, <1>7, <1>9 DEF GrowInv

LEMMA GateGrows == ASSUME TabInv, GrowInv, Receive \/ Polls \/ TickAnswered PROVE GrowInv' /\ FileGrows
  <1>1. CASE Receive
    BY <1>1, LooksGrow DEF Receive
  <1>2. CASE Polls
    BY <1>2, LooksGrow DEF Polls
  <1>3. CASE TickAnswered
    BY <1>3, LooksGrow DEF TickAnswered, TabInv, TabTypes
  <1> QED  BY <1>1, <1>2, <1>3

LEMMA LookAnsweredGrows == ASSUME TabInv, NoneIsNothing, GrowInv, LookAnswered PROVE GrowInv' /\ FileGrows
  <1>1. look # None /\ look' = None /\ UNCHANGED <<file, next, put, tick, going, plan>>
    BY DEF LookAnswered
  <1>2. \/ UNCHANGED <<tab, timer>>
        \/ /\ Current(look)
           /\ Shows([tab EXCEPT !.saved = look.got, !.etag = look.got, !.shown = None], look.base, look.got)
    BY DEF LookAnswered
  <1>3. CASE UNCHANGED <<tab, timer>>
    BY <1>1, <1>3, LooksGrow
  <1>4. CASE /\ Current(look)
             /\ Shows([tab EXCEPT !.saved = look.got, !.etag = look.got, !.shown = None], look.base, look.got)
    <2>1. /\ look.note = tab.open /\ look.base = tab.saved /\ look.base \subseteq look.got
          /\ First(tab.open) \subseteq tab.saved /\ tab.saved \subseteq tab.ed
      BY <1>1, <1>4 DEF Current, GrowInv, LookGrow, ScreenGrow
    <2>2. look.got \subseteq OnDisk
      BY <1>1, <2>1 DEF GrowInv, LookGrow, Known, OnDisk
    <2> QED  BY <1>1, <1>4, <2>1, <2>2, ShowsGrows
  <1> QED  BY <1>2, <1>3, <1>4

LEMMA TimerFiresGrows == ASSUME TabInv, GrowInv, TimerFires PROVE GrowInv' /\ FileGrows
  <1>1. next' = timer /\ timer' = None /\ UNCHANGED <<file, tab, put, tick, look, going, plan>>
    BY DEF TimerFires
  <1>2. FileGrows /\ KnownStays /\ OnDisk' = OnDisk
    BY <1>1 DEF FileGrows, KnownStays, Known, OnDisk
  <1>3. TickGrow' /\ LookGrow' /\ GoingGrow'
    BY <1>1, <1>2, RestGrows
  <1>4. FilesGrow' /\ ScreenGrow' /\ JobGrow(timer)' /\ JobGrow(next)' /\ PutGrow'
    BY <1>1, <1>2 DEF GrowInv, FilesGrow, ScreenGrow, JobGrow, PutGrow, Of, Unticked
  <1> QED  BY <1>2, <1>3, <1>4 DEF GrowInv

\* The editor has more than it had, of pieces of its note, and may report it.
LEMMA EditGrows ==
  ASSUME TabInv, GrowInv, UNCHANGED <<file, put, tick, look>>,
         DOMAIN tab' = DOMAIN tab, tab'.open = tab.open, tab'.saved = tab.saved, tab'.shown = tab.shown,
         tab'.etag = tab.etag, tab.ed \subseteq tab'.ed, tab'.text \in {tab.text, tab'.ed},
         Of(tab.open, tab'.ed), Unticked(tab'.ed), plan'.ticked = plan.ticked,
         going' = going \/ (going = None /\ going'.got = None),
         timer' # None => timer' = timer \/ (timer'.text = tab'.text /\ timer'.on = tab.saved),
         next' # None => next' = next \/ next' = timer \/ (next'.text = tab'.text /\ next'.on = tab.saved)
  PROVE  GrowInv' /\ FileGrows
  <1>1. FileGrows /\ OnDisk' = OnDisk /\ tab.text \subseteq tab'.text /\ tab'.text \subseteq tab'.ed
    BY DEF FileGrows, OnDisk, GrowInv, ScreenGrow
  <1>2. KnownStays
    BY DEF KnownStays, Known
  <1>3. TickGrow' /\ LookGrow' /\ GoingGrow'
    BY <1>1, <1>2 DEF GrowInv, TickGrow, LookGrow, GoingGrow, KnownStays, TabInv, LookInv, Of, Unticked
  <1>4. FilesGrow' /\ ScreenGrow' /\ PutGrow'
    BY <1>1 DEF GrowInv, FilesGrow, ScreenGrow, PutGrow, Of, Unticked
  <1>5. tab.saved \subseteq tab'.text /\ (tab.shown # None => tab.shown \subseteq tab'.text)
    BY <1>1 DEF GrowInv, ScreenGrow
  <1>6. JobGrow(timer)' /\ JobGrow(next)'
    BY <1>1, <1>5 DEF GrowInv, JobGrow
  <1> QED  BY <1>1, <1>3, <1>4, <1>6 DEF GrowInv

LEMMA PressGrows == ASSUME TabInv, ~Hurried, GrowInv, NEW q, Press(q) PROVE GrowInv' /\ FileGrows
  <1>1. /\ q \in plan.typed /\ q[1] = tab.open
        /\ tab' = [tab EXCEPT !.ed = tab.ed \cup {q}] /\ plan' = [plan EXCEPT !["typed"] = @ \ {q}]
        /\ UNCHANGED <<file, timer, next, put, tick, look, going>>
    BY DEF Press, Take
  <1>2. /\ DOMAIN tab' = DOMAIN tab /\ tab'.open = tab.open /\ tab'.ed = tab.ed \cup {q} /\ tab'.text = tab.text
        /\ tab'.saved = tab.saved /\ tab'.shown = tab.shown /\ tab'.etag = tab.etag
        /\ plan'.ticked = plan.ticked /\ q \notin plan.ticked
    BY <1>1 DEF TabInv, TabTypes, TypedLater
  <1>3. Of(tab.open, tab'.ed) /\ Unticked(tab'.ed)
    BY <1>1, <1>2 DEF GrowInv, ScreenGrow, Of, Unticked
  <1> QED  BY <1>1, <1>2, <1>3, EditGrows

LEMMA ReportsGrows == ASSUME TabInv, GrowInv, Reports PROVE GrowInv' /\ FileGrows
  <1>1. /\ tab' = [tab EXCEPT !.ed = tab.ed, !.text = tab.ed, !.said = None]
        /\ timer' = [note |-> tab.open, text |-> tab.ed, on |-> tab.saved]
        /\ UNCHANGED <<file, next, put, tick, look, going, plan>>
    BY DEF Reports, Changed
  <1>2. /\ DOMAIN tab' = DOMAIN tab /\ tab'.open = tab.open /\ tab'.ed = tab.ed /\ tab'.text = tab.ed
        /\ tab'.saved = tab.saved /\ tab'.shown = tab.shown /\ tab'.etag = tab.etag
    BY <1>1 DEF TabInv, TabTypes
  <1>3. Of(tab.open, tab'.ed) /\ Unticked(tab'.ed)
    BY <1>2 DEF GrowInv, ScreenGrow
  <1> QED  BY <1>1, <1>2, <1>3, EditGrows

LEMMA OpenGrows == ASSUME TabInv, GrowInv, NEW n, Open(n) PROVE GrowInv' /\ FileGrows
  <1> DEFINE job == IF tab.ed # tab.text
                    THEN [note |-> tab.open, text |-> tab.ed, on |-> tab.saved] ELSE timer
  <1>1. /\ plan' = [plan EXCEPT !["opens"] = @ - 1] /\ going = None
        /\ going' = [to |-> n, waits |-> job # None, got |-> None]
        /\ next' = (IF job = None THEN next ELSE job)
        /\ tab' = [tab EXCEPT !.text = tab.ed] /\ timer' = None
        /\ UNCHANGED <<file, put, tick, look>>
    BY DEF Open, Spend
  <1>2. /\ DOMAIN tab' = DOMAIN tab /\ tab'.open = tab.open /\ tab'.ed = tab.ed /\ tab'.text = tab.ed
        /\ tab'.saved = tab.saved /\ tab'.shown = tab.shown /\ tab'.etag = tab.etag
        /\ plan'.ticked = plan.ticked
    BY <1>1 DEF TabInv, TabTypes
  <1>3. Of(tab.open, tab'.ed) /\ Unticked(tab'.ed)
    BY <1>2 DEF GrowInv, ScreenGrow
  <1>4. next' = next \/ next' = timer \/ (next'.text = tab'.text /\ next'.on = tab.saved)
    BY <1>1, <1>2
  <1>5. going'.got = None
    BY <1>1
  <1> QED  BY <1>1, <1>2, <1>3, <1>4, <1>5, EditGrows

LEMMA ElsewhereGrows == ASSUME TabInv, GrowInv, NEW q, ElsewhereWrites(q) PROVE GrowInv' /\ FileGrows
  <1>1. /\ q \in plan.elsewhere /\ file' = [file EXCEPT ![q[1]] = @ \cup {q}]
        /\ plan' = [plan EXCEPT !["elsewhere"] = @ \ {q}]
        /\ UNCHANGED <<tab, timer, next, put, tick, look, going>>
    BY DEF ElsewhereWrites, Take
  <1>2. plan'.ticked = plan.ticked /\ q \notin plan.ticked
    BY <1>1 DEF TabInv, TabTypes, TypedLater
  <1>3. \A n \in Note : file'[n] = file[n] \/ (n = q[1] /\ file'[n] = file[n] \cup {q})
    BY <1>1 DEF TabInv, TabTypes
  <1>4. FileGrows /\ tab.open \in Note
    BY <1>3 DEF FileGrows, TabInv, TabTypes
  <1>5. KnownStays /\ OnDisk \subseteq OnDisk'
    BY <1>1, <1>4 DEF KnownStays, Known, FileGrows, OnDisk
  <1>6. TickGrow' /\ LookGrow' /\ GoingGrow'
    BY <1>1, <1>2, <1>4, <1>5, RestGrows
  <1>7. FilesGrow'
    <2> SUFFICES ASSUME NEW n \in Note PROVE (First(n) \subseteq file[n] /\ Of(n, file[n]) /\ Unticked(file[n]))'
      BY DEF FilesGrow
    <2> QED  BY <1>2, <1>3 DEF GrowInv, FilesGrow, Of, Unticked, First
  <1>8. ScreenGrow' /\ JobGrow(timer)' /\ JobGrow(next)' /\ PutGrow'
    BY <1>1, <1>2, <1>5 DEF GrowInv, ScreenGrow, JobGrow, PutGrow, Of, Unticked
  <1> QED  BY <1>4, <1>6, <1>7, <1>8 DEF GrowInv

\* A peer's live text is shown when nothing waits to be saved.
LEMMA PeerShownGrows ==
  ASSUME TabInv, ~Hurried, GrowInv, NEW q, PeerShown(q), next = None \/ put # None
  PROVE  GrowInv' /\ FileGrows
  <1> DEFINE theirs == OnDisk \cup {q}
  <1>1. /\ q \in plan.elsewhere /\ q[1] = tab.open /\ timer = None /\ tab.ed = tab.text /\ put = None
        /\ plan' = [plan EXCEPT !["peers"] = @ - 1]
        /\ tab' = [tab EXCEPT !.ed = theirs, !.text = theirs, !.shown = theirs]
        /\ UNCHANGED <<file, timer, next, put, tick, look, going>>
    BY DEF PeerShown, Spend, OnDisk
  <1>2. plan'.ticked = plan.ticked /\ q \notin plan.ticked /\ tab.open \in Note
    BY <1>1 DEF TabInv, TabTypes, TypedLater
  <1>3. tab.saved \subseteq theirs /\ Of(tab.open, theirs) /\ Unticked(theirs)
    BY <1>1, <1>2 DEF GrowInv, ScreenGrow, FilesGrow, OnDisk, Of, Unticked
  <1> HIDE DEF theirs
  <1>4. /\ tab'.open = tab.open /\ tab'.ed = theirs /\ tab'.text = theirs
        /\ tab'.saved = tab.saved /\ tab'.shown = theirs /\ tab'.etag = tab.etag
    BY <1>1 DEF TabInv, TabTypes
  <1>5. FileGrows /\ KnownStays /\ OnDisk' = OnDisk
    BY <1>1, <1>4 DEF FileGrows, KnownStays, Known, OnDisk
  <1>6. TickGrow' /\ LookGrow' /\ GoingGrow'
    BY <1>1, <1>2, <1>5, RestGrows
  <1>7. FilesGrow' /\ ScreenGrow'
    BY <1>1, <1>2, <1>3, <1>4, <1>5 DEF GrowInv, FilesGrow, ScreenGrow, Of, Unticked
  <1>8. JobGrow(timer)' /\ JobGrow(next)' /\ PutGrow'
    BY <1>1 DEF JobGrow, PutGrow
  <1> QED  BY <1>5, <1>6, <1>7, <1>8 DEF GrowInv

\* A checkbox overwrites the file: a look that was read before is of no use after.
LEMMA TicksGrow == ASSUME TabInv, ~Hurried, GrowInv, NEW q, Ticks(q) PROVE GrowInv'
  <1> DEFINE new == tab.text \cup {q}
  <1>1. /\ q \in plan.ticked /\ q[1] = tab.open /\ going = None /\ put = None /\ tab.ed = tab.text
        /\ tick' = [text |-> new, live |-> TRUE]
        /\ plan' = [plan EXCEPT !["ticked"] = @ \ {q}]
        /\ tab' = [tab EXCEPT !.ed = new, !.text = new, !.saved = new]
        /\ Put(tab.open, None, new)
        /\ UNCHANGED <<timer, next, put, look, going>>
    BY DEF Ticks, Take
  <1>2. tab.text \subseteq new /\ q \in new /\ (\A p \in new : p \in tab.text \/ p = q)
    OBVIOUS
  <1> HIDE DEF new
  <1>3. /\ tab'.open = tab.open /\ tab'.ed = new /\ tab'.text = new
        /\ tab'.saved = new /\ tab'.shown = tab.shown /\ tab'.etag = tab.etag
        /\ plan'.ticked = plan.ticked \ {q} /\ tick'.text = new
    BY <1>1 DEF TabInv, TabTypes
  <1>4. tab.open \in Note /\ (\A m \in Note : m # tab.open => file'[m] = file[m]) /\ file'[tab.open] = new
    BY <1>1, PutWrites DEF TabInv, TabTypes
  <1>5. OnDisk' = new
    BY <1>3, <1>4 DEF OnDisk
  <1>6. /\ First(tab.open) \subseteq tab.saved /\ tab.saved \subseteq tab.text
        /\ Of(tab.open, tab.text) /\ Unticked(tab.text) /\ Of(tab.open, new)
        /\ tab.shown # None => tab.shown \subseteq tab.text
        /\ tab.etag # {} /\ (tab.etag \subseteq tab.saved \/ \E p \in tab.etag : p[1] # tab.open)
    BY <1>1, <1>2 DEF GrowInv, ScreenGrow, Of
  <1>7. new \cap plan'.ticked = {}
    BY <1>2, <1>3, <1>6 DEF Unticked
  <1>8. FilesGrow'
    <2> SUFFICES ASSUME NEW n \in Note
                 PROVE  First(n) \subseteq file'[n] /\ Of(n, file'[n]) /\ file'[n] \cap plan'.ticked = {}
      BY DEF FilesGrow, Unticked, Of, First
    <2>1. CASE n = tab.open
      BY <1>2, <1>4, <1>6, <1>7, <2>1
    <2>2. CASE n # tab.open
      BY <1>3, <1>4, <2>2 DEF GrowInv, FilesGrow, Unticked
    <2> QED  BY <2>1, <2>2
  <1>9. ScreenGrow'
    BY <1>2, <1>3, <1>5, <1>6, <1>7 DEF ScreenGrow, Of, Unticked
  <1>10. JobGrow(timer)' /\ JobGrow(next)'
    BY <1>1, <1>2, <1>3, <1>6 DEF GrowInv, JobGrow
  <1>11. PutGrow'
    BY <1>1 DEF PutGrow
  <1>12. \A n \in Note : n = tab.open => \A p \in new : Known(n, p)'
    BY <1>1, <1>3, <1>4 DEF Known
  <1>13. TickGrow'
    BY <1>2, <1>3, <1>4, <1>6, <1>12 DEF TickGrow, Of
  <1>14. \A n \in Note : \A p : Known(n, p) => Known(n, p)'
    <2>1. \A n \in Note : n = tab.open => \A p : Known(n, p) => Known(n, p)'
      BY <1>2, <1>6, <1>12 DEF Known
    <2>2. \A n \in Note : n # tab.open => \A p : Known(n, p) => Known(n, p)'
      BY <1>1, <1>3, <1>4 DEF Known
    <2> QED  BY <2>1, <2>2
  <1>15. LookGrow'
    <2> SUFFICES ASSUME look # None PROVE LookGrow'
      BY <1>1 DEF LookGrow
    <2>1. /\ look.note \in Note /\ look.base \subseteq look.got /\ Of(look.note, look.got) /\ Unticked(look.got)
          /\ look.got \subseteq file[look.note] \/ \E p \in file[look.note] : p \notin look.base /\ Known(look.note, p)
      BY DEF TabInv, LookInv, GrowInv, LookGrow
    <2>2. look.got \cap plan'.ticked = {}
      BY <1>3, <2>1 DEF Unticked
    <2>3. CASE look.note = tab.open
      <3>1. q \in file'[look.note] /\ q \notin look.base /\ Known(look.note, q)'
        BY <1>1, <1>2, <1>4, <1>12, <2>1, <2>3 DEF Unticked
      <3> QED  BY <1>1, <2>1, <2>2, <3>1 DEF LookGrow, Of, Unticked
    <2>4. CASE look.note # tab.open
      <3>1. file'[look.note] = file[look.note]
        BY <1>4, <2>1, <2>4
      <3> QED  BY <1>1, <1>14, <2>1, <2>2, <3>1 DEF LookGrow, Of, Unticked
    <2> QED  BY <2>3, <2>4
  <1>16. GoingGrow'
    BY <1>1 DEF GoingGrow
  <1> QED  BY <1>8, <1>9, <1>10, <1>11, <1>13, <1>15, <1>16 DEF GrowInv

LEMMA FetchesGrow == ASSUME TabInv, GrowInv, Fetches PROVE GrowInv' /\ FileGrows
  <1>1. /\ going # None /\ going' = [going EXCEPT !.got = file[going.to]]
        /\ UNCHANGED <<file, tab, timer, next, put, tick, look, plan>>
    BY DEF Fetches
  <1>2. going'.to = going.to /\ going'.got = file[going.to] /\ going.to \in Note
    BY <1>1 DEF TabInv, TabTypes, ScreenInv
  <1>3. FileGrows /\ OnDisk' = OnDisk
    BY <1>1 DEF FileGrows, OnDisk
  <1>4. KnownStays
    BY <1>1, <1>2 DEF KnownStays, Known
  <1>5. TickGrow' /\ LookGrow'
    BY <1>1, <1>4 DEF GrowInv, TickGrow, LookGrow, KnownStays, TabInv, LookInv, Of, Unticked
  <1>6. GoingGrow'
    BY <1>1, <1>2 DEF GrowInv, FilesGrow, GoingGrow, First
  <1>7. FilesGrow' /\ ScreenGrow' /\ JobGrow(timer)' /\ JobGrow(next)' /\ PutGrow'
    BY <1>1, <1>3 DEF GrowInv, FilesGrow, ScreenGrow, JobGrow, PutGrow, Of, Unticked
  <1> QED  BY <1>3, <1>5, <1>6, <1>7 DEF GrowInv

LEMMA OpensGrow == ASSUME TabInv, NoneIsNothing, ~Hurried, GrowInv, Opens PROVE GrowInv' /\ FileGrows
  <1> DEFINE got == going.got
  <1>1. /\ going # None /\ got # None /\ timer = None /\ next = None /\ put = None
        /\ tab' = [open |-> going.to, ed |-> got, text |-> got, saved |-> got,
                   etag |-> got, shown |-> None, said |-> None]
        /\ going' = None /\ put' = None
        /\ tick' = IF tick = None THEN None ELSE [tick EXCEPT !.live = FALSE]
        /\ UNCHANGED <<file, timer, next, look, plan>>
    BY DEF Opens
  <1> HIDE DEF got
  <1>2. /\ tab'.open = going.to /\ tab'.ed = got /\ tab'.text = got
        /\ tab'.saved = got /\ tab'.shown = None /\ tab'.etag = got
    BY <1>1
  <1>3. /\ going.to \in Note /\ First(going.to) \subseteq got /\ got \subseteq file[going.to]
    BY <1>1 DEF TabInv, ScreenInv, GrowInv, GoingGrow, got
  <1>4. Of(going.to, got) /\ Unticked(got) /\ OnDisk' = file[going.to] /\ FileGrows
    BY <1>1, <1>2, <1>3 DEF GrowInv, FilesGrow, Of, Unticked, OnDisk, FileGrows
  <1>5. KnownStays
    BY <1>1, <1>2 DEF KnownStays, Known, got
  <1>6. tick # None => tick'.text = tick.text
    <2>1. tick # None => "text" # "live"
      OBVIOUS
    <2> QED  BY <1>1
  <1>7. TickGrow'
    BY <1>1, <1>5, <1>6 DEF GrowInv, TickGrow, KnownStays
  <1>8. LookGrow'
    BY <1>1, <1>5 DEF GrowInv, LookGrow, KnownStays, TabInv, LookInv, Of, Unticked
  <1>9. FilesGrow' /\ ScreenGrow'
    BY <1>1, <1>2, <1>3, <1>4 DEF GrowInv, FilesGrow, ScreenGrow, Of, Unticked, First
  <1>10. JobGrow(timer)' /\ JobGrow(next)' /\ PutGrow' /\ GoingGrow'
    BY <1>1 DEF JobGrow, PutGrow, GoingGrow
  <1> QED  BY <1>4, <1>7, <1>8, <1>9, <1>10 DEF GrowInv

-----------------------------------------------------------------------------
LEMMA GrowInvInit == ASSUME Init, view = "note" PROVE GrowInv
  <1>1. /\ file = [n \in Note |-> First(n)]
        /\ tab = [open |-> Home, ed |-> First(Home), text |-> First(Home), saved |-> First(Home),
                  etag |-> First(Home), shown |-> None, said |-> None]
        /\ timer = None /\ next = None /\ put = None /\ tick = None /\ look = None /\ going = None
    BY DEF Init, NoteInit
  <1>2. \A n \in Note : First(n) \cap plan.ticked = {} /\ Of(n, First(n)) /\ First(n) # {}
    BY PlansAssumption DEF Init, Of, First
  <1>3. Home \in Note
    BY NoteAssumption
  <1>4. FilesGrow /\ ScreenGrow
    BY <1>1, <1>2, <1>3 DEF FilesGrow, ScreenGrow, OnDisk, Unticked
  <1>5. JobGrow(timer) /\ JobGrow(next) /\ PutGrow /\ TickGrow /\ LookGrow /\ GoingGrow
    BY <1>1 DEF JobGrow, PutGrow, TickGrow, LookGrow, GoingGrow
  <1> QED  BY <1>4, <1>5 DEF GrowInv

LEMMA GrowInvStep ==
  ASSUME TabInv, NoneIsNothing, ~Hurried, GrowInv, NoteNext
  PROVE  GrowInv' /\ (FileGrows \/ TickLands)
  <1>1. CASE StartSave
    BY <1>1, StartSaveGrows
  <1>2. CASE Works
    BY <1>2, ReportsGrows, TimerFiresGrows, PutAnsweredGrows, AskAnsweredGrows, MergeAnsweredGrows, GateGrows,
       LookAnsweredGrows, FetchesGrow, OpensGrow DEF Works
  <1>3. CASE Polls
    BY <1>3, GateGrows
  <1>4. CASE Acts /\ (next = None \/ put # None)
    <2>1. ASSUME NEW q, Ticks(q) PROVE GrowInv' /\ TickLands
      <3>1. q \in plan.ticked
        BY <2>1 DEF Ticks, Take
      <3> QED  BY <2>1, <3>1, TicksGrow DEF TickLands
    <2> QED  BY <1>4, <2>1, PressGrows, ElsewhereGrows, PeerShownGrows, OpenGrows DEF Acts
  <1> QED  BY <1>1, <1>2, <1>3, <1>4 DEF NoteNext, Idle

\* No save of the tab, but a checkbox's, removes what anybody else wrote to a note, from
\* whatever text it was made, refused, merged or sent again, while nothing is done in the
\* moments Hurried names: the step that writes a file leaves all that was in it.
THEOREM ElsewhereIsKept ==
  ASSUME ~Hurried, NoneIsNothing
  PROVE  Spec => ElsewhereKept
  <1> DEFINE Inv == view = "note" => TabInv /\ GrowInv
             Keeps == TickLands \/ \A n \in Note : file[n] \cap Elsewhere \subseteq file'[n]
  <1>1. Init => Inv
    BY TabInvInit, GrowInvInit
  <1>2. Inv /\ [Next]_vars => Inv' /\ [Keeps]_noteVars
    <2> SUFFICES ASSUME Inv, [Next]_vars PROVE Inv' /\ [Keeps]_noteVars
      OBVIOUS
    <2>1. CASE view = "note" /\ view' = "note" /\ NoteNext
      <3>1. TabInv' /\ GrowInv' /\ (FileGrows \/ TickLands)
        BY <2>1, TabInvStep, GrowInvStep
      <3> QED  BY <2>1, <3>1 DEF FileGrows
    <2>2. CASE UNCHANGED noteVars /\ (UNCHANGED plan \/ view # "note") /\ view' = view
      <3>1. view = "note" => GrowInv'
        BY <2>2, LooksGrow DEF noteVars
      <3> QED  BY <2>2, <3>1, TabInvKept
    <2> QED  BY <2>1, <2>2, NoteSteps
  <1> QED  BY <1>1, <1>2, PTL DEF Spec, ElsewhereKept, TickLands

-----------------------------------------------------------------------------
(* The sticky board: a page that says nothing is shown what is stored.     *)

LEMMA StickySteps == ASSUME [Next]_vars PROVE StickyNext \/ UNCHANGED stickyVars
  BY DEF Next, PageNext, ToolNext, RestNext, vars, pageVars

\* A sequence without one of its elements.
LEMMA WithoutOne ==
  ASSUME NEW S, NEW s \in Seq(S), NEW i \in DOMAIN s, NEW t,
         t = [j \in 1 .. Len(s) - 1 |-> IF j < i THEN s[j] ELSE s[j + 1]]
  PROVE  /\ t \in Seq(S) /\ Len(t) = Len(s) - 1 /\ Len(s) \in Nat /\ i \in 1 .. Len(s)
         /\ DOMAIN t = 1 .. Len(s) - 1
         /\ \A j \in DOMAIN t : j \in Nat /\ t[j] = IF j < i THEN s[j] ELSE s[j + 1]
  <1>1. Len(s) \in Nat /\ DOMAIN s = 1 .. Len(s) /\ Len(s) - 1 \in Nat
    BY LenProperties
  <1>2. DOMAIN t = 1 .. Len(s) - 1 /\ \A j \in DOMAIN t : j \in Nat /\ t[j] = IF j < i THEN s[j] ELSE s[j + 1]
    BY <1>1
  <1>3. t \in [1 .. Len(s) - 1 -> S]
    <2>1. ASSUME NEW j \in 1 .. Len(s) - 1 PROVE t[j] \in S
      <3>1. j \in 1 .. Len(s) /\ j + 1 \in 1 .. Len(s)
        BY <1>1
      <3> QED  BY <1>1, <1>2, <3>1, ElementOfSeq
    <2> QED  BY <1>2, <2>1
  <1>4. t \in Seq(S)
    BY <1>1, <1>3, SeqDef
  <1>5. Len(t) = Len(s) - 1
    <2>1. Len(t) \in Nat /\ 1 .. Len(t) = 1 .. Len(s) - 1
      BY <1>2, <1>4, LenProperties
    <2> QED  BY <1>1, <2>1
  <1> QED  BY <1>1, <1>2, <1>4, <1>5

Agreed == stored.is = board.latest \/ stored.by = "other"

PutType == [is : Nat, kind : {"timer", "flush"}, reply : {"none", "ok", "failed"}]

StickyTypes ==
  /\ DOMAIN board = {"open", "load", "latest", "timer", "says", "gets"}
  /\ board.open \in BOOLEAN /\ board.timer \in BOOLEAN
  /\ puts \in Seq(PutType)
  /\ boards \in Nat /\ stored.is \in Nat /\ stored.is <= boards
  /\ \A i \in DOMAIN puts : puts[i].is <= boards

\* Until the board is read nothing is saved.
ReadInv ==
  board.open =>
    /\ board.gets # "none" => board.load = "loading"
    /\ board.load # "ready" => puts = <<>> /\ ~board.timer /\ board.says = "idle"
    /\ board.gets = "got" => board.latest \in Nat /\ board.latest <= boards /\ Agreed
    /\ board.load = "ready" => board.latest \in Nat /\ board.latest <= boards

\* Saves are handled in the order of their boards, all of them older than what
\* the page is about to send; a page that says nothing has none on its way.
Behind(j, i) == puts[j].is < puts[i].is /\ (puts[i].reply # "none" => puts[j].reply # "none")
SaveInv(i) ==
  /\ puts[i].is <= board.latest
  /\ board.timer => puts[i].is < board.latest
  /\ puts[i].reply = "ok" /\ puts[i].is = board.latest => Agreed
  /\ board.says = "idle" => puts[i].reply # "none"
  /\ \A j \in DOMAIN puts : j < i => Behind(j, i)
SavesInv ==
  board.open /\ board.load = "ready" =>
    /\ \A i \in DOMAIN puts : SaveInv(i)
    /\ board.says = "idle" => ~board.timer /\ Agreed

StickyInv == StickyTypes /\ ReadInv /\ SavesInv

LEMMA StickyInvInit == Init => StickyInv
  BY DEF Init, StickyInit, Page, StickyInv, StickyTypes, ReadInv, SavesInv, Agreed

LEMMA PutsAre ==
  ASSUME StickyTypes
  PROVE  /\ Len(puts) \in Nat /\ DOMAIN puts = 1 .. Len(puts)
         /\ \A i \in DOMAIN puts : /\ puts[i] \in PutType /\ i \in Nat /\ puts[i].is \in Nat
                                   /\ puts[i].reply \in {"none", "ok", "failed"}
  <1>1. Len(puts) \in Nat /\ DOMAIN puts = 1 .. Len(puts)
    BY LenProperties DEF StickyTypes
  <1>2. \A i \in 1 .. Len(puts) : puts[i] \in PutType
    BY ElementOfSeq DEF StickyTypes
  <1> QED  BY <1>1, <1>2 DEF PutType

\* A save is added to those on their way.
LEMMA SendingIs ==
  ASSUME StickyTypes, board.latest \in Nat, NEW kind \in {"timer", "flush"}, puts' = Sending(kind)
  PROVE  /\ puts' \in Seq(PutType) /\ DOMAIN puts' = 1 .. Len(puts) + 1
         /\ \A i \in DOMAIN puts : puts'[i] = puts[i]
         /\ puts'[Len(puts) + 1] = [is |-> board.latest, kind |-> kind, reply |-> "none"]
  <1> DEFINE p == [is |-> board.latest, kind |-> kind, reply |-> "none"]
  <1>1. p \in PutType
    BY DEF PutType
  <1>2. puts \in Seq(PutType) /\ puts' = Append(puts, p)
    BY DEF StickyTypes, Sending
  <1> HIDE DEF p
  <1>3. puts' \in Seq(PutType) /\ Len(puts') = Len(puts) + 1 /\ puts'[Len(puts) + 1] = p
        /\ \A i \in 1 .. Len(puts) : puts'[i] = puts[i]
    BY <1>1, <1>2, AppendProperties
  <1>4. DOMAIN puts' = 1 .. Len(puts')
    BY <1>3, LenProperties
  <1> QED  BY <1>3, <1>4, PutsAre DEF p

\* The page changes, and not the saves on their way.
LEMMA PageStep ==
  ASSUME StickyInv, OtherBoard \/ Loads \/ Loaded \/ Retry \/ EditCards
  PROVE  StickyInv'
  <1>1. CASE OtherBoard
    <2>1. /\ UNCHANGED <<board, puts>> /\ boards' = boards + 1
          /\ stored'.is = boards + 1 /\ stored'.by = "other"
      BY <1>1 DEF OtherBoard
    <2>2. Agreed'
      BY <2>1 DEF Agreed
    <2>3. \A i \in DOMAIN puts : SaveInv(i) => SaveInv(i)'
      BY <2>1, <2>2 DEF SaveInv, Behind
    <2>4. SavesInv'
      BY <2>1, <2>2, <2>3 DEF StickyInv, SavesInv
    <2>5. ReadInv'
      BY <2>1, <2>2 DEF StickyInv, StickyTypes, ReadInv
    <2>6. \A i \in DOMAIN puts : puts[i].is \in Nat
      BY PutsAre DEF StickyInv
    <2>7. StickyTypes'
      BY <2>1, <2>6 DEF StickyInv, StickyTypes
    <2> QED  BY <2>4, <2>5, <2>7 DEF StickyInv
  <1>2. CASE Loads
    BY <1>2 DEF Loads, StickyInv, ReadInv, StickyTypes, SavesInv, Agreed
  <1>3. CASE Loaded
    <2>1. board.open /\ board.load = "loading" /\ puts = <<>> /\ ~board.timer /\ board.says = "idle"
      BY <1>3 DEF Loaded, StickyInv, ReadInv
    <2>2. /\ UNCHANGED <<stored, puts, boards>> /\ DOMAIN board' = DOMAIN board /\ board'.open
          /\ board'.gets = "none" /\ board'.load = (IF board.gets = "got" THEN "ready" ELSE "error")
          /\ board'.latest = board.latest /\ board'.timer = board.timer /\ board'.says = board.says
      BY <1>3 DEF Loaded, StickyInv, StickyTypes
    <2>3. StickyTypes'
      BY <2>1, <2>2 DEF StickyInv, StickyTypes
    <2>4. board.gets = "got" => board.latest \in Nat /\ board.latest <= boards /\ Agreed
      BY <2>1 DEF StickyInv, ReadInv
    <2>5. ReadInv'
      BY <2>1, <2>2, <2>4 DEF ReadInv
    <2>6. SavesInv'
      BY <2>1, <2>2, <2>4 DEF SavesInv, Agreed
    <2> QED  BY <2>3, <2>5, <2>6 DEF StickyInv
  <1>4. CASE Retry
    BY <1>4 DEF Retry, StickyInv, ReadInv, StickyTypes, SavesInv, Agreed
  <1>5. CASE EditCards
    <2>1. /\ board.open /\ board.load = "ready" /\ UNCHANGED <<stored, puts>> /\ boards' = boards + 1
          /\ board' = [board EXCEPT !.latest = boards + 1, !.timer = TRUE, !.says = "saving"]
      BY <1>5 DEF EditCards
    <2>2. /\ board'.open /\ board'.load = "ready" /\ board'.latest = boards + 1 /\ board'.timer = TRUE
          /\ board'.open \in BOOLEAN /\ board'.says = "saving" /\ board'.gets = board.gets /\ DOMAIN board' = DOMAIN board
      BY <2>1 DEF StickyInv, StickyTypes
    <2>3. \A i \in DOMAIN puts : puts[i].is <= boards /\ puts[i].is \in Nat
      BY PutsAre DEF StickyInv, StickyTypes
    <2>4. boards \in Nat /\ stored.is \in Nat /\ stored.is <= boards + 1
      BY DEF StickyInv, StickyTypes
    <2>5. SavesInv'
      <3> SUFFICES ASSUME NEW i \in DOMAIN puts PROVE SaveInv(i)'
        BY <2>1, <2>2 DEF SavesInv
      <3>1. SaveInv(i)
        BY <2>1 DEF StickyInv, SavesInv
      <3>2. puts[i].is < boards + 1 /\ puts[i].is <= boards + 1 /\ puts[i].is # boards + 1
        BY <2>3, <2>4
      <3>3. \A j \in DOMAIN puts : j < i => Behind(j, i)'
        BY <2>1, <3>1 DEF SaveInv, Behind
      <3> QED  BY <2>1, <2>2, <3>2, <3>3 DEF SaveInv, Behind
    <2>6. StickyTypes'
      <3>1. boards + 1 \in Nat /\ \A i \in DOMAIN puts : puts[i].is <= boards + 1
        BY <2>3, <2>4
      <3> QED  BY <2>1, <2>2, <2>4, <3>1 DEF StickyInv, StickyTypes
    <2>7. ReadInv'
      BY <2>1, <2>2, <2>4 DEF StickyInv, ReadInv, Agreed
    <2> QED  BY <2>5, <2>6, <2>7 DEF StickyInv
  <1> QED  BY <1>1, <1>2, <1>3, <1>4, <1>5

LEMMA TimerStep ==
  ASSUME StickyInv, BoardTimer
  PROVE  StickyInv'
  <1>1. /\ board.open /\ board.load = "ready" /\ board.timer /\ board.latest \in Nat /\ board.latest <= boards
        /\ board.says # "idle" /\ board' = [board EXCEPT !.timer = FALSE] /\ UNCHANGED <<stored, boards>>
    BY DEF BoardTimer, StickyInv, ReadInv, SavesInv
  <1>2. /\ puts' \in Seq(PutType) /\ DOMAIN puts' = 1 .. Len(puts) + 1
        /\ \A i \in DOMAIN puts : puts'[i] = puts[i]
        /\ puts'[Len(puts) + 1].is = board.latest /\ puts'[Len(puts) + 1].reply = "none"
    BY <1>1, SendingIs DEF BoardTimer, StickyInv
  <1>3. Len(puts) \in Nat /\ DOMAIN puts = 1 .. Len(puts) /\ \A i \in DOMAIN puts : puts[i].is \in Nat
    BY PutsAre DEF StickyInv
  <1>4. /\ board'.open /\ board'.load = "ready" /\ ~board'.timer /\ board'.latest = board.latest
        /\ board'.says = board.says /\ board'.gets = board.gets /\ DOMAIN board' = DOMAIN board
    BY <1>1 DEF StickyInv, StickyTypes
  <1>5. StickyTypes' /\ ReadInv'
    <2>1. \A i \in DOMAIN puts' : i \in DOMAIN puts \/ i = Len(puts) + 1
      BY <1>2, <1>3
    <2>2. \A i \in DOMAIN puts' : puts'[i].is <= boards
      BY <1>1, <1>2, <2>1 DEF StickyInv, StickyTypes
    <2>3. StickyTypes'
      BY <1>1, <1>2, <1>4, <2>2 DEF StickyInv, StickyTypes
    <2>4. ReadInv'
      BY <1>1, <1>4 DEF StickyInv, ReadInv, Agreed
    <2> QED  BY <2>3, <2>4
  <1>6. SavesInv'
    <2> SUFFICES ASSUME NEW i \in DOMAIN puts' PROVE SaveInv(i)'
      BY <1>1, <1>4 DEF SavesInv
    <2>1. CASE i \in DOMAIN puts
      <3>1. SaveInv(i) /\ \A j \in DOMAIN puts' : j < i => j \in DOMAIN puts
        BY <1>1, <1>2, <1>3, <2>1 DEF StickyInv, SavesInv
      <3> QED  BY <1>1, <1>2, <1>4, <2>1, <3>1 DEF SaveInv, Agreed, Behind
    <2>2. CASE i = Len(puts) + 1
      <3>1. \A j \in DOMAIN puts' : j < i => j \in DOMAIN puts
        BY <1>2, <1>3, <2>2
      <3>2. \A j \in DOMAIN puts : puts[j].is < board.latest
        BY <1>1 DEF StickyInv, SavesInv, SaveInv
      <3> QED  BY <1>1, <1>2, <1>4, <2>2, <3>1, <3>2 DEF SaveInv, Behind
    <2> QED  BY <1>2, <1>3, <2>1, <2>2
  <1> QED  BY <1>5, <1>6 DEF StickyInv

LEMMA HandledStep ==
  ASSUME StickyInv, NEW i \in DOMAIN puts, PutHandled(i)
  PROVE  StickyInv'
  <1>1. PICK r \in {"ok", "failed"} : /\ puts' = [puts EXCEPT ![i].reply = r]
                                      /\ r = "ok" => stored' = [is |-> puts[i].is, by |-> "page"]
    BY DEF PutHandled
  <1>2. /\ UNCHANGED <<board, boards>> /\ puts[i].reply = "none"
        /\ \A j \in 1 .. i - 1 : puts[j].reply # "none"
        /\ stored' = stored \/ stored' = [is |-> puts[i].is, by |-> "page"]
    BY DEF PutHandled
  <1>3. /\ Len(puts) \in Nat /\ DOMAIN puts = 1 .. Len(puts) /\ puts \in Seq(PutType)
        /\ \A j \in DOMAIN puts : j \in Nat /\ puts[j] \in PutType /\ puts[j].is \in Nat
    BY PutsAre DEF StickyInv, StickyTypes
  <1>4. /\ puts' \in Seq(PutType) /\ DOMAIN puts' = DOMAIN puts
        /\ \A j \in DOMAIN puts : puts'[j].is = puts[j].is /\ puts'[j].reply = IF j = i THEN r ELSE puts[j].reply
    <2> DEFINE p == [puts[i] EXCEPT !.reply = r]
    <2>1. puts' = [puts EXCEPT ![i] = p] /\ p \in PutType /\ p.is = puts[i].is /\ p.reply = r
      BY <1>1, <1>3 DEF PutType
    <2> HIDE DEF p
    <2>2. puts' \in Seq(PutType) /\ DOMAIN puts' = DOMAIN puts /\ \A j \in DOMAIN puts : puts'[j] = IF j = i THEN p ELSE puts[j]
      BY <1>3, <2>1, ExceptSeq
    <2> QED  BY <2>1, <2>2
  <1>5. StickyTypes'
    BY <1>2, <1>3, <1>4 DEF StickyInv, StickyTypes
  <1>6. board.open => board.load = "ready"
    BY <1>3 DEF StickyInv, ReadInv
  <1>7. ReadInv'
    BY <1>2, <1>6 DEF StickyInv, ReadInv
  <1>8. SavesInv'
    <2> SUFFICES ASSUME board.open, board.load = "ready" PROVE SavesInv'
      BY <1>2 DEF SavesInv
    <2>1. board.says # "idle" /\ board.latest \in Nat
      BY <1>2 DEF StickyInv, SavesInv, SaveInv, ReadInv
    <2> SUFFICES ASSUME NEW k \in DOMAIN puts PROVE SaveInv(k)'
      BY <1>2, <1>4, <2>1 DEF SavesInv
    <2>2. SaveInv(k) /\ SaveInv(i)
      BY DEF StickyInv, SavesInv
    <2>3. k < i => puts[k].reply # "none" /\ puts[k].is < puts[i].is /\ puts[i].is <= board.latest
      <3>1. k < i => k \in 1 .. i - 1
        BY <1>3
      <3> QED  BY <1>2, <2>2, <3>1 DEF SaveInv, Behind
    <2>4. i < k => puts[k].reply = "none"
      BY <1>2, <2>2 DEF SaveInv, Behind
    <2>5. ASSUME puts'[k].reply = "ok", puts[k].is = board.latest PROVE Agreed'
      <3>1. k = i
        <4>1. ~(k < i)
          BY <1>3, <2>1, <2>3, <2>5
        <4>2. ~(i < k)
          BY <1>4, <2>4, <2>5
        <4> QED  BY <1>3, <4>1, <4>2
      <3>2. stored'.is = puts[i].is
        <4>1. puts'[i].reply = r /\ puts'[i].reply = "ok"
          BY <1>4, <2>5, <3>1
        <4>2. stored' = [is |-> puts[i].is, by |-> "page"]
          BY <1>1, <4>1
        <4> QED  BY <4>2
      <3> QED  BY <1>2, <2>5, <3>1, <3>2 DEF Agreed
    <2>6. \A j \in DOMAIN puts : j < k => Behind(j, k)'
      <3> SUFFICES ASSUME NEW j \in DOMAIN puts, j < k, puts'[k].reply # "none" PROVE puts'[j].reply # "none"
        BY <1>4, <2>2 DEF SaveInv, Behind
      <3>1. CASE k = i
        <4>1. j \in 1 .. i - 1
          BY <1>3, <3>1
        <4> QED  BY <1>1, <1>2, <1>4, <4>1
      <3>2. CASE k # i
        BY <1>1, <1>4, <2>2, <3>2 DEF SaveInv, Behind
      <3> QED  BY <3>1, <3>2
    <2> QED  BY <1>2, <1>4, <2>1, <2>2, <2>5, <2>6 DEF SaveInv, Behind
  <1> QED  BY <1>5, <1>7, <1>8 DEF StickyInv

LEMMA AnsweredStep ==
  ASSUME StickyInv, NEW i \in DOMAIN puts, BoardPutAnswered(i)
  PROVE  StickyInv'
  <1>1. /\ Len(puts) \in Nat /\ DOMAIN puts = 1 .. Len(puts) /\ puts \in Seq(PutType)
        /\ \A j \in DOMAIN puts : j \in Nat /\ puts[j] \in PutType /\ puts[j].is \in Nat
    BY PutsAre DEF StickyInv, StickyTypes
  <1>2. /\ UNCHANGED <<stored, boards>> /\ puts[i].reply # "none"
        /\ puts' \in Seq(PutType) /\ DOMAIN puts' = 1 .. Len(puts) - 1
        /\ \A j \in DOMAIN puts' : j \in Nat /\ puts'[j] = IF j < i THEN puts[j] ELSE puts[j + 1]
    BY <1>1, WithoutOne DEF BoardPutAnswered
  <1>3. /\ DOMAIN board' = DOMAIN board /\ board'.open = board.open /\ board'.load = board.load
        /\ board'.latest = board.latest /\ board'.timer = board.timer /\ board'.gets = board.gets
        /\ board'.says = board.says \/ (board.open /\ board'.says = Says(puts[i]))
    BY DEF BoardPutAnswered, StickyInv, StickyTypes
  <1>4. Agreed' <=> Agreed
    BY <1>2, <1>3 DEF Agreed
  <1>5. \A j \in DOMAIN puts' : j + 1 \in DOMAIN puts /\ j \in DOMAIN puts
    BY <1>1, <1>2
  <1>6. StickyTypes'
    BY <1>2, <1>3, <1>5 DEF StickyInv, StickyTypes
  <1>7. board.open => board.load = "ready"
    BY <1>1 DEF StickyInv, ReadInv
  <1>8. ReadInv'
    BY <1>2, <1>3, <1>4, <1>7 DEF StickyInv, ReadInv
  <1>9. SavesInv'
    <2> SUFFICES ASSUME board.open, board.load = "ready" PROVE SavesInv'
      BY <1>3 DEF SavesInv
    <2>1. board.latest \in Nat
      BY DEF StickyInv, ReadInv
    <2>2. ASSUME board'.says = "idle"
          PROVE  ~board.timer /\ Agreed /\ \A k \in DOMAIN puts : puts[k].reply # "none"
      <3>1. CASE board.says = "idle"
        BY <3>1 DEF StickyInv, SavesInv, SaveInv
      <3>2. CASE board.says # "idle"
        <4>1. puts[i].is = board.latest /\ puts[i].reply # "failed"
          BY <1>3, <2>2, <3>2 DEF Says
        <4>2. puts[i].reply = "ok"
          BY <1>1, <1>2, <4>1 DEF PutType
        <4>3. SaveInv(i)
          BY DEF StickyInv, SavesInv
        <4>4. ~board.timer /\ Agreed
          BY <2>1, <4>1, <4>2, <4>3 DEF SaveInv, Behind
        <4>5. ASSUME NEW k \in DOMAIN puts PROVE puts[k].reply # "none"
          <5>1. SaveInv(k)
            BY DEF StickyInv, SavesInv
          <5>2. CASE k < i
            BY <1>2, <4>3, <5>2 DEF SaveInv, Behind
          <5>3. CASE i < k
            BY <1>1, <2>1, <4>1, <5>1, <5>3 DEF SaveInv, Behind
          <5> QED  BY <1>1, <1>2, <5>2, <5>3
        <4> QED  BY <4>4, <4>5
      <3> QED  BY <3>1, <3>2
    <2> SUFFICES ASSUME NEW k \in DOMAIN puts' PROVE SaveInv(k)'
      BY <1>3, <1>4, <2>2 DEF SavesInv
    <2>3. PICK l \in DOMAIN puts : l = IF k < i THEN k ELSE k + 1
      BY <1>5
    <2>4. puts'[k] = puts[l] /\ SaveInv(l)
      BY <1>2, <2>3 DEF StickyInv, SavesInv
    <2>5. ASSUME NEW j \in DOMAIN puts', j < k
          PROVE  puts'[j].is < puts'[k].is /\ (puts'[k].reply # "none" => puts'[j].reply # "none")
      <3>1. PICK m \in DOMAIN puts : m = IF j < i THEN j ELSE j + 1
        BY <1>5
      <3>2. m < l /\ puts'[j] = puts[m]
        BY <1>1, <1>2, <2>3, <2>5, <3>1
      <3> QED  BY <2>4, <3>2 DEF SaveInv, Behind
    <2>6. board'.says = "idle" => puts[l].reply # "none"
      BY <2>2
    <2> QED  BY <1>3, <1>4, <2>4, <2>5, <2>6 DEF SaveInv, Behind
  <1> QED  BY <1>6, <1>8, <1>9 DEF StickyInv

LEMMA StickyInvStep == ASSUME StickyInv, StickyNext PROVE StickyInv'
  <1>1. ASSUME NEW signedOut \in BOOLEAN, Leaves(signedOut) PROVE StickyInv'
    <2>1. board.open /\ UNCHANGED <<stored, boards>> /\ board' = [board EXCEPT !.open = FALSE, !.timer = FALSE]
      BY <1>1 DEF Leaves
    <2>2. ~board'.open /\ DOMAIN board' = DOMAIN board /\ ~board'.timer
      BY <2>1 DEF StickyInv, StickyTypes
    <2>3. puts' \in Seq(PutType) /\ \A i \in DOMAIN puts' : puts'[i].is <= boards
      <3>1. CASE puts' = puts
        BY <3>1 DEF StickyInv, StickyTypes
      <3>2. CASE puts' # puts
        <4>1. board.load = "ready" /\ puts' = Sending("flush") /\ board.latest \in Nat /\ board.latest <= boards
          BY <1>1, <2>1, <3>2 DEF Leaves, StickyInv, ReadInv
        <4>2. /\ puts' \in Seq(PutType) /\ DOMAIN puts' = 1 .. Len(puts) + 1
              /\ \A i \in DOMAIN puts : puts'[i] = puts[i]
              /\ puts'[Len(puts) + 1].is = board.latest
          BY <4>1, SendingIs DEF StickyInv
        <4>3. \A i \in DOMAIN puts' : i \in DOMAIN puts \/ i = Len(puts) + 1
          BY <4>2, PutsAre DEF StickyInv
        <4> QED  BY <4>1, <4>2, <4>3 DEF StickyInv, StickyTypes
      <3> QED  BY <3>1, <3>2
    <2> QED  BY <2>1, <2>2, <2>3 DEF StickyInv, StickyTypes, ReadInv, SavesInv
  <1> QED  BY <1>1, PageStep, TimerStep, HandledStep, AnsweredStep DEF StickyNext

\* For any number of edits, of boards written elsewhere and of writes that fail
\* or are answered late, in any order: a page that says nothing of its board
\* shows the stored one, unless somebody else wrote that one later.
THEOREM BoardIsSaved == Spec => []BoardSaved
  <1>1. StickyInv /\ [Next]_vars => StickyInv'
    <2>1. StickyInv /\ UNCHANGED stickyVars => StickyInv'
      BY DEF stickyVars, StickyInv, StickyTypes, ReadInv, SavesInv, SaveInv, Behind, Agreed
    <2> QED  BY <2>1, StickyInvStep, StickySteps
  <1>2. StickyInv => BoardSaved
    BY DEF StickyInv, SavesInv, Agreed, BoardSaved
  <1> QED  BY <1>1, <1>2, StickyInvInit, PTL DEF Spec

-----------------------------------------------------------------------------
(* The task board: drops are saved one at a time, in the order they fell.  *)

LEMMA BoardSteps == ASSUME [Next]_vars PROVE BoardNext \/ UNCHANGED boardVars
  BY DEF Next, PageNext, ToolNext, RestNext, vars, pageVars

\* A sequence is one over the set of its elements.
IsSequence(s) == s \in Seq({s[i] : i \in DOMAIN s})

LEMMA SeqOfOwn == ASSUME NEW S, NEW s \in Seq(S) PROVE IsSequence(s)
  <1>1. Len(s) \in Nat /\ DOMAIN s = 1 .. Len(s) /\ s \in [1 .. Len(s) -> S]
    BY LenProperties
  <1>2. s \in [1 .. Len(s) -> {s[i] : i \in DOMAIN s}]
    BY <1>1
  <1> QED  BY <1>1, <1>2, SeqDef DEF IsSequence

CardType == [title : Card, done : BOOLEAN, status : Column \cup {None}]

\* Every card of the note has a title of its own.
NoteOfCards(l) ==
  /\ DOMAIN l = {"above", "cards"}
  /\ l.cards \in Seq(CardType)
  /\ \A i, j \in DOMAIN l.cards : l.cards[i].title = l.cards[j].title => i = j

\* Only the first save of a drop has been sent.
MovesInv ==
  /\ IsSequence(moves)
  /\ \A i \in DOMAIN moves :
       /\ DOMAIN moves[i] = {"card", "shown", "to", "at", "reply", "got"}
       /\ moves[i].card \in Card /\ moves[i].to \in Column
       /\ i # 1 \/ moves[i].at = "queued" => moves[i].reply = "none"
       /\ moves[i].at \in {"find", "revert"} => moves[i].reply # "ok"

\* The last drop of a card that has a save to come is what is wished for it;
\* and once that save is done, the note agrees.
LastOf(c, i) == moves[i].card = c /\ \A j \in DOMAIN moves : moves[j].card = c => j <= i
Landed(c) == \A i \in At(c) : ColumnOf(list.cards[i]) = wish[c]
WishInv(c) ==
  /\ wish[c] \in Column \cup {None}
  /\ wish[c] # None /\ c \notin told =>
       /\ \A i \in DOMAIN moves : LastOf(c, i) => moves[i].to = wish[c]
       /\ (\A i \in DOMAIN moves : moves[i].card = c => moves[i].reply = "ok") => Landed(c)

BoardInv ==
  /\ NoteOfCards(list) /\ MovesInv
  /\ drag \in Card \cup {None} /\ DOMAIN wish = Card
  /\ \A c \in Card : WishInv(c)

LEMMA MovesAre ==
  ASSUME MovesInv
  PROVE  /\ Len(moves) \in Nat /\ DOMAIN moves = 1 .. Len(moves)
         /\ \A i \in DOMAIN moves : i \in Nat
  BY LenProperties DEF MovesInv, IsSequence

LEMMA CardsAre ==
  ASSUME NEW l, NoteOfCards(l)
  PROVE  /\ Len(l.cards) \in Nat /\ DOMAIN l.cards = 1 .. Len(l.cards)
         /\ \A i \in DOMAIN l.cards : i \in Nat /\ l.cards[i] \in CardType
  <1>1. Len(l.cards) \in Nat /\ DOMAIN l.cards = 1 .. Len(l.cards)
    BY LenProperties DEF NoteOfCards
  <1> QED  BY <1>1, ElementOfSeq DEF NoteOfCards

\* The cards of the note at the start are those of Card, each once.
LEMMA OrderIs ==
  /\ Cardinality(Card) \in Nat /\ Order \in [1 .. Cardinality(Card) -> Card]
  /\ \A i, j \in 1 .. Cardinality(Card) : Order[i] = Order[j] => i = j
  <1> DEFINE n == Cardinality(Card)
             P(f) == {f[i] : i \in DOMAIN f} = Card
  <1>1. IsFiniteSet(Card)
    BY BoardAssumption
  <1>2. n \in Nat /\ ExistsBijection(1 .. n, Card)
    BY <1>1, FS_CardinalityType
  <1>3. PICK g \in [1 .. n -> Card] : \A c \in Card : \E i \in 1 .. n : g[i] = c
    BY <1>2 DEF ExistsBijection, Bijection, Surjection
  <1>4. P(g)
    BY <1>3
  <1>5. Order \in [1 .. n -> Card] /\ P(Order)
    BY <1>3, <1>4 DEF Order
  <1>6. Order \in Surjection(1 .. n, Card)
    BY <1>5 DEF Surjection
  <1>7. IsFiniteSet(1 .. n) /\ Cardinality(1 .. n) = n
    BY <1>2, FS_Interval
  <1>8. Order \in Injection(1 .. n, Card)
    BY <1>6, <1>7, FS_Surjection
  <1> QED  BY <1>2, <1>5, <1>8 DEF Injection, IsInjective

LEMMA BoardInvInit == Init => BoardInv
  <1> SUFFICES ASSUME Init PROVE BoardInv
    OBVIOUS
  <1> DEFINE n == Cardinality(Card)
  <1>1. /\ list = [above |-> 0, cards |-> [i \in DOMAIN Order |-> [title |-> Order[i], done |-> FALSE, status |-> None]]]
        /\ drag = None /\ moves = <<>> /\ wish = [c \in Card |-> None]
    BY DEF Init, BoardInit
  <1>2. n \in Nat /\ DOMAIN Order = 1 .. n /\ \A i \in 1 .. n : Order[i] \in Card
    BY OrderIs
  <1>3. DOMAIN list = {"above", "cards"} /\ list.cards = [i \in 1 .. n |-> [title |-> Order[i], done |-> FALSE, status |-> None]]
    BY <1>1, <1>2
  <1>4. \A i \in 1 .. n : [title |-> Order[i], done |-> FALSE, status |-> None] \in CardType
    BY <1>2 DEF CardType
  <1>5. list.cards \in Seq(CardType)
    <2>1. list.cards \in [1 .. n -> CardType]
      BY <1>3, <1>4
    <2> QED  BY <1>2, <2>1, SeqDef
  <1>6. NoteOfCards(list)
    <2>1. \A i, j \in 1 .. n : list.cards[i].title = list.cards[j].title => i = j
      BY <1>2, <1>3, OrderIs
    <2> QED  BY <1>3, <1>5, <2>1 DEF NoteOfCards
  <1>7. MovesInv
    BY <1>1, EmptySeq DEF MovesInv, IsSequence
  <1>8. \A c \in Card : WishInv(c)
    BY <1>1 DEF WishInv
  <1> QED  BY <1>1, <1>6, <1>7, <1>8 DEF BoardInv

\* What becomes of one card leaves the others as they are.
OthersKept(c) ==
  \A d \in Card \ {c} : \A i \in At(d)' : \E k \in At(d) : list'.cards[i] = list.cards[k]

LEMMA CardsChanged ==
  ASSUME NoteOfCards(list), NEW c \in Card, NEW S \in SUBSET At(c), NEW new, DOMAIN new = S,
         \A i \in S : new[i] \in CardType /\ new[i].title = c,
         list' = Changes(new)
  PROVE  /\ NoteOfCards(list') /\ OthersKept(c)
         /\ At(c)' = At(c) /\ \A i \in S : list'.cards[i] = new[i]
  <1>1. /\ Len(list.cards) \in Nat /\ DOMAIN list.cards = 1 .. Len(list.cards)
        /\ \A i \in DOMAIN list.cards : list.cards[i] \in CardType
    BY CardsAre
  <1>2. DOMAIN list' = {"above", "cards"}
        /\ list'.cards = [i \in DOMAIN list.cards |-> IF i \in S THEN new[i] ELSE list.cards[i]]
    BY DEF Changes, NoteOfCards
  <1>3. \A i \in S : i \in DOMAIN list.cards /\ list.cards[i].title = c
    BY DEF At
  <1>4. \A i \in DOMAIN list.cards : /\ list'.cards[i] \in CardType
                                     /\ list'.cards[i].title = list.cards[i].title
                                     /\ i \notin S => list'.cards[i] = list.cards[i]
                                     /\ i \in S => list'.cards[i] = new[i]
    BY <1>1, <1>2, <1>3
  <1>5. DOMAIN list'.cards = DOMAIN list.cards
    BY <1>2
  <1>6. list'.cards \in Seq(CardType)
    <2>1. list'.cards \in [1 .. Len(list.cards) -> CardType]
      BY <1>1, <1>2, <1>4
    <2> QED  BY <1>1, <2>1, SeqDef
  <1>7. NoteOfCards(list')
    BY <1>2, <1>4, <1>5, <1>6 DEF NoteOfCards
  <1>8. \A d \in Card : At(d)' = At(d)
    BY <1>4, <1>5 DEF At
  <1>9. OthersKept(c)
    <2> SUFFICES ASSUME NEW d \in Card \ {c}, NEW i \in At(d) PROVE list'.cards[i] = list.cards[i]
      BY <1>8 DEF OthersKept
    <2>1. i \in DOMAIN list.cards /\ i \notin S
      BY <1>3 DEF At
    <2> QED  BY <1>4, <2>1
  <1> QED  BY <1>3, <1>4, <1>7, <1>8, <1>9

LEMMA CardCut ==
  ASSUME NoteOfCards(list), NEW c \in Card, NEW i \in At(c), list' = CutAt(i)
  PROVE  NoteOfCards(list') /\ OthersKept(c)
  <1>1. i \in DOMAIN list.cards /\ list.cards \in Seq(CardType)
    BY DEF At, NoteOfCards
  <1>2. /\ Len(list.cards) \in Nat /\ DOMAIN list.cards = 1 .. Len(list.cards)
        /\ \A j \in DOMAIN list.cards : j \in Nat
    BY CardsAre
  <1>3. DOMAIN list' = {"above", "cards"}
        /\ list'.cards = [j \in 1 .. Len(list.cards) - 1 |-> IF j < i THEN list.cards[j] ELSE list.cards[j + 1]]
    BY DEF CutAt, NoteOfCards
  <1>4. /\ list'.cards \in Seq(CardType) /\ DOMAIN list'.cards = 1 .. Len(list.cards) - 1
        /\ \A j \in DOMAIN list'.cards :
             j \in Nat /\ list'.cards[j] = IF j < i THEN list.cards[j] ELSE list.cards[j + 1]
    BY <1>1, <1>3, WithoutOne
  <1> DEFINE Was(j) == IF j < i THEN j ELSE j + 1
  <1>5. \A j \in DOMAIN list'.cards : Was(j) \in DOMAIN list.cards /\ list'.cards[j] = list.cards[Was(j)]
    BY <1>2, <1>4
  <1>6. \A j, k \in DOMAIN list'.cards : Was(j) = Was(k) => j = k
    BY <1>1, <1>2, <1>4
  <1> HIDE DEF Was
  <1>7. NoteOfCards(list')
    <2>1. \A j, k \in DOMAIN list'.cards : list'.cards[j].title = list'.cards[k].title => j = k
      BY <1>5, <1>6 DEF NoteOfCards
    <2> QED  BY <1>3, <1>4, <2>1 DEF NoteOfCards
  <1>8. OthersKept(c)
    <2> SUFFICES ASSUME NEW d \in Card \ {c}, NEW j \in At(d)' PROVE Was(j) \in At(d) /\ list'.cards[j] = list.cards[Was(j)]
      BY DEF OthersKept
    <2>1. j \in DOMAIN list'.cards /\ list'.cards[j].title = d
      BY DEF At
    <2> QED  BY <1>5, <2>1 DEF At
  <1> QED  BY <1>7, <1>8

LEMMA ColumnWritten ==
  ASSUME NoteOfCards(list), NEW c \in Card, NEW S \in SUBSET At(c), NEW col \in Column,
         list' = Changes(MovedTo(S, col))
  PROVE  /\ NoteOfCards(list') /\ OthersKept(c)
         /\ At(c)' = At(c) /\ \A i \in S : ColumnOf(list'.cards[i]) = col
  <1> DEFINE new == MovedTo(S, col)
  <1>1. \A i \in S : list.cards[i] \in CardType /\ list.cards[i].title = c
    BY CardsAre DEF At
  <1>2. DOMAIN new = S
    BY DEF MovedTo
  <1>3. \A i \in S : /\ new[i] \in CardType /\ new[i].title = c
                     /\ new[i].done = (col = Done) /\ new[i].status = (IF col = Done THEN None ELSE col)
    BY <1>1 DEF MovedTo, CardType
  <1>4. col # None
    BY BoardAssumption
  <1>5. \A i \in S : ColumnOf(new[i]) = col
    BY <1>3, <1>4 DEF ColumnOf
  <1> HIDE DEF new
  <1>6. /\ NoteOfCards(list') /\ OthersKept(c) /\ At(c)' = At(c) /\ \A i \in S : list'.cards[i] = new[i]
    BY <1>2, <1>3, CardsChanged DEF new
  <1> QED  BY <1>5, <1>6

LEMMA TickWritten ==
  ASSUME NoteOfCards(list), NEW c \in Card, NEW S \in SUBSET At(c), list' = Changes(Ticked(S))
  PROVE  NoteOfCards(list') /\ OthersKept(c)
  <1> DEFINE new == Ticked(S)
  <1>1. \A i \in S : list.cards[i] \in CardType /\ list.cards[i].title = c
    BY CardsAre DEF At
  <1>2. DOMAIN new = S
    BY DEF Ticked
  <1>3. \A i \in S : new[i] \in CardType /\ new[i].title = c
    BY <1>1 DEF Ticked, CardType
  <1> HIDE DEF new
  <1> QED  BY <1>2, <1>3, CardsChanged DEF new

\* A step that sends nothing: the note changes at most in one card, for which
\* nothing is wished any more.
LEMMA ListStep ==
  ASSUME BoardInv, UNCHANGED <<moves, told>>, drag' \in Card \cup {None}, NoteOfCards(list'),
         \/ UNCHANGED <<list, wish>>
         \/ UNCHANGED wish /\ list'.cards = list.cards
         \/ \E c \in Card : wish' = [wish EXCEPT ![c] = None] /\ (OthersKept(c) \/ UNCHANGED list)
  PROVE  BoardInv'
  <1>1. DOMAIN wish' = Card /\ MovesInv'
    BY DEF BoardInv, MovesInv
  <1>2. ASSUME NEW d \in Card, wish'[d] = wish[d], Landed(d) => Landed(d)' PROVE WishInv(d)'
    <2>1. WishInv(d) /\ \A i : LastOf(d, i)' <=> LastOf(d, i)
      BY DEF BoardInv, LastOf
    <2> QED  BY <1>2, <2>1 DEF WishInv
  <1>3. CASE UNCHANGED wish /\ list'.cards = list.cards
    BY <1>1, <1>2, <1>3 DEF BoardInv, Landed, At, ColumnOf
  <1>4. ASSUME NEW c \in Card, wish' = [wish EXCEPT ![c] = None], OthersKept(c) \/ UNCHANGED list
        PROVE  \A d \in Card : WishInv(d)'
    <2> SUFFICES ASSUME NEW d \in Card PROVE WishInv(d)'
      OBVIOUS
    <2>1. CASE d = c
      BY <1>4, <2>1 DEF BoardInv, WishInv
    <2>2. CASE d # c
      <3>1. wish'[d] = wish[d]
        BY <1>4, <2>2 DEF BoardInv
      <3>2. Landed(d) => Landed(d)'
        BY <1>4, <2>2, <3>1 DEF OthersKept, Landed, At, ColumnOf
      <3> QED  BY <1>2, <3>1, <3>2
    <2> QED  BY <2>1, <2>2
  <1> QED  BY <1>1, <1>3, <1>4 DEF BoardInv

LEMMA OthersStep ==
  ASSUME BoardInv, OtherWrites \/ Reload \/ (\E c \in Card : DragStart(c) \/ \E col \in Column : OtherMoves(c, col))
                   \/ \E a \in calls : ReadAnswered(a) \/ TickDone(a)
  PROVE  BoardInv'
  <1>1. CASE OtherWrites
    <2>1. DOMAIN list' = DOMAIN list /\ list'.cards = list.cards
      BY <1>1 DEF OtherWrites, BoardInv, NoteOfCards
    <2>2. NoteOfCards(list')
      BY <2>1 DEF BoardInv, NoteOfCards
    <2> QED  BY <1>1, <2>1, <2>2, ListStep DEF OtherWrites, BoardInv
  <1>2. CASE Reload \/ \E a \in calls : ReadAnswered(a) \/ TickDone(a)
    <2>1. UNCHANGED <<list, drag, moves, wish, told>>
      BY <1>2 DEF Reload, ReadAnswered, TickDone
    <2> QED  BY <2>1, ListStep DEF BoardInv
  <1>3. ASSUME NEW c \in Card, DragStart(c) PROVE BoardInv'
    <2>1. UNCHANGED <<list, moves, wish, told>> /\ drag' = c
      BY <1>3 DEF DragStart
    <2> QED  BY <2>1, ListStep DEF BoardInv
  <1>4. ASSUME NEW c \in Card, NEW col \in Column, OtherMoves(c, col) PROVE BoardInv'
    <2>1. NoteOfCards(list') /\ OthersKept(c)
      BY <1>4, ColumnWritten DEF OtherMoves, BoardInv
    <2> QED  BY <1>4, <2>1, ListStep DEF OtherMoves, BoardInv
  <1> QED  BY <1>1, <1>2, <1>3, <1>4

LEMMA TickStep ==
  ASSUME BoardInv, NEW c \in Card, Tick(c) \/ Delete(c)
  PROVE  BoardInv'
  <1> DEFINE S == Meant(c, cards[c])
  <1>1. S \in SUBSET At(c)
    BY DEF Meant
  <1>2. UNCHANGED <<moves, told, drag>> /\ wish' = [wish EXCEPT ![c] = None]
    BY DEF Tick, Delete
  <1>3. CASE Tick(c)
    <2>1. list' = Changes(Ticked(S))
      BY <1>3 DEF Tick
    <2> HIDE DEF S
    <2>2. NoteOfCards(list') /\ OthersKept(c)
      BY <1>1, <2>1, TickWritten DEF BoardInv
    <2> QED  BY <1>2, <2>2, ListStep DEF BoardInv
  <1>4. CASE Delete(c)
    <2>1. list' = Without(S)
      BY <1>4 DEF Delete
    <2> HIDE DEF S
    <2>2. list' = list \/ \E i \in At(c) : list' = CutAt(i)
      BY <1>1, <2>1 DEF Without
    <2>3. CASE list' = list
      BY <1>2, <2>3, ListStep DEF BoardInv
    <2>4. ASSUME NEW i \in At(c), list' = CutAt(i) PROVE BoardInv'
      <3>1. NoteOfCards(list') /\ OthersKept(c)
        BY <2>4, CardCut DEF BoardInv
      <3> QED  BY <1>2, <3>1, ListStep DEF BoardInv
    <2> QED  BY <2>2, <2>3, <2>4
  <1> QED  BY <1>3, <1>4

LEMMA DragEndStep ==
  ASSUME BoardInv, NEW col \in Column, DragEnd(col)
  PROVE  BoardInv'
  <1> PICK c : c = drag
    OBVIOUS
  <1>1. c = drag /\ c \in Card /\ drag' = None /\ UNCHANGED list
    BY DEF DragEnd, BoardInv
  <1>2. CASE UNCHANGED <<moves, wish, told>>
    BY <1>1, <1>2, ListStep DEF BoardInv
  <1>3. CASE ~UNCHANGED <<moves, wish, told>>
    <2> DEFINE m == [card |-> c, shown |-> cards[c], to |-> col, at |-> "queued", reply |-> "none", got |-> None]
               n == Len(moves) + 1
    <2>1. moves' = Append(moves, m) /\ wish' = [wish EXCEPT ![c] = col] /\ told' = told \ {c}
      BY <1>1, <1>3 DEF DragEnd
    <2>2. /\ DOMAIN m = {"card", "shown", "to", "at", "reply", "got"} /\ m.card = c /\ m.to = col
          /\ m.at = "queued" /\ m.reply = "none"
      OBVIOUS
    <2> HIDE DEF m
    <2>3. /\ IsSequence(moves')
          /\ DOMAIN moves' = 1 .. n /\ moves'[n] = m /\ \A i \in DOMAIN moves : moves'[i] = moves[i]
      <3> DEFINE T == {moves[i] : i \in DOMAIN moves} \cup {m}
      <3>1. moves \in Seq(T) /\ m \in T
        <4>1. \A U, V : U \subseteq V => Seq(U) \subseteq Seq(V)
          BY SeqDef
        <4> QED  BY <4>1 DEF BoardInv, MovesInv, IsSequence
      <3> HIDE DEF T
      <3>2. moves' \in Seq(T) /\ Len(moves') = n /\ moves'[n] = m /\ \A i \in 1 .. Len(moves) : moves'[i] = moves[i]
        BY <2>1, <3>1, AppendProperties
      <3> QED  BY <3>2, SeqOfOwn, LenProperties, MovesAre DEF BoardInv
    <2>4. /\ Len(moves) \in Nat /\ DOMAIN moves = 1 .. Len(moves)
          /\ \A i \in DOMAIN moves' : i \in DOMAIN moves \/ i = n
      BY <2>3, MovesAre DEF BoardInv
    <2>5. MovesInv'
      BY <1>1, <2>2, <2>3, <2>4 DEF BoardInv, MovesInv
    <2>6. WishInv(c)'
      <3>1. wish'[c] = col
        BY <1>1, <2>1 DEF BoardInv
      <3>2. \A i \in DOMAIN moves' : LastOf(c, i)' => i = n
        <4>1. n \in DOMAIN moves' /\ moves'[n].card = c
          BY <2>2, <2>3, <2>4
        <4>2. \A i \in DOMAIN moves' : i <= n /\ i \in Nat
          BY <2>3, <2>4
        <4> QED  BY <1>1, <4>1, <4>2 DEF LastOf
      <3>3. ~\A i \in DOMAIN moves' : moves'[i].card = c => moves'[i].reply = "ok"
        BY <2>2, <2>3, <2>4
      <3> QED  BY <2>2, <2>3, <3>1, <3>2, <3>3 DEF WishInv
    <2>7. ASSUME NEW d \in Card, d # c PROVE WishInv(d)'
      <3>1. wish'[d] = wish[d] /\ (d \in told' <=> d \in told) /\ WishInv(d)
        BY <2>1, <2>7 DEF BoardInv
      <3>2. \A i \in DOMAIN moves' : moves'[i].card = d => i \in DOMAIN moves /\ moves'[i] = moves[i]
        BY <2>2, <2>3, <2>4, <2>7
      <3>3. \A i \in DOMAIN moves : i \in DOMAIN moves' /\ moves'[i] = moves[i]
        BY <2>3, <2>4
      <3>4. \A i \in DOMAIN moves' : LastOf(d, i)' => i \in DOMAIN moves /\ LastOf(d, i)
        BY <3>2, <3>3 DEF LastOf
      <3>5. Landed(d) => Landed(d)'
        BY <1>1, <3>1 DEF Landed, At, ColumnOf
      <3> QED  BY <3>1, <3>2, <3>3, <3>4, <3>5 DEF WishInv
    <2>8. \A d \in Card : WishInv(d)'
      <3> SUFFICES ASSUME NEW d \in Card PROVE WishInv(d)'
        OBVIOUS
      <3>1. CASE d = c
        BY <2>6, <3>1
      <3> QED  BY <2>7, <3>1
    <2> QED  BY <1>1, <2>1, <2>5, <2>8 DEF BoardInv
  <1> QED  BY <1>2, <1>3

\* What the running save does: it is sent or sent again, looked for, or over.
LEMMA MovesEdited ==
  ASSUME MovesInv, 1 \in DOMAIN moves, NEW p, moves' = [moves EXCEPT ![1] = p],
         DOMAIN p = {"card", "shown", "to", "at", "reply", "got"},
         p.card = moves[1].card, p.to = moves[1].to,
         p.at # "queued", p.at \in {"find", "revert"} => p.reply # "ok"
  PROVE  /\ MovesInv' /\ DOMAIN moves' = DOMAIN moves /\ moves'[1] = p
         /\ \A i \in DOMAIN moves : i # 1 => moves'[i] = moves[i]
         /\ \A d \in Card, i \in DOMAIN moves : LastOf(d, i)' <=> LastOf(d, i)
  <1> DEFINE T == {moves[i] : i \in DOMAIN moves} \cup {p}
  <1>1. moves \in Seq(T) /\ p \in T
    <2>1. \A U, V : U \subseteq V => Seq(U) \subseteq Seq(V)
      BY SeqDef
    <2> QED  BY <2>1 DEF MovesInv, IsSequence
  <1> HIDE DEF T
  <1>2. moves' \in Seq(T) /\ DOMAIN moves' = DOMAIN moves /\ moves'[1] = p
        /\ \A i \in DOMAIN moves : i # 1 => moves'[i] = moves[i]
    <2>1. moves' \in Seq(T)
      BY <1>1, ExceptSeq
    <2>2. moves' = [moves EXCEPT ![1] = p] /\ DOMAIN moves = 1 .. Len(moves)
      BY MovesAre
    <2> QED  BY <2>1, <2>2
  <1>3. IsSequence(moves')
    BY <1>2, SeqOfOwn
  <1>4. MovesInv'
    BY <1>2, <1>3 DEF MovesInv
  <1>5. \A i \in DOMAIN moves : moves'[i].card = moves[i].card
    BY <1>2
  <1>6. \A d \in Card, i \in DOMAIN moves : LastOf(d, i)' <=> LastOf(d, i)
    BY <1>2, <1>5 DEF LastOf
  <1> QED  BY <1>2, <1>4, <1>6

\* The first save is the only one that may be done.
LEMMA OnlyFirstDone ==
  ASSUME BoardInv, NEW d \in Card, NEW i \in DOMAIN moves, moves[i].card = d, i # 1
  PROVE  moves[i].reply # "ok"
  BY DEF BoardInv, MovesInv

LEMMA AsksStep ==
  ASSUME BoardInv, 1 \in DOMAIN moves, NEW shown, NEW stage \in {"sent", "again"},
         MoveAsks(1, shown, stage), moves[1].reply # "ok", UNCHANGED <<drag, wish, told>>
  PROVE  BoardInv'
  <1> PICK c : c = moves[1].card
    OBVIOUS
  <1> DEFINE S == Meant(c, shown)
  <1> PICK col : col = moves[1].to
    OBVIOUS
  <1>1. c = moves[1].card /\ c \in Card /\ col = moves[1].to /\ col \in Column /\ DOMAIN moves[1] = {"card", "shown", "to", "at", "reply", "got"}
        /\ S \in SUBSET At(c)
    BY DEF BoardInv, MovesInv, Meant
  <1>2. PICK r \in {"ok", "conflict", "failed"} :
          /\ moves' = [moves EXCEPT ![1].at = stage, ![1].reply = r]
          /\ \/ UNCHANGED list /\ r = "failed"
             \/ list' = Changes(MovedTo(S, col)) /\ r = (IF S = {} THEN "conflict" ELSE "ok")
    BY <1>1 DEF MoveAsks
  <1> HIDE DEF S
  <1> DEFINE p == [moves[1] EXCEPT !.at = stage, !.reply = r]
  <1>3. /\ DOMAIN p = DOMAIN moves[1] /\ p.card = c /\ p.to = moves[1].to /\ p.at = stage /\ p.reply = r
        /\ moves' = [moves EXCEPT ![1] = p]
    BY <1>1, <1>2
  <1> HIDE DEF p
  <1>4. /\ MovesInv' /\ DOMAIN moves' = DOMAIN moves /\ moves'[1] = p
        /\ \A i \in DOMAIN moves : i # 1 => moves'[i] = moves[i]
        /\ \A d \in Card, i \in DOMAIN moves : LastOf(d, i)' <=> LastOf(d, i)
    BY <1>1, <1>3, MovesEdited DEF BoardInv
  <1>5. NoteOfCards(list') /\ (OthersKept(c) \/ UNCHANGED list)
    BY <1>1, <1>2, ColumnWritten DEF BoardInv
  <1>6. r = "ok" => \A i \in At(c)' : ColumnOf(list'.cards[i]) = col
    <2> SUFFICES ASSUME r = "ok" PROVE \A i \in At(c)' : ColumnOf(list'.cards[i]) = col
      OBVIOUS
    <2>1. list' = Changes(MovedTo(S, col)) /\ S # {}
      BY <1>2
    <2>2. At(c)' = At(c) /\ \A i \in S : ColumnOf(list'.cards[i]) = col
      BY <1>1, <2>1, ColumnWritten DEF BoardInv
    <2>3. At(c) = S
      BY <1>1, <2>1 DEF At, BoardInv, NoteOfCards
    <2> QED  BY <2>2, <2>3
  <1>7. ASSUME NEW d \in Card PROVE WishInv(d)'
    <2>1. WishInv(d)
      BY DEF BoardInv
    <2>2. \A i \in DOMAIN moves' : moves'[i].card = moves[i].card /\ moves'[i].to = moves[i].to
      BY <1>3, <1>4
    <2> SUFFICES ASSUME wish[d] # None, d \notin told, \A i \in DOMAIN moves : moves'[i].card = d => moves'[i].reply = "ok"
                 PROVE  Landed(d)'
      BY <1>4, <2>1, <2>2 DEF WishInv
    <2>3. \A i \in DOMAIN moves : moves[i].card = d => i = 1
      BY <1>4, <2>2, OnlyFirstDone
    <2>4. CASE d = c
      <3>1. r = "ok"
        BY <1>1, <1>3, <1>4, <2>2, <2>4
      <3>2. LastOf(d, 1)
        BY <1>1, <2>3, <2>4 DEF LastOf
      <3>3. col = wish[d]
        BY <1>1, <2>1, <3>2 DEF WishInv
      <3> QED  BY <1>6, <2>4, <3>1, <3>3 DEF Landed
    <2>5. CASE d # c
      <3>1. Landed(d)
        BY <1>1, <2>1, <2>3, <2>5 DEF WishInv
      <3> QED  BY <1>5, <2>5, <3>1 DEF OthersKept, Landed, At, ColumnOf
    <2> QED  BY <2>4, <2>5
  <1> QED  BY <1>4, <1>5, <1>7 DEF BoardInv

\* A refused save goes on to look for the card, or to tell.
LEMMA LooksStep ==
  ASSUME BoardInv, 1 \in DOMAIN moves, moves[1].reply # "ok", NEW stage \in {"find", "revert"}, NEW g,
         moves' = [moves EXCEPT ![1].at = stage, ![1].got = g], UNCHANGED <<list, drag, wish, told>>
  PROVE  BoardInv'
  <1> DEFINE p == [moves[1] EXCEPT !.at = stage, !.got = g]
  <1>1. DOMAIN moves[1] = {"card", "shown", "to", "at", "reply", "got"}
    BY DEF BoardInv, MovesInv
  <1>2. /\ DOMAIN p = DOMAIN moves[1] /\ p.card = moves[1].card /\ p.to = moves[1].to /\ p.at = stage
        /\ p.reply = moves[1].reply /\ moves' = [moves EXCEPT ![1] = p]
    BY <1>1
  <1> HIDE DEF p
  <1>3. /\ MovesInv' /\ DOMAIN moves' = DOMAIN moves /\ moves'[1] = p
        /\ \A i \in DOMAIN moves : i # 1 => moves'[i] = moves[i]
        /\ \A d \in Card, i \in DOMAIN moves : LastOf(d, i)' <=> LastOf(d, i)
    BY <1>1, <1>2, MovesEdited DEF BoardInv
  <1>4. \A i \in DOMAIN moves : /\ moves'[i].card = moves[i].card /\ moves'[i].to = moves[i].to
                                /\ moves'[i].reply = moves[i].reply
    BY <1>2, <1>3
  <1>5. \A d \in Card : Landed(d)' <=> Landed(d)
    BY DEF Landed, At, ColumnOf
  <1>6. \A d \in Card : WishInv(d)'
    BY <1>3, <1>4, <1>5 DEF BoardInv, WishInv
  <1> QED  BY <1>3, <1>6 DEF BoardInv

\* A save that is over was done, or the board says that it was not.
LEMMA OverStep ==
  ASSUME BoardInv, 1 \in DOMAIN moves, Over(1), UNCHANGED <<list, drag, wish>>,
         \/ moves[1].reply = "ok" /\ told' = told
         \/ told' = told \cup {moves[1].card}
  PROVE  BoardInv'
  <1> DEFINE T == {moves[i] : i \in DOMAIN moves}
  <1>1. moves \in Seq(T) /\ 1 \in DOMAIN moves
    BY DEF BoardInv, MovesInv, IsSequence
  <1>2. Len(moves) \in Nat /\ DOMAIN moves = 1 .. Len(moves)
    BY MovesAre DEF BoardInv
  <1>3. /\ moves' \in Seq(T) /\ DOMAIN moves' = 1 .. Len(moves) - 1
        /\ \A i \in DOMAIN moves' : i \in Nat /\ moves'[i] = IF i < 1 THEN moves[i] ELSE moves[i + 1]
    <2> HIDE DEF T
    <2>1. moves' = [j \in 1 .. Len(moves) - 1 |-> IF j < 1 THEN moves[j] ELSE moves[j + 1]]
      BY DEF Over
    <2> QED  BY <1>1, <2>1, WithoutOne
  <1> HIDE DEF T
  <1>4. \A i \in DOMAIN moves' : i + 1 \in DOMAIN moves /\ i + 1 # 1 /\ moves'[i] = moves[i + 1]
    BY <1>2, <1>3
  <1>5. \A i \in DOMAIN moves : i # 1 => i - 1 \in DOMAIN moves' /\ moves'[i - 1] = moves[i] /\ i \in Nat
    BY <1>2, <1>3
  <1>6. MovesInv'
    <2>1. IsSequence(moves')
      BY <1>3, SeqOfOwn
    <2>2. \A i \in DOMAIN moves :
            /\ DOMAIN moves[i] = {"card", "shown", "to", "at", "reply", "got"}
            /\ moves[i].card \in Card /\ moves[i].to \in Column
            /\ i # 1 => moves[i].reply = "none"
      BY DEF BoardInv, MovesInv
    <2> QED  BY <1>4, <2>1, <2>2 DEF MovesInv
  <1>7. ASSUME NEW d \in Card PROVE WishInv(d)'
    <2> SUFFICES ASSUME wish[d] # None, d \notin told'
                 PROVE  /\ \A i \in DOMAIN moves' : LastOf(d, i)' => moves'[i].to = wish[d]
                        /\ (\A i \in DOMAIN moves' : moves'[i].card = d => moves'[i].reply = "ok") => Landed(d)'
      BY DEF BoardInv, WishInv
    <2>1. d \notin told /\ (moves[1].card = d => moves[1].reply = "ok")
      OBVIOUS
    <2>2. WishInv(d)
      BY DEF BoardInv
    <2>3. ASSUME NEW i \in DOMAIN moves', LastOf(d, i)' PROVE moves'[i].to = wish[d]
      <3>1. i + 1 \in DOMAIN moves /\ moves'[i] = moves[i + 1] /\ i \in Nat
        BY <1>3, <1>4
      <3>2. ASSUME NEW j \in DOMAIN moves, moves[j].card = d PROVE j <= i + 1
        <4>1. CASE j = 1
          BY <3>1, <4>1
        <4>2. CASE j # 1
          <5>1. j - 1 \in DOMAIN moves' /\ moves'[j - 1].card = d /\ j \in Nat
            BY <1>5, <3>2, <4>2
          <5>2. j - 1 <= i
            BY <2>3, <5>1 DEF LastOf
          <5> QED  BY <3>1, <5>1, <5>2
        <4> QED  BY <4>1, <4>2
      <3>3. LastOf(d, i + 1)
        BY <2>3, <3>1, <3>2 DEF LastOf
      <3> QED  BY <2>1, <2>2, <3>1, <3>3 DEF WishInv
    <2>4. ASSUME \A i \in DOMAIN moves' : moves'[i].card = d => moves'[i].reply = "ok" PROVE Landed(d)'
      <3>1. \A i \in DOMAIN moves : moves[i].card = d => moves[i].reply = "ok"
        BY <1>5, <2>1, <2>4
      <3>2. Landed(d)
        BY <2>1, <2>2, <3>1 DEF WishInv
      <3> QED  BY <3>2 DEF Landed, At, ColumnOf
    <2> QED  BY <2>3, <2>4
  <1> QED  BY <1>6, <1>7 DEF BoardInv

LEMMA MoveStep ==
  ASSUME BoardInv, NEW i \in Running, MoveSent(i) \/ MoveAnswered(i) \/ MoveFound(i) \/ MoveReverted(i)
  PROVE  BoardInv'
  <1>1. i = 1 /\ 1 \in DOMAIN moves
    BY DEF Running
  <1>2. /\ moves[1].at = "queued" => moves[1].reply # "ok"
        /\ moves[1].at \in {"find", "revert"} => moves[1].reply # "ok"
    BY <1>1 DEF BoardInv, MovesInv
  <1>3. CASE MoveSent(1)
    BY <1>1, <1>2, <1>3, AsksStep DEF MoveSent
  <1>4. CASE MoveAnswered(1)
    <2>1. CASE moves[1].reply = "ok"
      BY <1>1, <1>4, <2>1, OverStep DEF MoveAnswered
    <2>2. CASE moves[1].reply # "ok"
      <3>1. moves' = [moves EXCEPT ![1].at = Refused(1), ![1].got = Listed] /\ Refused(1) \in {"find", "revert"}
        BY <1>4, <2>2 DEF MoveAnswered, Refused
      <3>2. UNCHANGED <<list, drag, wish, told>>
        BY <1>4 DEF MoveAnswered
      <3> QED  BY <1>1, <2>2, <3>1, <3>2, LooksStep
    <2> QED  BY <2>1, <2>2
  <1>5. CASE MoveFound(1)
    <2>1. moves[1].reply # "ok" /\ UNCHANGED <<drag, wish, told>>
      BY <1>2, <1>5 DEF MoveFound
    <2>2. CASE Relocated(1)
      BY <1>1, <1>5, <2>1, <2>2, AsksStep DEF MoveFound
    <2>3. CASE ~Relocated(1)
      <3>1. moves' = [moves EXCEPT ![1].at = "revert", ![1].got = Listed] /\ UNCHANGED list
        BY <1>5, <2>3 DEF MoveFound
      <3> QED  BY <1>1, <2>1, <3>1, LooksStep
    <2> QED  BY <2>2, <2>3
  <1>6. CASE MoveReverted(1)
    BY <1>1, <1>6, OverStep DEF MoveReverted
  <1> QED  BY <1>1, <1>3, <1>4, <1>5, <1>6

\* For any cards and columns, any number of drops, and whatever the server, the
\* others of the note and the reads of the board do in between: once the saves
\* are through, every card is where it was dropped last, or gone, or moved or
\* ticked since, or the board said that the drop was not saved.
THEOREM BoardDropsLand == Spec => []DropsLand
  <1>1. BoardInv /\ [Next]_vars => BoardInv'
    <2> SUFFICES ASSUME BoardInv, [Next]_vars PROVE BoardInv'
      OBVIOUS
    <2>1. CASE BoardNext
      BY <2>1, OthersStep, TickStep, DragEndStep, MoveStep DEF BoardNext
    <2>2. CASE UNCHANGED boardVars
      BY <2>2, ListStep DEF boardVars, BoardInv
    <2> QED  BY <2>1, <2>2, BoardSteps
  <1>2. BoardInv => DropsLand
    <2> SUFFICES ASSUME BoardInv, moves = <<>>, NEW c \in Card, wish[c] # None, c \notin told PROVE Landed(c)
      BY DEF DropsLand, Landed
    <2>1. DOMAIN moves = {}
      BY EmptySeq, MovesAre DEF BoardInv
    <2> QED  BY <2>1 DEF BoardInv, WishInv
  <1> QED  BY <1>1, <1>2, BoardInvInit, PTL DEF Spec

-----------------------------------------------------------------------------
(* Drawings: nothing refers to what is not there, and no stroke is lost.   *)

LEMMA DrawSteps == ASSUME [Next]_vars PROVE DrawNext \/ UNCHANGED drawVars
  BY DEF Next, PageNext, ToolNext, RestNext, vars, toolVars

ElementType ==
  [type : {"shape", "arrow", "text"}, id : Nat \ {0}, ends : SUBSET Nat, on : Nat, bound : SUBSET Nat]

\* Ids are numbers that were taken, each for one element.
IdsInv(S, n) ==
  /\ S \subseteq ElementType
  /\ \A e \in S : e.id <= n
  /\ \A e, f \in S : e.id = f.id => e = f

KindsInv(S) ==
  \A e \in S : /\ e.type # "arrow" => e.ends = {}
               /\ e.type # "text" => e.on = 0

\* An arrow ends at shapes that know it, a label is on something else that knows
\* it, and what is bound is a label or an arrow of its own.
EndsInv(e, S)  == \A i \in e.ends : \E s \in S : s.id = i /\ s.type = "shape" /\ e.id \in s.bound
OnInv(e, S)    == e.on # 0 => \E c \in S : c.id = e.on /\ c.type # "text" /\ e.id \in c.bound
BoundInv(e, S) == \A i \in e.bound : \E x \in S : x.id = i /\ (x.on = e.id \/ e.id \in x.ends)
RefsInv(N, S)  == \A e \in N : EndsInv(e, S) /\ OnInv(e, S) /\ BoundInv(e, S)

WholeInv(S, n) == IdsInv(S, n) /\ KindsInv(S) /\ RefsInv(S, S)

LEMMA WholeIs ==
  ASSUME NEW n, WholeInv(scene, n)
  PROVE  SceneWhole
  <1> USE DEF WholeInv, IdsInv, KindsInv, RefsInv
  <1> DEFINE Id == {e.id : e \in scene}
  <1> SUFFICES ASSUME NEW e \in scene
               PROVE  /\ e.bound \cup e.ends \subseteq Id
                      /\ e.on # 0 => \E c \in scene : c.id = e.on /\ e.id \in c.bound
                      /\ \A s \in scene : s.id \in e.ends => e.id \in s.bound
    BY DEF SceneWhole
  <1>1. e.bound \cup e.ends \subseteq Id
    BY DEF EndsInv, BoundInv
  <1>2. e.on # 0 => \E c \in scene : c.id = e.on /\ e.id \in c.bound
    BY DEF OnInv
  <1>3. \A s \in scene : s.id \in e.ends => e.id \in s.bound
    BY DEF EndsInv
  <1> QED  BY <1>1, <1>2, <1>3

LEMMA WholeLater ==
  ASSUME NEW S, NEW n \in Nat, NEW m \in Nat, n <= m, WholeInv(S, n)
  PROVE  WholeInv(S, m)
  <1>1. \A e \in S : e.id \in Nat
    BY DEF WholeInv, IdsInv, ElementType
  <1> QED  BY <1>1 DEF WholeInv, IdsInv

\* What a function makes of a scene, and the ids of one.
Made(B, S) == {B[e] : e \in S}
IdsOf(S)   == {e.id : e \in S}

Like(y, x) == y.type = x.type /\ y.id = x.id /\ y.ends = x.ends /\ y.on = x.on

\* Nothing but what an element knows is changed; it learns of new elements, or
\* forgets those that go.
Same(B, S)      == \A e \in S : B[e] \in ElementType /\ Like(B[e], e)
Grown(B, S, N)  == \A e \in S :
                     /\ e.bound \subseteq B[e].bound
                     /\ \A i \in B[e].bound \ e.bound : \E x \in N : x.id = i /\ (x.on = e.id \/ e.id \in x.ends)
Shrunk(C, S, G) == \A e \in S : C[e].bound = e.bound \ IdsOf(G)

\* New elements have ids that were just taken; those that go, nobody else needs.
NewIds(N, n, m) == /\ N \subseteq ElementType
                   /\ \A x \in N : n < x.id /\ x.id <= m
                   /\ \A x, y \in N : x.id = y.id => x = y
NotNeeded(S, G) == \A e \in S, g \in G : g.id # e.on /\ (g.type = "shape" => g.id \notin e.ends)

\* New elements are added, and some of the others know them.
LEMMA PartsAdded ==
  ASSUME NEW S, NEW n \in Nat, NEW m \in Nat, n <= m, WholeInv(S, n),
         NEW B, NEW N, NEW T, T = Made(B, S) \cup N,
         Same(B, S), Grown(B, S, N), NewIds(N, n, m), KindsInv(N), RefsInv(N, T)
  PROVE  WholeInv(T, m)
  <1>1. \A e \in S : e \in ElementType /\ e.id \in Nat /\ e.id <= n
    BY DEF WholeInv, IdsInv, ElementType
  <1>2. \A x \in N : x.id \in Nat /\ n < x.id /\ x.id <= m
    BY DEF ElementType, NewIds
  <1>3. \A y \in T : y \in N \/ \E e \in S : y = B[e]
    BY DEF Made
  <1>4. \A e \in S : B[e] \in T /\ B[e].id = e.id
    BY DEF Same, Like, Made
  <1>5. IdsInv(T, m)
    <2>1. T \subseteq ElementType
      BY <1>3 DEF Same, NewIds
    <2>2. \A y \in T : y.id <= m
      BY <1>1, <1>2, <1>3, <1>4
    <2>3. ASSUME NEW y \in T, NEW z \in T, y.id = z.id PROVE y = z
      <3>1. CASE y \in N /\ z \in N
        BY <2>3, <3>1 DEF NewIds
      <3>2. ASSUME NEW e \in S, NEW f \in S, y = B[e], z = B[f] PROVE y = z
        <4>1. e.id = f.id
          BY <1>4, <2>3, <3>2
        <4>2. e = f
          BY <4>1 DEF WholeInv, IdsInv
        <4> QED  BY <3>2, <4>2
      <3>3. ASSUME NEW e \in S, NEW x \in N PROVE B[e].id # x.id
        BY <1>1, <1>2, <1>4
      <3> QED  BY <1>3, <2>3, <3>1, <3>2, <3>3
    <2> QED  BY <2>1, <2>2, <2>3 DEF IdsInv
  <1>6. KindsInv(T)
    <2>1. \A e \in S : Like(B[e], e) /\ (e.type # "arrow" => e.ends = {}) /\ (e.type # "text" => e.on = 0)
      BY DEF WholeInv, KindsInv, Same
    <2> QED  BY <1>3, <2>1 DEF KindsInv, Like
  <1>7. ASSUME NEW e \in S PROVE EndsInv(B[e], T) /\ OnInv(B[e], T) /\ BoundInv(B[e], T)
    <2>1. EndsInv(e, S) /\ OnInv(e, S) /\ BoundInv(e, S) /\ Like(B[e], e)
      BY DEF WholeInv, RefsInv, Same
    <2>2. EndsInv(B[e], T)
      <3> SUFFICES ASSUME NEW i \in e.ends PROVE \E s \in T : s.id = i /\ s.type = "shape" /\ e.id \in s.bound
        BY <2>1 DEF EndsInv, Like
      <3>1. PICK s \in S : s.id = i /\ s.type = "shape" /\ e.id \in s.bound
        BY <2>1 DEF EndsInv
      <3>2. B[s] \in T /\ B[s].id = i /\ B[s].type = "shape" /\ e.id \in B[s].bound
        BY <1>4, <3>1 DEF Same, Grown, Like
      <3> QED  BY <3>2
    <2>3. OnInv(B[e], T)
      <3> SUFFICES ASSUME e.on # 0 PROVE \E c \in T : c.id = e.on /\ c.type # "text" /\ e.id \in c.bound
        BY <2>1 DEF OnInv, Like
      <3>1. PICK c \in S : c.id = e.on /\ c.type # "text" /\ e.id \in c.bound
        BY <2>1 DEF OnInv
      <3>2. B[c] \in T /\ B[c].id = e.on /\ B[c].type # "text" /\ e.id \in B[c].bound
        BY <1>4, <3>1 DEF Same, Grown, Like
      <3> QED  BY <3>2
    <2>4. BoundInv(B[e], T)
      <3> SUFFICES ASSUME NEW i \in B[e].bound PROVE \E x \in T : x.id = i /\ (x.on = e.id \/ e.id \in x.ends)
        BY <2>1 DEF BoundInv, Like
      <3>1. CASE i \in e.bound
        <4>1. PICK x \in S : x.id = i /\ (x.on = e.id \/ e.id \in x.ends)
          BY <2>1, <3>1 DEF BoundInv
        <4>2. B[x] \in T /\ B[x].id = i /\ (B[x].on = e.id \/ e.id \in B[x].ends)
          BY <1>4, <4>1 DEF Same, Like
        <4> QED  BY <4>2
      <3>2. CASE i \notin e.bound
        BY <3>2 DEF Grown
      <3> QED  BY <3>1, <3>2
    <2> QED  BY <2>2, <2>3, <2>4
  <1>8. RefsInv(T, T)
    BY <1>3, <1>7 DEF RefsInv
  <1> QED  BY <1>5, <1>6, <1>8 DEF WholeInv

\* Elements go that nothing else needs, and nothing else knows them any more.
LEMMA PartsCut ==
  ASSUME NEW S, NEW n, WholeInv(S, n), NEW G \in SUBSET S, NEW C, NEW T, NEW R, R = S \ G, T = Made(C, R),
         Same(C, R), Shrunk(C, R, G), NotNeeded(R, G)
  PROVE  WholeInv(T, n)
  <1>1. \A y \in T : \E e \in R : y = C[e]
    BY DEF Made
  <1>2. \A e \in R : C[e] \in T /\ C[e].id = e.id /\ e \in S
    BY DEF Same, Like, Made
  <1>3. \A e \in R : e.id \notin IdsOf(G)
    BY <1>2 DEF WholeInv, IdsInv, IdsOf
  <1>4. IdsInv(T, n)
    <2>1. T \subseteq ElementType
      BY <1>1 DEF Same
    <2>2. ASSUME NEW y \in T PROVE y.id <= n
      <3>1. PICK e \in R : y = C[e]
        BY <1>1
      <3>2. y.id = e.id /\ e \in S
        BY <1>2, <3>1
      <3>3. e.id <= n
        BY <3>2 DEF WholeInv, IdsInv
      <3> QED  BY <3>2, <3>3
    <2>3. ASSUME NEW y \in T, NEW z \in T, y.id = z.id PROVE y = z
      <3>1. PICK e \in R : y = C[e]
        BY <1>1
      <3>2. PICK f \in R : z = C[f]
        BY <1>1
      <3>3. e.id = f.id /\ e \in S /\ f \in S
        BY <1>2, <2>3, <3>1, <3>2
      <3>4. e = f
        BY <3>3 DEF WholeInv, IdsInv
      <3> QED  BY <3>1, <3>2, <3>4
    <2> QED  BY <2>1, <2>2, <2>3 DEF IdsInv
  <1>5. KindsInv(T)
    <2>1. \A e \in R : Like(C[e], e) /\ (e.type # "arrow" => e.ends = {}) /\ (e.type # "text" => e.on = 0)
      BY <1>2 DEF WholeInv, KindsInv, Same
    <2> SUFFICES ASSUME NEW y \in T PROVE (y.type # "arrow" => y.ends = {}) /\ (y.type # "text" => y.on = 0)
      BY DEF KindsInv
    <2>2. PICK e \in R : y = C[e]
      BY <1>1
    <2>3. y.type = e.type /\ y.ends = e.ends /\ y.on = e.on
      BY <2>1, <2>2 DEF Like
    <2> QED  BY <2>1, <2>3
  <1>6. ASSUME NEW e \in R PROVE EndsInv(C[e], T) /\ OnInv(C[e], T) /\ BoundInv(C[e], T)
    <2>1. EndsInv(e, S) /\ OnInv(e, S) /\ BoundInv(e, S) /\ Like(C[e], e)
      BY <1>2 DEF WholeInv, RefsInv, Same
    <2>2. EndsInv(C[e], T)
      <3> SUFFICES ASSUME NEW i \in e.ends PROVE \E s \in T : s.id = i /\ s.type = "shape" /\ e.id \in s.bound
        BY <2>1 DEF EndsInv, Like
      <3>1. PICK s \in S : s.id = i /\ s.type = "shape" /\ e.id \in s.bound
        BY <2>1 DEF EndsInv
      <3>2. s \in R
        BY <3>1 DEF NotNeeded
      <3>3. C[s] \in T /\ C[s].id = i /\ C[s].type = "shape" /\ e.id \in C[s].bound
        BY <1>2, <1>3, <3>1, <3>2 DEF Same, Shrunk, Like
      <3> QED  BY <3>3
    <2>3. OnInv(C[e], T)
      <3> SUFFICES ASSUME e.on # 0 PROVE \E c \in T : c.id = e.on /\ c.type # "text" /\ e.id \in c.bound
        BY <2>1 DEF OnInv, Like
      <3>1. PICK c \in S : c.id = e.on /\ c.type # "text" /\ e.id \in c.bound
        BY <2>1 DEF OnInv
      <3>2. c \in R
        BY <3>1 DEF NotNeeded
      <3>3. C[c] \in T /\ C[c].id = e.on /\ C[c].type # "text" /\ e.id \in C[c].bound
        BY <1>2, <1>3, <3>1, <3>2 DEF Same, Shrunk, Like
      <3> QED  BY <3>3
    <2>4. BoundInv(C[e], T)
      <3> SUFFICES ASSUME NEW i \in e.bound, i \notin IdsOf(G)
                   PROVE  \E x \in T : x.id = i /\ (x.on = e.id \/ e.id \in x.ends)
        <4>1. C[e].bound = e.bound \ IdsOf(G) /\ C[e].id = e.id
          BY <2>1 DEF Shrunk, Like
        <4>2. \A i \in C[e].bound : i \in e.bound /\ i \notin IdsOf(G)
          BY <4>1
        <4> QED  BY <4>1, <4>2 DEF BoundInv
      <3>1. PICK x \in S : x.id = i /\ (x.on = e.id \/ e.id \in x.ends)
        BY <2>1 DEF BoundInv
      <3>2. x \in R
        BY <3>1 DEF IdsOf
      <3>3. C[x] \in T /\ C[x].id = i /\ (C[x].on = e.id \/ e.id \in C[x].ends)
        BY <1>2, <3>1, <3>2 DEF Same, Shrunk, Like
      <3> QED  BY <3>3
    <2> QED  BY <2>2, <2>3, <2>4
  <1>7. RefsInv(T, T)
    BY <1>1, <1>6 DEF RefsInv
  <1> QED  BY <1>4, <1>5, <1>7 DEF WholeInv

\* An element of N goes by id and is attached to what goes by an id in on; Bind
\* tells those of it and leaves everything else alone.
Hangs(id, on, N) == \E x \in N : id = x.id /\ id \in Nat /\ on \subseteq {x.on} \cup x.ends
BindsWell(S, on, id, N) ==
  \E B : /\ Bind(S, on, id) = Made(B, S) /\ Same(B, S) /\ Grown(B, S, N)
         /\ \A e \in S : e.id \in on => id \in B[e].bound

LEMMA BindIs ==
  ASSUME NEW S \in SUBSET ElementType, NEW N, NEW on, NEW id, Hangs(id, on, N)
  PROVE  BindsWell(S, on, id, N)
  <1>0. PICK x \in N : id = x.id /\ id \in Nat /\ on \subseteq {x.on} \cup x.ends
    BY DEF Hangs
  <1> DEFINE B == [e \in S |-> IF e.id \in on THEN [e EXCEPT !.bound = @ \cup {id}] ELSE e]
  <1>1. Bind(S, on, id) = Made(B, S)
    BY DEF Bind, Made
  <1>2. ASSUME NEW e \in S
        PROVE  /\ B[e] \in ElementType /\ Like(B[e], e)
               /\ B[e].bound = IF e.id \in on THEN e.bound \cup {id} ELSE e.bound
    <2>1. e \in ElementType
      OBVIOUS
    <2>2. CASE e.id \in on
      <3>1. B[e] = [e EXCEPT !.bound = e.bound \cup {id}]
        BY <2>2
      <3> HIDE DEF B
      <3> QED  BY <1>0, <2>1, <2>2, <3>1 DEF ElementType, Like
    <2>3. CASE e.id \notin on
      <3>1. B[e] = e
        BY <2>3
      <3> HIDE DEF B
      <3> QED  BY <2>1, <2>3, <3>1 DEF Like
    <2> QED  BY <2>2, <2>3
  <1> HIDE DEF B
  <1>3. Same(B, S)
    BY <1>2 DEF Same
  <1>4. Grown(B, S, N)
    <2> SUFFICES ASSUME NEW e \in S
                 PROVE  /\ e.bound \subseteq B[e].bound
                        /\ \A i \in B[e].bound \ e.bound : i = x.id /\ (x.on = e.id \/ e.id \in x.ends)
      BY <1>0 DEF Grown
    <2> QED  BY <1>0, <1>2
  <1>5. \A e \in S : e.id \in on => id \in B[e].bound
    BY <1>2
  <1> QED  BY <1>1, <1>3, <1>4, <1>5 DEF BindsWell

LEMMA CompileWhole ==
  ASSUME NEW S, NEW n \in Nat, n = lastId, WholeInv(S, n), NEW from
  PROVE  WholeInv(CompileDiagram(S, from), n + 4)
  <1> DEFINE s == Shape(n + 1, {n + 2})
             t == Label(n + 2, n + 1)
             U == S \cup {s, t}
             a == Arrow(n + 3, {from, n + 1}, {n + 4})
             l == Label(n + 4, n + 3)
             W == Bind(U, {from, n + 1}, n + 3) \cup {a, l}
  <1>1. /\ s \in ElementType /\ s.type = "shape" /\ s.id = n + 1 /\ s.ends = {} /\ s.on = 0 /\ s.bound = {n + 2}
        /\ t \in ElementType /\ t.type = "text" /\ t.id = n + 2 /\ t.ends = {} /\ t.on = n + 1 /\ t.bound = {}
    BY DEF Shape, Label, ElementType
  <1>2. /\ a.type = "arrow" /\ a.id = n + 3 /\ a.ends = {from, n + 1} /\ a.on = 0 /\ a.bound = {n + 4}
        /\ from \in Nat => a \in ElementType
        /\ l \in ElementType /\ l.type = "text" /\ l.id = n + 4 /\ l.ends = {} /\ l.on = n + 3 /\ l.bound = {}
    BY DEF Arrow, Label, ElementType
  <1>3. CompileDiagram(S, from) = IF \E e \in Shapes(S) : e.id = from THEN W ELSE U
    BY <1>1 DEF CompileDiagram
  <1> HIDE DEF s, t, a, l
  <1>4. WholeInv(U, n + 2)
    <2> DEFINE B == [e \in S |-> e]
               N == {s, t}
    <2>1. S \subseteq ElementType
      BY DEF WholeInv, IdsInv
    <2>2. U = Made(B, S) \cup N
      BY DEF Made
    <2>3. Same(B, S) /\ Grown(B, S, N)
      BY <2>1 DEF Same, Grown, Like
    <2>4. NewIds(N, n, n + 2) /\ KindsInv(N)
      BY <1>1 DEF NewIds, KindsInv
    <2>5. s \in U /\ t \in U
      OBVIOUS
    <2> HIDE DEF U, B
    <2>6. RefsInv(N, U)
      BY <1>1, <2>5 DEF RefsInv, EndsInv, OnInv, BoundInv
    <2> HIDE DEF N
    <2> QED  BY <2>2, <2>3, <2>4, <2>6, PartsAdded
  <1>5. CASE ~\E e \in Shapes(S) : e.id = from
    BY <1>3, <1>4, <1>5, WholeLater
  <1>6. CASE \E e \in Shapes(S) : e.id = from
    <2> DEFINE N == {a, l}
    <2>1. PICK h \in S : h.type = "shape" /\ h.id = from
      BY <1>6 DEF Shapes
    <2>2. h \in U /\ s \in U /\ a \in N /\ l \in N
      BY <2>1
    <2> HIDE DEF U
    <2>3. U \in SUBSET ElementType /\ from \in Nat
      BY <1>4, <2>1, <2>2 DEF WholeInv, IdsInv, ElementType
    <2>4. NewIds(N, n + 2, n + 4) /\ KindsInv(N)
      BY <1>2, <2>3 DEF NewIds, KindsInv
    <2> HIDE DEF N
    <2>5. PICK B : /\ Bind(U, {from, n + 1}, n + 3) = Made(B, U) /\ Same(B, U) /\ Grown(B, U, N)
                   /\ \A e \in U : e.id \in {from, n + 1} => n + 3 \in B[e].bound
      <3>1. {from, n + 1} \subseteq {a.on} \cup a.ends /\ n + 3 = a.id /\ a.id \in Nat
        BY <1>2
      <3>2. Hangs(n + 3, {from, n + 1}, N)
        BY <2>2, <3>1 DEF Hangs
      <3>3. BindsWell(U, {from, n + 1}, n + 3, N)
        BY <2>3, <3>2, BindIs
      <3> QED  BY <3>3 DEF BindsWell
    <2>6. /\ B[h] \in W /\ B[h].id = from /\ B[h].type = "shape" /\ n + 3 \in B[h].bound
          /\ B[s] \in W /\ B[s].id = n + 1 /\ B[s].type = "shape" /\ n + 3 \in B[s].bound
      <3>1. B[h] \in Made(B, U) /\ B[s] \in Made(B, U)
        BY <2>2 DEF Made
      <3>2. Like(B[h], h) /\ Like(B[s], s)
        BY <2>2, <2>5 DEF Same
      <3> QED  BY <1>1, <2>1, <2>2, <2>5, <3>1, <3>2 DEF Like
    <2>7. a \in W /\ l \in W /\ W = Made(B, U) \cup N
      BY <2>5 DEF N
    <2> HIDE DEF W
    <2>8. RefsInv({a, l}, W)
      <3>1. EndsInv(a, W) /\ OnInv(a, W) /\ BoundInv(a, W)
        BY <1>2, <2>6, <2>7 DEF EndsInv, OnInv, BoundInv
      <3>2. EndsInv(l, W) /\ OnInv(l, W) /\ BoundInv(l, W)
        BY <1>2, <2>7 DEF EndsInv, OnInv, BoundInv
      <3> QED  BY <3>1, <3>2 DEF RefsInv
    <2>9. RefsInv(N, W)
      BY <2>8 DEF N
    <2>10. n + 2 \in Nat /\ n + 4 \in Nat /\ n + 2 <= n + 4
      OBVIOUS
    <2>11. WholeInv(W, n + 4)
      BY <1>4, <2>4, <2>5, <2>7, <2>9, <2>10, PartsAdded
    <2> QED  BY <1>3, <1>6, <2>11
  <1> QED  BY <1>5, <1>6

LEMMA LabelWhole ==
  ASSUME NEW S, NEW n \in Nat, n = lastId, WholeInv(S, n), NEW e \in S, e.type # "text", NEW text
  PROVE  WholeInv(SetBoundLabel(S, e, text), n + 1)
  <1> DEFINE labels == {l \in S : l.type = "text" /\ l.on = e.id}
             T == SetBoundLabel(S, e, text)
  <1>1. S \in SUBSET ElementType /\ e \in ElementType /\ e.id \in Nat /\ e.id # 0 /\ KindsInv(S)
    BY DEF WholeInv, IdsInv, ElementType
  <1>2. CASE text /\ labels # {}
    BY <1>2, WholeLater DEF SetBoundLabel
  <1>3. CASE text /\ labels = {}
    <2> DEFINE l == Label(n + 1, e.id)
               N == {l}
    <2>1. /\ l \in ElementType /\ l.type = "text" /\ l.id = n + 1 /\ l.ends = {} /\ l.on = e.id /\ l.bound = {}
      BY <1>1 DEF Label, ElementType
    <2>2. T = Bind(S, {e.id}, n + 1) \cup N
      BY <1>3 DEF SetBoundLabel
    <2> HIDE DEF l, T
    <2>3. NewIds(N, n, n + 1) /\ KindsInv(N) /\ l \in N
      BY <2>1 DEF NewIds, KindsInv
    <2> HIDE DEF N
    <2>4. PICK B : /\ Bind(S, {e.id}, n + 1) = Made(B, S) /\ Same(B, S) /\ Grown(B, S, N)
                   /\ \A x \in S : x.id \in {e.id} => n + 1 \in B[x].bound
      <3>1. {e.id} \subseteq {l.on} \cup l.ends /\ n + 1 = l.id /\ l.id \in Nat
        BY <2>1
      <3>2. Hangs(n + 1, {e.id}, N)
        BY <2>3, <3>1 DEF Hangs
      <3>3. BindsWell(S, {e.id}, n + 1, N)
        BY <1>1, <3>2, BindIs
      <3> QED  BY <3>3 DEF BindsWell
    <2>5. B[e] \in T /\ Like(B[e], e) /\ n + 1 \in B[e].bound
      BY <2>2, <2>4 DEF Made, Same
    <2>6. RefsInv({l}, T)
      BY <2>1, <2>5 DEF RefsInv, EndsInv, OnInv, BoundInv, Like
    <2>7. RefsInv(N, T)
      BY <2>6 DEF N
    <2>8. WholeInv(T, n + 1)
      <3>1. n + 1 \in Nat /\ n <= n + 1
        OBVIOUS
      <3> QED  BY <2>2, <2>3, <2>4, <2>7, <3>1, PartsAdded
    <2> QED  BY <2>8 DEF T
  <1>4. CASE ~text
    <2> DEFINE gone == IdsOf(labels)
               C == [x \in S |-> IF x = e THEN [e EXCEPT !.bound = @ \ gone] ELSE x]
               R == S \ labels
    <2>1. T = Made(C, R)
      BY <1>4 DEF SetBoundLabel, Made, IdsOf
    <2>2. ASSUME NEW x \in S, x # e PROVE x.bound = x.bound \ gone
      <3> SUFFICES ASSUME NEW l \in labels, l.id \in x.bound PROVE FALSE
        BY DEF IdsOf
      <3>1. PICK y \in S : y.id = l.id /\ (y.on = x.id \/ x.id \in y.ends)
        BY DEF WholeInv, RefsInv, BoundInv
      <3>2. y = l
        BY <3>1 DEF WholeInv, IdsInv
      <3>3. l.ends = {} /\ l.on = e.id
        BY <1>1 DEF KindsInv
      <3>4. x.id = e.id
        BY <3>1, <3>2, <3>3
      <3> QED  BY <2>2, <3>4 DEF WholeInv, IdsInv
    <2>3. ASSUME NEW x \in S PROVE C[x] \in ElementType /\ Like(C[x], x) /\ C[x].bound = x.bound \ gone
      <3>1. x \in ElementType
        BY <1>1
      <3>2. CASE x = e
        <4>1. C[x] = [x EXCEPT !.bound = x.bound \ gone]
          BY <3>2
        <4> HIDE DEF C, gone
        <4> QED  BY <3>1, <4>1 DEF ElementType, Like
      <3>3. CASE x # e
        <4>1. C[x] = x
          BY <3>3
        <4> QED  BY <2>2, <3>1, <3>3, <4>1 DEF Like
      <3> QED  BY <3>2, <3>3
    <2>4. \A x \in S, g \in labels : g.id # x.on /\ g.type # "shape"
      <3> SUFFICES ASSUME NEW x \in S, NEW g \in labels, g.id = x.on PROVE FALSE
        OBVIOUS
      <3>1. x.on # 0
        BY <1>1 DEF ElementType
      <3>2. PICK c \in S : c.id = x.on /\ c.type # "text"
        BY <3>1 DEF WholeInv, RefsInv, OnInv
      <3> QED  BY <3>2 DEF WholeInv, IdsInv
    <2>5. NotNeeded(R, labels)
      BY <2>4 DEF NotNeeded
    <2> HIDE DEF C, T
    <2>6. labels \in SUBSET S /\ R \subseteq S
      OBVIOUS
    <2> HIDE DEF labels
    <2>7. Same(C, R) /\ Shrunk(C, R, labels)
      BY <2>3 DEF Same, Shrunk
    <2>8. WholeInv(T, n)
      BY <2>1, <2>5, <2>6, <2>7, PartsCut
    <2> QED  BY <2>8, WholeLater DEF T
  <1> QED  BY <1>2, <1>3, <1>4

LEMMA DeleteWhole ==
  ASSUME NEW S, NEW n \in Nat, WholeInv(S, n), NEW e \in S
  PROVE  WholeInv(DeleteElement(S, e), n)
  <1> DEFINE first == {x \in S : x = e \/ (x.type = "arrow" /\ e.id \in x.ends) \/ x.on = e.id}
             G == Removes(S, e)
             C == [x \in S |-> [x EXCEPT !.bound = @ \ {g.id : g \in G}]]
             T == DeleteElement(S, e)
  <1>1. S \subseteq ElementType /\ KindsInv(S) /\ \A x \in S : x.id \in Nat /\ x.id # 0
    BY DEF WholeInv, IdsInv, ElementType
  <1>2. G = first \cup {x \in S : \E f \in first : x.on = f.id}
    BY DEF Removes
  <1>3. \A x \in S, g \in S : g.id = x.on => g.type # "text" /\ g.on = 0
    <2> SUFFICES ASSUME NEW x \in S, NEW g \in S, g.id = x.on PROVE g.type # "text"
      BY <1>1 DEF KindsInv
    <2>1. PICK c \in S : c.id = x.on /\ c.type # "text"
      BY <1>1 DEF WholeInv, RefsInv, OnInv
    <2> QED  BY <2>1 DEF WholeInv, IdsInv
  <1>4. ASSUME NEW x \in S \ G, NEW g \in G PROVE g.id # x.on /\ (g.type = "shape" => g.id \notin x.ends)
    <2>1. g \in S
      BY <1>2
    <2>2. g.id # x.on
      <3> SUFFICES ASSUME g.id = x.on PROVE FALSE
        OBVIOUS
      <3>1. g.on = 0
        BY <1>3, <2>1
      <3>2. g \in first
        <4>1. \A f \in first : f.id # 0
          BY <1>1
        <4> QED  BY <1>2, <3>1, <4>1
      <3> QED  BY <1>2, <3>2
    <2>3. ASSUME g.type = "shape" PROVE g.id \notin x.ends
      <3>1. g.on = 0
        BY <1>1, <2>1, <2>3 DEF KindsInv
      <3>2. g = e
        <4>1. \A f \in first : f.id # 0
          BY <1>1
        <4>2. g \in first
          BY <1>2, <3>1, <4>1
        <4> QED  BY <1>1, <2>3, <3>1, <4>2
      <3>3. x.ends # {} => x.type = "arrow"
        BY <1>1 DEF KindsInv
      <3> QED  BY <1>2, <3>2, <3>3
    <2> QED  BY <2>2, <2>3
  <1>5. G \in SUBSET S
    BY <1>2
  <1> HIDE DEF G
  <1>6. T = Made(C, S \ G)
    BY DEF DeleteElement, G, Made
  <1>7. ASSUME NEW x \in S PROVE C[x] \in ElementType /\ Like(C[x], x) /\ C[x].bound = x.bound \ IdsOf(G)
    <2> DEFINE gone == IdsOf(G)
    <2>1. x \in ElementType /\ C[x] = [x EXCEPT !.bound = x.bound \ gone]
      BY <1>1 DEF IdsOf
    <2> HIDE DEF C, gone
    <2>2. C[x] \in ElementType /\ Like(C[x], x) /\ C[x].bound = x.bound \ gone
      BY <2>1 DEF ElementType, Like
    <2> QED  BY <2>2 DEF gone
  <1> HIDE DEF C, T
  <1> DEFINE R == S \ G
  <1>8. Same(C, R) /\ Shrunk(C, R, G) /\ NotNeeded(R, G)
    BY <1>4, <1>7 DEF Same, Shrunk, NotNeeded
  <1>9. WholeInv(T, n)
    BY <1>5, <1>6, <1>8, PartsCut
  <1> QED  BY <1>9 DEF T

-----------------------------------------------------------------------------
\* Each scene that is read, changed or about to be written is whole.
ScenesInv ==
  /\ lastId \in Nat /\ DOMAIN sketches = Drawer
  /\ WholeInv(scene, lastId)
  /\ \A a \in Drawer : sketches[a] # None => WholeInv(sketches[a], lastId)

\* Strokes that were not handed on are on a canvas that stays.
StrokesInv ==
  /\ DOMAIN canvas = {"doc", "strokes", "next"} /\ DOMAIN handed = Canvas /\ DOMAIN drawn = Canvas
  /\ canvas.doc \in Canvas \cup {None}
  /\ canvas.doc = None \/ canvas.next # <<>> => canvas.strokes = {}
  /\ canvas.next = <<>> \/ \E d \in Canvas \cup {None} : canvas.next = <<d>>
  /\ StrokesKept

DrawInv == ScenesInv /\ StrokesInv

LEMMA EmptyWhole == ASSUME NEW n PROVE WholeInv({}, n)
  BY DEF WholeInv, IdsInv, KindsInv, RefsInv

LEMMA DrawInvInit == Init => DrawInv
  <1> SUFFICES ASSUME Init PROVE DrawInv
    OBVIOUS
  <1>1. ScenesInv
    BY EmptyWhole DEF Init, DrawInit, ScenesInv
  <1>2. StrokesInv
    BY DEF Init, DrawInit, StrokesInv, StrokesKept
  <1> QED  BY <1>1, <1>2 DEF DrawInv

LEMMA LoadSceneStep ==
  ASSUME DrawInv, NEW a \in Drawer, NEW S, NEW ids \in Nat, LoadScene(a, S, ids), WholeInv(S, lastId + ids)
  PROVE  DrawInv'
  <1>1. /\ sketches' = [sketches EXCEPT ![a] = S] /\ lastId' = lastId + ids
        /\ UNCHANGED <<scene, canvas, handed, drawn>>
    BY DEF LoadScene
  <1>2. StrokesInv'
    BY <1>1 DEF DrawInv, StrokesInv, StrokesKept
  <1>3. lastId \in Nat /\ lastId' \in Nat /\ lastId <= lastId' /\ DOMAIN sketches' = Drawer
    BY <1>1 DEF DrawInv, ScenesInv
  <1> PICK n : n = lastId
    OBVIOUS
  <1> PICK m : m = lastId'
    OBVIOUS
  <1>4. n \in Nat /\ m \in Nat /\ n <= m /\ WholeInv(S, m) /\ \A U : WholeInv(U, n) => WholeInv(U, m)
    BY <1>1, <1>3, WholeLater
  <1>5. WholeInv(scene, m) /\ \A b \in Drawer : sketches'[b] # None => WholeInv(sketches'[b], m)
    BY <1>1, <1>4 DEF DrawInv, ScenesInv
  <1>6. ScenesInv'
    BY <1>1, <1>3, <1>5 DEF ScenesInv
  <1> QED  BY <1>2, <1>6 DEF DrawInv

LEMMA ToolStep ==
  ASSUME DrawInv, NEW a \in Drawer,
         \/ SaveScene(a)
         \/ \E from \in 0 .. MaxId, mode \in {"append", "replace"} : Draw(a, mode, from)
         \/ \E e \in scene : \/ DeleteExcalidraw(a, e)
                             \/ \E text \in BOOLEAN : EditNode(a, e, text) \/ EditEdge(a, e, text)
  PROVE  DrawInv'
  <1> PICK n : n = lastId
    OBVIOUS
  <1>1. n = lastId /\ n \in Nat /\ WholeInv(scene, n)
    BY DEF DrawInv, ScenesInv
  <1>2. CASE SaveScene(a)
    <2>1. sketches[a] # None /\ scene' = sketches[a] /\ sketches' = [sketches EXCEPT ![a] = None]
          /\ UNCHANGED <<lastId, canvas, handed, drawn>>
      BY <1>2 DEF SaveScene
    <2>2. StrokesInv'
      BY <2>1 DEF DrawInv, StrokesInv, StrokesKept
    <2>3. WholeInv(scene', n) /\ \A b \in Drawer : sketches'[b] # None => WholeInv(sketches'[b], n)
      BY <1>1, <2>1 DEF DrawInv, ScenesInv
    <2>4. ScenesInv'
      BY <1>1, <2>1, <2>3 DEF DrawInv, ScenesInv
    <2> QED  BY <2>2, <2>4 DEF DrawInv
  <1>3. ASSUME NEW from, NEW mode, Draw(a, mode, from) PROVE DrawInv'
    <2> DEFINE S == IF mode = "append" THEN scene ELSE {}
    <2>1. WholeInv(S, n)
      BY <1>1, EmptyWhole
    <2>2. LoadScene(a, CompileDiagram(S, from), 4)
      BY <1>3 DEF Draw
    <2> HIDE DEF S
    <2>3. WholeInv(CompileDiagram(S, from), lastId + 4)
      BY <1>1, <2>1, CompileWhole
    <2> QED  BY <2>2, <2>3, LoadSceneStep
  <1>4. ASSUME NEW e \in scene, NEW text, EditNode(a, e, text) \/ EditEdge(a, e, text) PROVE DrawInv'
    <2>1. LoadScene(a, SetBoundLabel(scene, e, text), 1) /\ e.type # "text"
      BY <1>4 DEF EditNode, EditEdge, Shapes
    <2>2. WholeInv(SetBoundLabel(scene, e, text), lastId + 1)
      BY <1>1, <2>1, LabelWhole
    <2> QED  BY <2>1, <2>2, LoadSceneStep
  <1>5. ASSUME NEW e \in scene, DeleteExcalidraw(a, e) PROVE DrawInv'
    <2>1. LoadScene(a, DeleteElement(scene, e), 0)
      BY <1>5 DEF DeleteExcalidraw
    <2>2. WholeInv(DeleteElement(scene, e), lastId + 0)
      BY <1>1, DeleteWhole
    <2> QED  BY <2>1, <2>2, LoadSceneStep
  <1> QED  BY <1>2, <1>3, <1>4, <1>5

LEMMA CanvasStep ==
  ASSUME DrawInv, ~Hurried,
         (\E q \in 1 .. 2 : Stroke(q)) \/ (\E d \in Canvas \cup {None} : ClickDrawing(d)) \/ CanvasTimer \/ DrawingUp
  PROVE  DrawInv'
  <1>1. UNCHANGED <<scene, lastId, sketches>>
    BY DEF Stroke, ClickDrawing, CanvasTimer, DrawingUp
  <1>2. ScenesInv'
    BY <1>1 DEF DrawInv, ScenesInv
  <1>3. /\ DOMAIN canvas = {"doc", "strokes", "next"} /\ DOMAIN handed = Canvas /\ DOMAIN drawn = Canvas
        /\ canvas.doc \in Canvas \cup {None}
    BY DEF DrawInv, StrokesInv
  <1> USE DEF DrawInv, StrokesInv, StrokesKept
  <1>4. ASSUME NEW q, Stroke(q) PROVE StrokesInv'
    <2>1. canvas.doc # None /\ canvas.doc \in Canvas /\ canvas.next = <<>>
      BY <1>3, <1>4 DEF Stroke
    <2>2. /\ canvas'.doc = canvas.doc /\ canvas'.next = canvas.next /\ canvas'.strokes = canvas.strokes \cup {q}
          /\ DOMAIN canvas' = DOMAIN canvas /\ DOMAIN drawn' = Canvas /\ handed' = handed
          /\ \A d \in Canvas : drawn'[d] = IF d = canvas.doc THEN drawn[d] \cup {q} ELSE drawn[d]
      BY <1>3, <1>4 DEF Stroke
    <2> QED  BY <2>1, <2>2
  <1>5. ASSUME NEW d \in Canvas \cup {None}, ClickDrawing(d) PROVE StrokesInv'
    <2>1. /\ canvas'.doc = canvas.doc /\ canvas'.next = <<d>> /\ canvas'.strokes = {} /\ DOMAIN canvas' = DOMAIN canvas
          /\ drawn' = drawn /\ handed' = Flush
      BY <1>3, <1>5 DEF ClickDrawing
    <2>2. DOMAIN Flush = Canvas
          /\ \A c \in Canvas : Flush[c] = handed[c] \cup IF canvas.doc = c THEN canvas.strokes ELSE {}
      BY <1>3 DEF Flush, Hand
    <2> QED  BY <2>1, <2>2
  <1>6. ASSUME CanvasTimer PROVE StrokesInv'
    <2>1. /\ canvas'.doc = canvas.doc /\ canvas'.next = canvas.next /\ canvas'.strokes = {} /\ DOMAIN canvas' = DOMAIN canvas
          /\ drawn' = drawn /\ handed' = Hand(canvas.doc) /\ canvas.doc \in Canvas
      BY <1>3, <1>6 DEF CanvasTimer
    <2>2. DOMAIN Hand(canvas.doc) = Canvas
          /\ \A c \in Canvas : Hand(canvas.doc)[c] = handed[c] \cup IF canvas.doc = c THEN canvas.strokes ELSE {}
      BY <1>3 DEF Hand
    <2> QED  BY <2>1, <2>2
  <1>7. ASSUME DrawingUp PROVE StrokesInv'
    <2>1. PICK d \in Canvas \cup {None} : canvas.next = <<d>>
      BY <1>7 DEF DrawingUp
    <2>2. canvas' = [doc |-> d, strokes |-> {}, next |-> <<>>] /\ UNCHANGED <<handed, drawn>> /\ canvas.strokes = {}
      BY <1>7, <2>1 DEF DrawingUp
    <2> QED  BY <2>2
  <1> QED  BY <1>2, <1>4, <1>5, <1>6, <1>7

\* For any number of agents and elements, of canvases and strokes: whatever the
\* tools read, change and write over one another, nothing of a drawing refers to
\* what is not there; and without strokes in the moments Hurried names, none is
\* lost when another note comes up.
THEOREM DrawingsAreWhole == ASSUME ~Hurried PROVE Spec => []DrawingsWhole
  <1>1. DrawInv /\ [Next]_vars => DrawInv'
    <2> SUFFICES ASSUME DrawInv, [Next]_vars PROVE DrawInv'
      OBVIOUS
    <2>1. CASE DrawNext
      BY <2>1, ToolStep, CanvasStep DEF DrawNext
    <2>2. CASE UNCHANGED drawVars
      <3>1. ScenesInv'
        BY <2>2 DEF drawVars, DrawInv, ScenesInv
      <3>2. StrokesInv'
        BY <2>2 DEF drawVars, DrawInv, StrokesInv, StrokesKept
      <3> QED  BY <3>1, <3>2 DEF DrawInv
    <2> QED  BY <2>1, <2>2, DrawSteps
  <1>2. DrawInv => DrawingsWhole
    BY WholeIs DEF DrawInv, ScenesInv, StrokesInv, DrawingsWhole
  <1> QED  BY <1>1, <1>2, DrawInvInit, PTL DEF Spec
-----------------------------------------------------------------------------
(* Decks: the slides that are written are the slides that are read.        *)

LEMMA CountUp ==
  ASSUME NEW m \in Nat, NEW G, 0 \in G, \A k \in 0..(m - 1) : k \in G => k + 1 \in G
  PROVE  m \in G
  <1> DEFINE Bad == {k \in 0..m : k \notin G}
             Up(k) == 0..k
             R == StrictSubsetOrdering(0..m)
             T == {Up(k) : k \in Bad}
  <1>1. SUFFICES ASSUME Bad # {} PROVE FALSE
    OBVIOUS
  <1>2. IsWellFoundedOn(R, SUBSET (0..m))
    <2>1. IsFiniteSet(0..m)
      BY FS_Interval
    <2> QED  BY <2>1, FS_StrictSubsetOrderingWellFounded, FS_FiniteSubsetsOfFinite
  <1>3. PICK S \in T : \A U \in T : <<U, S>> \notin R
    <2> HIDE DEF R
    <2>1. T \subseteq SUBSET (0..m) /\ T # {}
      BY <1>1
    <2> HIDE DEF T
    <2> QED  BY <1>2, <2>1, WFMin
  <1>4. PICK k \in Bad : S = Up(k)
    BY <1>3
  <1>5. k # 0 /\ k - 1 \in Bad
    OBVIOUS
  <1>6. Up(k - 1) \in SUBSET (0..m) /\ Up(k) \in SUBSET (0..m) /\ Up(k - 1) \subseteq Up(k) /\ Up(k - 1) # Up(k)
    <2>1. k \in Up(k) /\ k \notin Up(k - 1)
      OBVIOUS
    <2> QED  BY <2>1
  <1>7. Up(k - 1) \in T
    BY <1>5
  <1> HIDE DEF T, Up
  <1>8. <<Up(k - 1), Up(k)>> \in R
    BY <1>6 DEF StrictSubsetOrdering
  <1> QED  BY <1>3, <1>4, <1>7, <1>8

\* What holds of a set when it holds of all smaller ones holds of all subsets
\* of a finite set.
LEMMA SubsetInduction ==
  ASSUME NEW S, IsFiniteSet(S), NEW G,
         \A T \in SUBSET S : (\A U \in SUBSET T : U # T => U \in G) => T \in G
  PROVE  \A T \in SUBSET S : T \in G
  <1> DEFINE Bad == {T \in SUBSET S : T \notin G}
             R   == StrictSubsetOrdering(S)
  <1>1. IsWellFoundedOn(R, SUBSET S)
    BY FS_StrictSubsetOrderingWellFounded, FS_FiniteSubsetsOfFinite
  <1>2. SUFFICES ASSUME Bad # {} PROVE FALSE
    OBVIOUS
  <1>3. PICK T \in Bad : \A U \in Bad : <<U, T>> \notin R
    <2> HIDE DEF R
    <2>1. Bad \subseteq SUBSET S
      OBVIOUS
    <2> HIDE DEF Bad
    <2> QED  BY <1>1, <1>2, <2>1, WFMin
  <1>4. \A U \in SUBSET T : U # T => U \in G
    BY <1>3 DEF StrictSubsetOrdering
  <1> QED  BY <1>4

-----------------------------------------------------------------------------
NoLine == ""
Rule   == "rule"
Fence  == "fence"

Start    == [slides |-> <<>>, cur |-> <<>>, fence |-> FALSE, blank |-> TRUE]
Counting == [n |-> 1, fence |-> FALSE, blank |-> TRUE]
Final(s) == CHOOSE x \in s : \A y \in s : x >= y
\* The lines that JoinMarp puts before the i-th slide.
Gap(i) == IF i = 1 THEN <<NoLine>> ELSE <<NoLine, Rule, NoLine>>
Numbers(seq) == [i \in DOMAIN seq |-> i]

CountOf(lines) == Seqs!FoldLeft(Starts, Counting, lines)

NothingYet(how) == IF how = "scan" THEN Start ELSE IF how = "count" THEN Counting ELSE <<>>
More(how, sofar, seq, i) ==
  IF how = "scan" THEN Cut(sofar, seq[i])
  ELSE IF how = "count" THEN Starts(sofar, seq[i])
  ELSE sofar \o Gap(Numbers(seq)[i]) \o Trim(seq[Numbers(seq)[i]])

FoldsUp(g, how, seq) ==
  g = [s \in SUBSET DOMAIN seq |->
         IF s = {} THEN NothingYet(how) ELSE More(how, g[s \ {Final(s)}], seq, Final(s))]

CutsUp(g, seq) ==
  g = [s \in SUBSET DOMAIN seq |-> IF s = {} THEN Start ELSE Cut(g[s \ {Final(s)}], seq[Final(s)])]
CountsUp(g, seq) ==
  g = [s \in SUBSET DOMAIN seq |-> IF s = {} THEN Counting ELSE Starts(g[s \ {Final(s)}], seq[Final(s)])]
JoinsUp(g, seq) ==
  g = [s \in SUBSET DOMAIN Numbers(seq) |->
         IF s = {} THEN <<>>
         ELSE g[s \ {Final(s)}] \o Gap(Numbers(seq)[Final(s)])
                \o Trim(seq[Numbers(seq)[Final(s)]])]

LEMMA ScanIs == ASSUME NEW seq PROVE ScanMarp(seq) = (CHOOSE g : CutsUp(g, seq))[DOMAIN seq]
  BY DEF ScanMarp, Start, Seqs!FoldLeft, Seqs!MapThenFoldSet, Seqs!Max, CutsUp, Final
LEMMA CountIs == ASSUME NEW seq PROVE CountOf(seq) = (CHOOSE g : CountsUp(g, seq))[DOMAIN seq]
  BY DEF CountOf, Seqs!FoldLeft, Seqs!MapThenFoldSet, Seqs!Max, CountsUp, Final
LEMMA JoinIs == ASSUME NEW seq PROVE JoinMarp(seq) = (CHOOSE g : JoinsUp(g, seq))[DOMAIN Numbers(seq)]
  BY DEF JoinMarp, Seqs!FoldLeft, Seqs!FoldLeftDomain, Seqs!MapThenFoldSet, Seqs!Max, JoinsUp, Final, Numbers, Gap, NoLine, Rule

LEMMA KindsUp ==
  ASSUME NEW g, NEW seq
  PROVE  /\ CutsUp(g, seq) <=> FoldsUp(g, "scan", seq)
         /\ CountsUp(g, seq) <=> FoldsUp(g, "count", seq)
         /\ JoinsUp(g, seq) <=> FoldsUp(g, "join", seq)
  <1>1. CutsUp(g, seq) <=> FoldsUp(g, "scan", seq)
    BY DEF CutsUp, FoldsUp, NothingYet, More
  <1>2. CountsUp(g, seq) <=> FoldsUp(g, "count", seq)
    BY DEF CountsUp, FoldsUp, NothingYet, More
  <1>3. JoinsUp(g, seq) <=> FoldsUp(g, "join", seq)
    <2>1. DOMAIN Numbers(seq) = DOMAIN seq
      BY DEF Numbers
    <2> QED  BY <2>1 DEF JoinsUp, FoldsUp, NothingYet, More
  <1> QED  BY <1>1, <1>2, <1>3

\* Some number of a set is its greatest, and some its least.
LEMMA Greatest ==
  ASSUME NEW n \in Nat, NEW s \in SUBSET (1..n), s # {}
  PROVE  \E z \in s : \A y \in s : z >= y
  <1> SUFFICES ASSUME \A z \in s : \E y \in s : y > z PROVE FALSE
    OBVIOUS
  <1> DEFINE H == {k \in 0..n : \E y \in s : y >= k}
  <1>1. 0 \in H
    <2>1. PICK y \in s : TRUE
      OBVIOUS
    <2>2. y \in 1..n /\ y >= 0
      OBVIOUS
    <2> QED  BY <2>2
  <1>2. ASSUME NEW k \in 0..(n - 1), k \in H PROVE k + 1 \in H
    <2>1. PICK y \in s : y >= k
      BY <1>2
    <2>2. PICK z \in s : z > y
      OBVIOUS
    <2> QED  BY <2>1, <2>2
  <1> HIDE DEF H
  <1>3. n \in H
    BY <1>1, <1>2, CountUp
  <1>4. PICK y \in s : y >= n
    BY <1>3 DEF H
  <1>5. PICK z \in s : z > y
    OBVIOUS
  <1> QED  BY <1>4, <1>5

LEMMA Least ==
  ASSUME NEW n \in Nat, NEW s \in SUBSET (1..n), s # {}
  PROVE  \E z \in s : \A y \in s : z <= y
  <1> DEFINE t == {n + 1 - y : y \in s}
  <1>1. t \in SUBSET (1..n) /\ t # {}
    <2>1. \A y \in s : y \in 1..n /\ n + 1 - y \in 1..n
      OBVIOUS
    <2>2. PICK y \in s : TRUE
      OBVIOUS
    <2>3. n + 1 - y \in t
      OBVIOUS
    <2> QED  BY <2>1, <2>3
  <1> HIDE DEF t
  <1>2. PICK x \in t : \A y \in t : x >= y
    BY <1>1, Greatest
  <1>3. PICK z \in s : x = n + 1 - z
    BY DEF t
  <1>4. ASSUME NEW y \in s PROVE z <= y
    <2>1. n + 1 - y \in t
      BY DEF t
    <2> QED  BY <1>2, <1>3, <2>1
  <1> QED  BY <1>4

LEMMA FinalIn ==
  ASSUME NEW n \in Nat, NEW s \in SUBSET (1..n), s # {}
  PROVE  Final(s) \in s /\ \A y \in s : Final(s) >= y
  BY Greatest DEF Final

IsList(out) == \E n \in Nat : DOMAIN out = 1..n

\* Two lists are folded alike as far as they are the same.
LEMMA FoldsAgree ==
  ASSUME NEW how, NEW out, NEW more, IsList(out),
         NEW a, NEW b, FoldsUp(a, how, out), FoldsUp(b, how, more),
         NEW U, U \subseteq DOMAIN out, U \subseteq DOMAIN more, \A i \in U : out[i] = more[i]
  PROVE  a[U] = b[U]
  <1>0. PICK n \in Nat : DOMAIN out = 1..n
    BY DEF IsList
  <1> DEFINE G == {V \in SUBSET U : a[V] = b[V]}
  <1>1. IsFiniteSet(U)
    <2>1. IsFiniteSet(1..n)
      BY FS_Interval
    <2> QED  BY <1>0, <2>1, FS_Subset
  <1>2. \A V \in SUBSET U :
          /\ a[V] = IF V = {} THEN NothingYet(how) ELSE More(how, a[V \ {Final(V)}], out, Final(V))
          /\ b[V] = IF V = {} THEN NothingYet(how) ELSE More(how, b[V \ {Final(V)}], more, Final(V))
    BY DEF FoldsUp
  <1>3. ASSUME NEW V \in SUBSET U, \A W \in SUBSET V : W # V => W \in G
        PROVE  V \in G
    <2>1. CASE V = {}
      BY <1>2, <2>1
    <2>2. CASE V # {}
      <3> DEFINE i == Final(V)
      <3>1. i \in V
        BY <1>0, <2>2, FinalIn
      <3> HIDE DEF i
      <3>2. a[V \ {i}] = b[V \ {i}]
        BY <1>3, <3>1
      <3>3. \A sofar : More(how, sofar, out, i) = More(how, sofar, more, i)
        <4>1. out[i] = more[i] /\ Numbers(out)[i] = i /\ Numbers(more)[i] = i
          BY <3>1 DEF Numbers
        <4> QED  BY <4>1 DEF More
      <3> QED  BY <1>2, <2>2, <3>2, <3>3 DEF i
    <2> QED  BY <2>1, <2>2
  <1> HIDE DEF G
  <1>4. \A V \in SUBSET U : V \in G
    BY <1>1, <1>3, SubsetInduction
  <1> QED  BY <1>4 DEF G

\* A list can be folded.
LEMMA FoldsExist ==
  ASSUME NEW how, NEW out, NEW n \in Nat, DOMAIN out = 1..n
  PROVE  \E g : FoldsUp(g, how, out)
  <1> DEFINE Upto(g, V) == g = [s \in SUBSET V |->
               IF s = {} THEN NothingYet(how) ELSE More(how, g[s \ {Final(s)}], out, Final(s))]
             G == {k \in 0..n : \E g : Upto(g, 1..k)}
  <1>1. 0 \in G
    <2> DEFINE g == [s \in SUBSET (1..0) |-> NothingYet(how)]
    <2>1. \A s \in SUBSET (1..0) : s = {} /\ g[s] = NothingYet(how)
      OBVIOUS
    <2>2. g = [s \in SUBSET (1..0) |-> g[s]]
      OBVIOUS
    <2> HIDE DEF g
    <2>3. Upto(g, 1..0)
      BY <2>1, <2>2
    <2>4. \E h : Upto(h, 1..0)
      BY <2>3
    <2> HIDE DEF Upto
    <2> QED  BY <2>4
  <1>2. ASSUME NEW k \in 0..(n - 1), k \in G PROVE k + 1 \in G
    <2>1. PICK f : Upto(f, 1..k)
      BY <1>2
    <2>2. \A s \in SUBSET (1..k) : f[s] = IF s = {} THEN NothingYet(how) ELSE More(how, f[s \ {Final(s)}], out, Final(s))
      BY <2>1
    <2> DEFINE g == [s \in SUBSET (1..(k + 1)) |->
                       IF k + 1 \in s THEN More(how, f[s \ {k + 1}], out, k + 1) ELSE f[s]]
    <2>3. ASSUME NEW s \in SUBSET (1..(k + 1))
          PROVE  g[s] = IF s = {} THEN NothingYet(how) ELSE More(how, g[s \ {Final(s)}], out, Final(s))
      <3>1. CASE k + 1 \in s
        <4>1. Final(s) = k + 1
          <5> DEFINE m == k + 1
          <5>1. m \in Nat /\ s \in SUBSET (1..m) /\ s # {} /\ m \in s
            BY <3>1
          <5> HIDE DEF m
          <5>2. Final(s) \in s /\ \A y \in s : Final(s) >= y
            BY <5>1, FinalIn
          <5>3. Final(s) \in 1..m /\ Final(s) >= m
            BY <5>1, <5>2
          <5> QED  BY <5>1, <5>3 DEF m
        <4>2. g[s] = More(how, f[s \ {k + 1}], out, k + 1)
          BY <3>1
        <4>3. g[s \ {k + 1}] = f[s \ {k + 1}]
          OBVIOUS
        <4> HIDE DEF g
        <4> QED  BY <3>1, <4>1, <4>2, <4>3
      <3>2. CASE k + 1 \notin s
        <4>1. s \in SUBSET (1..k)
          <5>1. \A y \in s : y \in 1..k
            BY <3>2
          <5> QED  BY <5>1
        <4>2. g[s] = f[s] /\ (\A x : g[s \ {x}] = f[s \ {x}])
          BY <3>2
        <4> HIDE DEF g
        <4> QED  BY <2>2, <4>1, <4>2
      <3> QED  BY <3>1, <3>2
    <2>4. g = [s \in SUBSET (1..(k + 1)) |-> g[s]]
      OBVIOUS
    <2> HIDE DEF g
    <2>5. Upto(g, 1..(k + 1))
      BY <2>3, <2>4
    <2> HIDE DEF Upto
    <2>6. k + 1 \in 0..n /\ \E h : Upto(h, 1..(k + 1))
      BY <2>5
    <2> QED  BY <2>6
  <1> HIDE DEF G
  <1>3. n \in G
    BY <1>1, <1>2, CountUp
  <1> QED  BY <1>3 DEF G, FoldsUp

\* What a list is folded to.
Folded(how, seq) == (CHOOSE g : FoldsUp(g, how, seq))[DOMAIN seq]

LEMMA FoldEmpty ==
  ASSUME NEW how PROVE Folded(how, <<>>) = NothingYet(how)
  <1> DEFINE a == CHOOSE g : FoldsUp(g, how, <<>>)
  <1>1. DOMAIN <<>> = 1..0
    OBVIOUS
  <1>2. FoldsUp(a, how, <<>>)
    <2> DEFINE n == 0
    <2>1. n \in Nat /\ DOMAIN <<>> = 1..n
      BY <1>1
    <2> HIDE DEF n
    <2> QED  BY <2>1, FoldsExist
  <1> HIDE DEF a
  <1>3. a[{}] = NothingYet(how)
    BY <1>2 DEF FoldsUp
  <1> QED  BY <1>3 DEF a, Folded

\* The last of a list comes on top of what the rest is folded to.
LEMMA FoldLast ==
  ASSUME NEW how, NEW out, NEW seq, IsList(out), IsList(seq), NEW i,
         Final(DOMAIN out) = i, DOMAIN seq = DOMAIN out \ {i}, i \in DOMAIN out,
         \A k \in DOMAIN seq : out[k] = seq[k]
  PROVE  Folded(how, out) = More(how, Folded(how, seq), out, i)
  <1> DEFINE a == CHOOSE g : FoldsUp(g, how, out)
             b == CHOOSE g : FoldsUp(g, how, seq)
  <1>1. FoldsUp(a, how, out) /\ FoldsUp(b, how, seq)
    BY FoldsExist DEF IsList
  <1> HIDE DEF a, b
  <1>2. a[DOMAIN out] = More(how, a[DOMAIN out \ {i}], out, i)
    BY <1>1 DEF FoldsUp
  <1>3. \A U : U = DOMAIN seq => a[U] = b[U]
    <2> SUFFICES ASSUME NEW U, U = DOMAIN seq PROVE a[U] = b[U]
      OBVIOUS
    <2>1. U \subseteq DOMAIN out /\ U \subseteq DOMAIN seq /\ \A k \in U : out[k] = seq[k]
      OBVIOUS
    <2> QED  BY <1>1, <2>1, FoldsAgree
  <1> QED  BY <1>2, <1>3 DEF a, b, Folded

LEMMA FoldAppend ==
  ASSUME NEW how, NEW S, NEW seq \in Seq(S), NEW x \in S
  PROVE  Folded(how, Append(seq, x)) = More(how, Folded(how, seq), Append(seq, x), Len(seq) + 1)
  <1> DEFINE n == Len(seq)
             m == n + 1
             out == Append(seq, x)
  <1>1. n \in Nat /\ m \in Nat /\ m = n + 1 /\ DOMAIN out = 1..m /\ DOMAIN seq = 1..n /\ \A i \in 1..n : out[i] = seq[i]
    OBVIOUS
  <1> HIDE DEF out, n, m
  <1>2. DOMAIN seq = DOMAIN out \ {m} /\ m \in DOMAIN out
    BY <1>1
  <1>3. Final(DOMAIN out) = m
    <2>1. \A s : s = 1..m => Final(s) \in 1..m /\ \A y \in 1..m : Final(s) >= y
      <3> SUFFICES ASSUME NEW s, s = 1..m PROVE Final(s) \in s /\ \A y \in s : Final(s) >= y
        OBVIOUS
      <3>1. s \in SUBSET (1..m) /\ s # {}
        <4>1. m \in 1..m
          BY <1>1
        <4> QED  BY <4>1
      <3> QED  BY <1>1, <3>1, FinalIn
    <2>2. Final(DOMAIN out) \in 1..m /\ Final(DOMAIN out) >= m
      BY <1>1, <2>1
    <2> QED  BY <1>1, <2>2
  <1>4. IsList(out) /\ IsList(seq)
    BY <1>1 DEF IsList
  <1>5. \A k \in DOMAIN seq : out[k] = seq[k]
    BY <1>1
  <1>6. Folded(how, out) = More(how, Folded(how, seq), out, m)
    BY <1>2, <1>3, <1>4, <1>5, FoldLast
  <1> QED  BY <1>6 DEF out, m, n

LEMMA ScanFolds ==
  ASSUME NEW seq PROVE ScanMarp(seq) = Folded("scan", seq) /\ CountOf(seq) = Folded("count", seq)
                       /\ JoinMarp(seq) = Folded("join", seq)
  <1>1. (CHOOSE g : CutsUp(g, seq)) = (CHOOSE g : FoldsUp(g, "scan", seq))
    BY KindsUp
  <1>2. (CHOOSE g : CountsUp(g, seq)) = (CHOOSE g : FoldsUp(g, "count", seq))
    BY KindsUp
  <1>3. (CHOOSE g : JoinsUp(g, seq)) = (CHOOSE g : FoldsUp(g, "join", seq))
    BY KindsUp
  <1>4. DOMAIN Numbers(seq) = DOMAIN seq
    BY DEF Numbers
  <1> QED  BY <1>1, <1>2, <1>3, <1>4, ScanIs, CountIs, JoinIs DEF Folded

LEMMA OfNoLines == ScanMarp(<<>>) = Start /\ CountOf(<<>>) = Counting /\ JoinMarp(<<>>) = <<>>
  BY ScanFolds, FoldEmpty DEF NothingYet

LEMMA OfOneMore ==
  ASSUME NEW S, NEW seq \in Seq(S), NEW x \in S
  PROVE  /\ ScanMarp(Append(seq, x)) = Cut(ScanMarp(seq), x)
         /\ CountOf(Append(seq, x)) = Starts(CountOf(seq), x)
         /\ JoinMarp(Append(seq, x)) =
              JoinMarp(seq) \o Gap(Len(seq) + 1) \o Trim(x)
  <1> DEFINE n == Len(seq) + 1
             out == Append(seq, x)
  <1>1. n \in DOMAIN out /\ out[n] = x
    OBVIOUS
  <1>2. \A how : Folded(how, out) = More(how, Folded(how, seq), out, n)
    BY FoldAppend
  <1> HIDE DEF n, out
  <1>3. ScanMarp(out) = Cut(ScanMarp(seq), x)
    BY <1>1, <1>2, ScanFolds DEF More
  <1>4. CountOf(out) = Starts(CountOf(seq), x)
    BY <1>1, <1>2, ScanFolds DEF More
  <1>5. JoinMarp(out) = JoinMarp(seq) \o Gap(n) \o Trim(x)
    <2>1. Numbers(out)[n] = n
      BY <1>1 DEF Numbers
    <2>2. Folded("join", out) = Folded("join", seq) \o Gap(n) \o Trim(x)
      BY <1>1, <1>2, <2>1 DEF More
    <2> QED  BY <1>1, <2>2, ScanFolds
  <1> QED  BY <1>3, <1>4, <1>5 DEF out, n

\* What holds of no elements and of one more than it holds of holds of all lists.
LEMMA ListInduction ==
  ASSUME NEW S, NEW G, <<>> \in G, \A s \in Seq(S) : \A x \in S : s \in G => Append(s, x) \in G
  PROVE  \A s \in Seq(S) : s \in G
  <1> SUFFICES ASSUME NEW s \in Seq(S) PROVE s \in G
    OBVIOUS
  <1> DEFINE n == Len(s)
             Up(k) == SubSeq(s, 1, k)
             H == {k \in 0..n : Up(k) \in G}
  <1>1. n \in Nat /\ Up(0) = <<>> /\ Up(n) = s
    OBVIOUS
  <1>2. ASSUME NEW k \in 0..(n - 1)
        PROVE  Up(k) \in Seq(S) /\ s[k + 1] \in S /\ Up(k + 1) = Append(Up(k), s[k + 1])
    OBVIOUS
  <1> HIDE DEF n, Up
  <1>3. 0 \in H
    BY <1>1
  <1>4. ASSUME NEW k \in 0..(n - 1), k \in H PROVE k + 1 \in H
    <2>1. Up(k + 1) \in G
      BY <1>2, <1>4
    <2> QED  BY <1>1, <2>1
  <1> HIDE DEF H
  <1>5. n \in H
    BY <1>1, <1>3, <1>4, CountUp
  <1> QED  BY <1>1, <1>5 DEF H

-----------------------------------------------------------------------------
\* A line is a string; the provers are told of a literal that it is one.
Line == STRING \cup {NoLine, Rule, Fence} \cup UNION {{s[1]} : s \in Generic}
LEMMA LinesAre ==
  NoLine \in Line /\ Rule \in Line /\ Fence \in Line /\ NoLine # Rule /\ NoLine # Fence /\ Rule # Fence
  <1>1. NoLine # Rule /\ NoLine # Fence /\ Rule # Fence
    BY DEF NoLine, Rule, Fence
  <1> QED  BY <1>1 DEF Line

LEMMA TrimDoes ==
  ASSUME NEW lines
  PROVE  Trim(lines) =
           LET text == {i \in DOMAIN lines : lines[i] # NoLine}
           IN  IF text = {} THEN <<>>
               ELSE SubSeq(lines, CHOOSE i \in text : \A j \in text : i <= j,
                                  CHOOSE i \in text : \A j \in text : j <= i)
  BY DEF Trim, NoLine
LEMMA CutDoes ==
  ASSUME NEW s, NEW line
  PROVE  Cut(s, line) =
           IF line = Fence
           THEN [s EXCEPT !.cur = Append(@, line), !.fence = ~@, !.blank = FALSE]
           ELSE IF line = Rule /\ s.blank /\ ~s.fence
           THEN [s EXCEPT !.slides = Append(@, Trim(s.cur)), !.cur = <<>>]
           ELSE [s EXCEPT !.cur = Append(@, line), !.blank = line = NoLine]
  BY DEF Cut, NoLine, Rule, Fence
LEMMA StartsDoes ==
  ASSUME NEW s, NEW line
  PROVE  Starts(s, line) =
           IF line = Fence THEN [s EXCEPT !.fence = ~@, !.blank = FALSE]
           ELSE [s EXCEPT !.n = IF line = Rule /\ s.blank /\ ~s.fence THEN @ + 1 ELSE @,
                          !.blank = line = NoLine]
  BY DEF Starts, NoLine, Rule, Fence
Text == Seq(Line)
Scan == [slides : Seq(Text), cur : Text, fence : BOOLEAN, blank : BOOLEAN]

\* What is left of a text without the blank lines around it.
LEMMA TrimIs ==
  ASSUME NEW l \in Text
  PROVE  \/ (\A k \in DOMAIN l : l[k] = NoLine) /\ Trim(l) = <<>>
         \/ \E i \in DOMAIN l, j \in DOMAIN l :
              /\ i <= j /\ l[i] # NoLine /\ l[j] # NoLine /\ Trim(l) = SubSeq(l, i, j)
              /\ \A k \in DOMAIN l : l[k] # NoLine => i <= k /\ k <= j
  <1> DEFINE text == {i \in DOMAIN l : l[i] # NoLine}
             i == CHOOSE k \in text : \A m \in text : k <= m
             j == CHOOSE k \in text : \A m \in text : m <= k
  <1>1. CASE text = {}
    BY <1>1, TrimDoes
  <1>2. CASE text # {}
    <2>1. Len(l) \in Nat /\ text \in SUBSET (1..Len(l))
      BY DEF Text
    <2> HIDE DEF text
    <2>2. i \in text /\ \A k \in text : i <= k
      BY <1>2, <2>1, Least
    <2>3. \E z \in text : \A y \in text : y <= z
      <3>1. PICK z \in text : \A y \in text : z >= y
        BY <1>2, <2>1, Greatest
      <3>2. \A y \in text : y <= z
        BY <2>1, <3>1
      <3> QED  BY <3>2
    <2>4. j \in text /\ \A k \in text : k <= j
      BY <2>3
    <2>5. Trim(l) = SubSeq(l, i, j)
      BY <1>2, TrimDoes DEF text
    <2> HIDE DEF i, j
    <2> QED  BY <2>2, <2>4, <2>5 DEF text
  <1> QED  BY <1>1, <1>2

\* The text between blank lines is what Trim leaves.
LEMMA TrimFinds ==
  ASSUME NEW l \in Text, NEW i \in DOMAIN l, NEW j \in DOMAIN l, l[i] # NoLine, l[j] # NoLine,
         \A k \in DOMAIN l : l[k] # NoLine => i <= k /\ k <= j
  PROVE  Trim(l) = SubSeq(l, i, j)
  <1>1. PICK a \in DOMAIN l, b \in DOMAIN l :
           /\ l[a] # NoLine /\ l[b] # NoLine /\ Trim(l) = SubSeq(l, a, b)
           /\ \A k \in DOMAIN l : l[k] # NoLine => a <= k /\ k <= b
    BY TrimIs
  <1>2. a <= i /\ i <= a /\ b <= j /\ j <= b /\ a \in Int /\ b \in Int /\ i \in Int /\ j \in Int
    BY <1>1 DEF Text
  <1>3. a = i /\ b = j
    BY <1>2
  <1> QED  BY <1>1, <1>3

LEMMA TrimBlank ==
  ASSUME NEW l \in Text, \A k \in DOMAIN l : l[k] = NoLine PROVE Trim(l) = <<>>
  BY TrimIs

LEMMA PieceOf ==
  ASSUME NEW l \in Text, NEW i \in DOMAIN l, NEW j \in DOMAIN l, i <= j
  PROVE  /\ SubSeq(l, i, j) \in Text /\ Len(SubSeq(l, i, j)) = j - i + 1
         /\ SubSeq(l, i, j)[1] = l[i] /\ SubSeq(l, i, j)[j - i + 1] = l[j]
  <1>1. i \in Int /\ j \in Int /\ j - i + 1 \in Nat /\ \A k \in i..j : l[k] \in Line
    BY DEF Text
  <1>2. /\ SubSeq(l, i, j) \in Text /\ Len(SubSeq(l, i, j)) = j - i + 1
        /\ \A k \in 1..(j - i + 1) : SubSeq(l, i, j)[k] = l[i + k - 1]
    <2>1. SubSeq(l, i, j) \in Seq(Line)
      BY <1>1, SubSeqProperties
    <2>2. Len(SubSeq(l, i, j)) = j - i + 1
      BY <1>1, SubSeqProperties
    <2>3. \A k \in 1..(j - i + 1) : SubSeq(l, i, j)[k] = l[i + k - 1]
      BY <1>1, SubSeqProperties
    <2> QED  BY <2>1, <2>2, <2>3 DEF Text
  <1>3. 1 \in 1..(j - i + 1) /\ (j - i + 1) \in 1..(j - i + 1) /\ i + 1 - 1 = i /\ i + (j - i + 1) - 1 = j
    BY <1>1
  <1> QED  BY <1>2, <1>3

LEMMA TrimText == ASSUME NEW l \in Text PROVE Trim(l) \in Text
  <1>1. CASE Trim(l) = <<>>
    BY <1>1 DEF Text
  <1>2. CASE Trim(l) # <<>>
    <2>1. PICK i \in DOMAIN l, j \in DOMAIN l : i <= j /\ Trim(l) = SubSeq(l, i, j)
      BY <1>2, TrimIs
    <2> QED  BY <2>1, PieceOf
  <1> QED  BY <1>1, <1>2

\* A text with nothing to trim says something at both ends, or nothing.
LEMMA TrimmedIs ==
  ASSUME NEW l \in Text
  PROVE  Trim(l) = l <=> l = <<>> \/ (l # <<>> /\ l[1] # NoLine /\ l[Len(l)] # NoLine)
  <1>1. CASE l = <<>>
    <2>1. \A k \in DOMAIN l : l[k] = NoLine
      BY <1>1
    <2> QED  BY <1>1, <2>1, TrimBlank
  <1>2. CASE l # <<>> /\ l[1] # NoLine /\ l[Len(l)] # NoLine
    <2>1. 1 \in DOMAIN l /\ Len(l) \in DOMAIN l /\ \A k \in DOMAIN l : 1 <= k /\ k <= Len(l)
      BY <1>2 DEF Text
    <2>2. SubSeq(l, 1, Len(l)) = l
      BY DEF Text
    <2> QED  BY <1>2, <2>1, <2>2, TrimFinds
  <1>3. CASE Trim(l) = l /\ l # <<>>
    <2>1. PICK i \in DOMAIN l, j \in DOMAIN l : i <= j /\ l[i] # NoLine /\ l[j] # NoLine /\ Trim(l) = SubSeq(l, i, j)
      BY <1>3, TrimIs
    <2>2. Len(SubSeq(l, i, j)) = j - i + 1 /\ i \in 1..Len(l) /\ j \in 1..Len(l) /\ Len(l) \in Nat
      BY <2>1 DEF Text
    <2>3. i = 1 /\ j = Len(l)
      BY <1>3, <2>1, <2>2
    <2> QED  BY <1>3, <2>1, <2>3
  <1> QED  BY <1>1, <1>2, <1>3

LEMMA TrimTrim == ASSUME NEW l \in Text PROVE Trim(Trim(l)) = Trim(l)
  <1>1. CASE Trim(l) = <<>>
    <2>1. <<>> \in Text
      BY DEF Text
    <2> QED  BY <1>1, <2>1, TrimmedIs
  <1>2. CASE Trim(l) # <<>>
    <2>1. PICK i \in DOMAIN l, j \in DOMAIN l : i <= j /\ l[i] # NoLine /\ l[j] # NoLine /\ Trim(l) = SubSeq(l, i, j)
      BY <1>2, TrimIs
    <2> DEFINE t == SubSeq(l, i, j)
    <2>2. t \in Text /\ t[1] = l[i] /\ Len(t) = j - i + 1 /\ t[j - i + 1] = l[j]
      BY <2>1, PieceOf
    <2> HIDE DEF t
    <2> QED  BY <1>2, <2>1, <2>2, TrimmedIs DEF t
  <1> QED  BY <1>1, <1>2

\* Blank lines put around a text are trimmed.
LEMMA TrimPadded ==
  ASSUME NEW l \in Text, Trim(l) = l
  PROVE  Trim(<<NoLine>> \o l) = l /\ Trim(<<NoLine>> \o l \o <<NoLine>>) = l
  <1>0. <<NoLine>> \o l \in Text /\ <<NoLine>> \o l \o <<NoLine>> \in Text
    BY LinesAre DEF Text
  <1>1. CASE l = <<>>
    <2>1. /\ \A k \in DOMAIN (<<NoLine>> \o l) : (<<NoLine>> \o l)[k] = NoLine
          /\ \A k \in DOMAIN (<<NoLine>> \o l \o <<NoLine>>) : (<<NoLine>> \o l \o <<NoLine>>)[k] = NoLine
      BY <1>1
    <2> QED  BY <1>0, <1>1, <2>1, TrimBlank
  <1>2. CASE l # <<>>
    <2> DEFINE n == Len(l)
               a == <<NoLine>> \o l
               b == <<NoLine>> \o l \o <<NoLine>>
    <2>1. n \in Nat /\ n >= 1 /\ l[1] # NoLine /\ l[n] # NoLine
      BY <1>2, TrimmedIs DEF Text
    <2>2. /\ DOMAIN a = 1..(n + 1) /\ DOMAIN b = 1..(n + 2)
          /\ \A k \in 1..n : a[k + 1] = l[k] /\ b[k + 1] = l[k]
          /\ a[1] = NoLine /\ b[1] = NoLine /\ b[n + 2] = NoLine
      BY DEF Text
    <2>3. SubSeq(a, 2, n + 1) = l /\ SubSeq(b, 2, n + 1) = l
      BY <1>0, <2>1 DEF Text
    <2>4. a[2] = l[1] /\ a[n + 1] = l[n] /\ b[2] = l[1] /\ b[n + 1] = l[n]
      <3>1. 1 \in 1..n /\ n \in 1..n /\ 2 = 1 + 1
        BY <2>1
      <3> QED  BY <2>2, <3>1
    <2> HIDE DEF a, b
    <2>5. Trim(a) = SubSeq(a, 2, n + 1)
      <3> DEFINE m == n + 1
      <3>1. 2 \in DOMAIN a /\ m \in DOMAIN a /\ \A k \in DOMAIN a : a[k] # NoLine => 2 <= k /\ k <= m
        BY <2>1, <2>2
      <3> HIDE DEF m
      <3> QED  BY <1>0, <2>1, <2>4, <3>1, TrimFinds DEF a, m
    <2>6. Trim(b) = SubSeq(b, 2, n + 1)
      <3> DEFINE m == n + 1
      <3>1. 2 \in DOMAIN b /\ m \in DOMAIN b /\ \A k \in DOMAIN b : b[k] # NoLine => 2 <= k /\ k <= m
        BY <2>1, <2>2
      <3> HIDE DEF m
      <3> QED  BY <1>0, <2>1, <2>4, <3>1, TrimFinds DEF b, m
    <2> QED  BY <2>3, <2>5, <2>6 DEF a, b
  <1> QED  BY <1>1, <1>2

-----------------------------------------------------------------------------
LEMMA ScanType ==
  ASSUME NEW l \in Text
  PROVE  ScanMarp(l) \in Scan
  <1> DEFINE G == {s \in Text : ScanMarp(s) \in Scan}
  <1>1. <<>> \in G
    <2>1. <<>> \in Text /\ <<>> \in Seq(Text)
      BY DEF Text
    <2>2. Start \in Scan
      BY <2>1 DEF Start, Scan
    <2> QED  BY <2>1, <2>2, OfNoLines
  <1>2. ASSUME NEW s \in Seq(Line), NEW x \in Line, s \in G PROVE Append(s, x) \in G
    <2>1. ScanMarp(s) \in Scan /\ s \in Text /\ Append(s, x) \in Text
      BY <1>2 DEF Text
    <2>2. ScanMarp(Append(s, x)) = Cut(ScanMarp(s), x)
      BY OfOneMore
    <2>3. Trim(ScanMarp(s).cur) \in Text /\ Append(ScanMarp(s).cur, x) \in Text
      BY <2>1, TrimText DEF Scan, Text
    <2>4. Append(ScanMarp(s).slides, Trim(ScanMarp(s).cur)) \in Seq(Text) /\ <<>> \in Text
      BY <2>1, <2>3 DEF Scan, Text
    <2>5. Cut(ScanMarp(s), x) \in Scan
      BY <2>1, <2>3, <2>4, CutDoes DEF Scan
    <2> QED  BY <2>1, <2>2, <2>5
  <1> HIDE DEF G
  <1>3. l \in G
    BY <1>1, <1>2, ListInduction DEF Text
  <1> QED  BY <1>3 DEF G

\* What a line does to what was read: a slide ends, or the line is part of the last one.
Breaks(s, x) == x = Rule /\ s.blank /\ ~s.fence
ReadsLine(s, x, t) ==
  /\ s \in Scan /\ t \in Scan
  /\ x = Fence => t.slides = s.slides /\ t.cur = Append(s.cur, x) /\ t.fence = ~s.fence /\ t.blank = FALSE
  /\ Breaks(s, x) => t.slides = Append(s.slides, Trim(s.cur)) /\ t.cur = <<>> /\ t.fence = FALSE /\ t.blank = TRUE
  /\ x # Fence /\ ~Breaks(s, x) =>
       t.slides = s.slides /\ t.cur = Append(s.cur, x) /\ t.fence = s.fence /\ t.blank = (x = NoLine)

LEMMA LineRead ==
  ASSUME NEW l \in Text, NEW x \in Line
  PROVE  ReadsLine(ScanMarp(l), x, ScanMarp(Append(l, x))) /\ Append(l, x) \in Text
  <1>1. Append(l, x) \in Text
    BY DEF Text
  <1>2. ScanMarp(l) \in Scan /\ ScanMarp(Append(l, x)) \in Scan
    BY <1>1, ScanType
  <1>3. ScanMarp(Append(l, x)) = Cut(ScanMarp(l), x)
    BY OfOneMore DEF Text
  <1> DEFINE s == ScanMarp(l)
             t == Cut(s, x)
  <1>4. s \in Scan /\ DOMAIN s = {"slides", "cur", "fence", "blank"} /\ s.fence \in BOOLEAN /\ s.blank \in BOOLEAN
    BY <1>2 DEF Scan
  <1> HIDE DEF s
  <1>5. x = Fence => t.slides = s.slides /\ t.cur = Append(s.cur, x) /\ t.fence = ~s.fence /\ t.blank = FALSE
    BY <1>4, CutDoes
  <1>6. Breaks(s, x) => t.slides = Append(s.slides, Trim(s.cur)) /\ t.cur = <<>> /\ t.fence = FALSE /\ t.blank = TRUE
    BY <1>4, CutDoes, LinesAre DEF Breaks
  <1>7. x # Fence /\ ~Breaks(s, x) =>
          t.slides = s.slides /\ t.cur = Append(s.cur, x) /\ t.fence = s.fence /\ t.blank = (x = NoLine)
    BY <1>4, CutDoes DEF Breaks
  <1> HIDE DEF t
  <1> QED  BY <1>1, <1>2, <1>3, <1>5, <1>6, <1>7 DEF ReadsLine, s, t

LEMMA OneLineOn ==
  ASSUME NEW l \in Text, NEW m \in Text, NEW x \in Line
  PROVE  l \o m \in Text /\ Append(m, x) \in Text /\ Append(l \o m, x) = l \o Append(m, x)
  BY DEF Text

\* After l, of which z was read: d was read once m was, b is what m is on its own.
ReadOn(z, m, b, d) ==
  /\ d.fence = b.fence /\ d.blank = b.blank
  /\ Len(d.slides) = Len(z.slides) + Len(b.slides)
  /\ b.slides = <<>> => d.slides = z.slides /\ d.cur = z.cur \o m

LEMMA ReadOnOne ==
  ASSUME NEW z \in Scan, NEW m \in Text, NEW x \in Line, NEW a, NEW b, NEW c, NEW d,
         ReadOn(z, m, a, c), ReadsLine(a, x, b), ReadsLine(c, x, d)
  PROVE  ReadOn(z, Append(m, x), b, d)
  <1>1. Append(z.cur \o m, x) = z.cur \o Append(m, x)
    <2>1. z.cur \in Text
      BY DEF Scan
    <2> QED  BY <2>1, OneLineOn
  <1>2. a \in Scan /\ b \in Scan /\ c \in Scan /\ d \in Scan
    BY DEF ReadsLine
  <1>3. /\ Trim(a.cur) \in Text /\ Trim(c.cur) \in Text
        /\ a.slides \in Seq(Text) /\ c.slides \in Seq(Text) /\ z.slides \in Seq(Text)
    BY <1>2, TrimText DEF Scan
  <1>4. /\ \A s \in Seq(Text), t \in Text : Len(Append(s, t)) = Len(s) + 1 /\ Append(s, t) # <<>>
        /\ \A s \in Seq(Text) : Len(s) \in Nat
    OBVIOUS
  <1>5. Breaks(a, x) <=> Breaks(c, x)
    BY DEF Breaks, ReadOn
  <1>6. CASE Breaks(a, x)
    <2>1. /\ b.slides = Append(a.slides, Trim(a.cur)) /\ d.slides = Append(c.slides, Trim(c.cur))
          /\ d.fence = b.fence /\ d.blank = b.blank
      BY <1>5, <1>6 DEF ReadsLine
    <2>2. Len(d.slides) = Len(c.slides) + 1 /\ Len(b.slides) = Len(a.slides) + 1 /\ b.slides # <<>>
      BY <1>3, <1>4, <2>1
    <2>3. Len(c.slides) = Len(z.slides) + Len(a.slides)
      BY DEF ReadOn
    <2>4. Len(c.slides) \in Nat /\ Len(a.slides) \in Nat /\ Len(z.slides) \in Nat
      BY <1>3, <1>4
    <2>5. Len(d.slides) = Len(z.slides) + Len(b.slides)
      <3>1. \A i \in Nat, j \in Nat : (i + j) + 1 = i + (j + 1)
        OBVIOUS
      <3> QED  BY <2>2, <2>3, <2>4, <3>1
    <2> QED  BY <2>1, <2>2, <2>5 DEF ReadOn
  <1>7. CASE ~Breaks(a, x)
    <2>1. b.slides = a.slides /\ d.slides = c.slides /\ d.cur = Append(c.cur, x)
      BY <1>5, <1>7 DEF ReadsLine
    <2>2. d.fence = b.fence /\ d.blank = b.blank
      BY <1>5, <1>7 DEF ReadsLine, ReadOn
    <2> QED  BY <1>1, <2>1, <2>2 DEF ReadOn
  <1> QED  BY <1>6, <1>7

\* Lines read where a slide may begin are cut as they are on their own.
LEMMA ReadAfter ==
  ASSUME NEW l \in Text, NEW m \in Text, ~ScanMarp(l).fence, ScanMarp(l).blank
  PROVE  ReadOn(ScanMarp(l), m, ScanMarp(m), ScanMarp(l \o m))
  <1> DEFINE z == ScanMarp(l)
             G == {t \in Text : ReadOn(z, t, ScanMarp(t), ScanMarp(l \o t))}
  <1>0. z \in Scan /\ <<>> \in Text
    BY ScanType DEF Text
  <1>1. <<>> \in G
    <2>1. l \o <<>> = l
      BY DEF Text
    <2>2. z.cur \o <<>> = z.cur /\ Len(z.slides) + 0 = Len(z.slides)
      BY <1>0 DEF Scan, Text
    <2>3. ScanMarp(<<>>).slides = <<>> /\ Len(<<>>) = 0 /\ ScanMarp(<<>>).fence = FALSE /\ ScanMarp(<<>>).blank = TRUE
      BY OfNoLines DEF Start
    <2>4. z.fence = FALSE /\ z.blank = TRUE
      BY <1>0 DEF Scan
    <2> HIDE DEF z
    <2>5. ReadOn(z, <<>>, ScanMarp(<<>>), z)
      BY <2>2, <2>3, <2>4 DEF ReadOn
    <2> QED  BY <1>0, <2>1, <2>5 DEF z
  <1>2. ASSUME NEW t \in Seq(Line), NEW x \in Line, t \in G PROVE Append(t, x) \in G
    <2>1. t \in Text /\ ReadOn(z, t, ScanMarp(t), ScanMarp(l \o t))
      BY <1>2
    <2> HIDE DEF z
    <2>2. l \o t \in Text /\ Append(t, x) \in Text /\ Append(l \o t, x) = l \o Append(t, x)
      BY <2>1, OneLineOn
    <2>3. ReadsLine(ScanMarp(t), x, ScanMarp(Append(t, x))) /\ ReadsLine(ScanMarp(l \o t), x, ScanMarp(l \o Append(t, x)))
      BY <2>1, <2>2, LineRead
    <2>4. ReadOn(z, Append(t, x), ScanMarp(Append(t, x)), ScanMarp(l \o Append(t, x)))
      BY <1>0, <2>1, <2>3, ReadOnOne
    <2> QED  BY <2>2, <2>4
  <1> HIDE DEF G
  <1>3. m \in G
    BY <1>1, <1>2, ListInduction DEF Text
  <1> QED  BY <1>3 DEF G

\* Blank lines end no slide and leave fenced code as it is.
KeptBlank(s, t) == t.fence = s.fence /\ t.slides = s.slides /\ (s.blank => t.blank)
LEMMA ReadBlanks ==
  ASSUME NEW l \in Text, NEW m \in Text, \A k \in DOMAIN m : m[k] = NoLine
  PROVE  KeptBlank(ScanMarp(l), ScanMarp(l \o m))
  <1> DEFINE z == ScanMarp(l)
             Blanks(t) == \A k \in DOMAIN t : t[k] = NoLine
             G == {t \in Text : Blanks(t) => KeptBlank(z, ScanMarp(l \o t))}
  <1>1. <<>> \in G
    <2>1. l \o <<>> = l /\ <<>> \in Text
      BY DEF Text
    <2> QED  BY <2>1 DEF KeptBlank
  <1>2. ASSUME NEW t \in Seq(Line), NEW x \in Line, t \in G PROVE Append(t, x) \in G
    <2> DEFINE u == Append(t, x)
    <2>1. t \in Text /\ (Blanks(t) => KeptBlank(z, ScanMarp(l \o t)))
      BY <1>2
    <2>2. Blanks(u) => x = NoLine /\ Blanks(t)
      <3>1. Len(t) + 1 \in DOMAIN u /\ u[Len(t) + 1] = x /\ \A k \in DOMAIN t : k \in DOMAIN u /\ u[k] = t[k]
        OBVIOUS
      <3> HIDE DEF u
      <3> QED  BY <3>1
    <2> HIDE DEF z, Blanks
    <2>3. l \o t \in Text /\ u \in Text /\ Append(l \o t, x) = l \o u
      BY <2>1, OneLineOn
    <2>4. ReadsLine(ScanMarp(l \o t), x, ScanMarp(l \o u))
      BY <2>3, LineRead
    <2> HIDE DEF u
    <2>5. x = NoLine => KeptBlank(ScanMarp(l \o t), ScanMarp(l \o u))
      BY <2>4, LinesAre DEF ReadsLine, KeptBlank, Breaks
    <2>6. Blanks(u) => KeptBlank(z, ScanMarp(l \o u))
      BY <2>1, <2>2, <2>5 DEF KeptBlank
    <2> QED  BY <2>3, <2>6 DEF u
  <1>3. Blanks(m)
    OBVIOUS
  <1> HIDE DEF G, Blanks
  <1>4. m \in G
    BY <1>1, <1>2, ListInduction DEF Text
  <1> QED  BY <1>3, <1>4 DEF G

-----------------------------------------------------------------------------
\* Nothing in a text ends a slide, and nothing is to be trimmed.
Clean(s)   == s \in Text /\ ScanMarp(s).slides = <<>> /\ ~ScanMarp(s).fence /\ Trim(s) = s
CleanTexts == {s \in Text : Clean(s)}

LEMMA NoSlideCut == ASSUME NEW m \in Text, ScanMarp(m).slides = <<>> PROVE ScanMarp(m).cur = m
  <1>1. <<>> \in Text /\ <<>> \o m = m
    BY DEF Text
  <1>2. ~ScanMarp(<<>>).fence /\ ScanMarp(<<>>).blank /\ ScanMarp(<<>>).cur = <<>>
    BY OfNoLines DEF Start
  <1>3. ReadOn(ScanMarp(<<>>), m, ScanMarp(m), ScanMarp(<<>> \o m))
    BY <1>1, <1>2, ReadAfter
  <1> QED  BY <1>1, <1>2, <1>3 DEF ReadOn

LEMMA EmptyClean == Clean(<<>>)
  <1>1. <<>> \in Text
    BY DEF Text
  <1>2. ScanMarp(<<>>).slides = <<>> /\ ~ScanMarp(<<>>).fence
    BY OfNoLines DEF Start
  <1> QED  BY <1>1, <1>2, TrimmedIs DEF Clean

\* What is left of a slide without the blank lines around it is cut as the slide is.
LEMMA TrimClean ==
  ASSUME NEW c \in Text, ScanMarp(c).slides = <<>>, ~ScanMarp(c).fence
  PROVE  Clean(Trim(c))
  <1>1. CASE Trim(c) = <<>>
    BY <1>1, EmptyClean
  <1>2. CASE Trim(c) # <<>>
    <2>1. PICK i \in DOMAIN c, j \in DOMAIN c :
             /\ i <= j /\ Trim(c) = SubSeq(c, i, j) /\ \A k \in DOMAIN c : c[k] # NoLine => i <= k /\ k <= j
      BY <1>2, TrimIs
    <2> DEFINE n == Len(c)
               above == SubSeq(c, 1, i - 1)
               mid   == SubSeq(c, i, j)
               below == SubSeq(c, j + 1, n)
               rest  == mid \o below
    <2>2. n \in Nat /\ i \in 1..n /\ j \in 1..n /\ DOMAIN c = 1..n
      BY DEF Text
    <2>3. above \in Text /\ mid \in Text /\ below \in Text /\ rest \in Text
      BY <2>1, <2>2, PieceOf DEF Text
    <2>4. above \o rest = c
      <3>1. c \in Seq(Line) /\ n = Len(c) /\ 1 \in 1..(n + 1) /\ i \in 1..(n + 1) /\ i - 1 \in 0..n /\ j \in (i - 1)..n
            /\ n \in j..n /\ n \in (i - 1)..n /\ 1 - 1 = 0 /\ (i - 1) + 1 = i
        BY <2>1, <2>2 DEF Text
      <3>2. rest = SubSeq(c, i, n)
        BY <3>1, ConcatAdjacentSubSeq
      <3> HIDE DEF n, rest
      <3>3. above \o SubSeq(c, i, n) = SubSeq(c, 1, n)
        BY <3>1, ConcatAdjacentSubSeq
      <3>4. SubSeq(c, 1, n) = c
        BY <3>1, SubSeqFull
      <3> HIDE DEF above
      <3> QED  BY <3>2, <3>3, <3>4
    <2>5. (\A k \in DOMAIN above : above[k] = NoLine) /\ (\A k \in DOMAIN below : below[k] = NoLine)
      <3>1. ASSUME NEW k \in DOMAIN above PROVE above[k] = NoLine
        <4>1. above[k] = c[k] /\ k \in 1..n /\ k < i
          BY <2>2, <3>1 DEF Text
        <4> QED  BY <2>1, <2>2, <4>1
      <3>2. ASSUME NEW k \in DOMAIN below PROVE below[k] = NoLine
        <4>1. below[k] = c[j + k] /\ j + k \in 1..n /\ j + k > j
          BY <2>2, <3>2 DEF Text
        <4> QED  BY <2>1, <2>2, <4>1
      <3> QED  BY <3>1, <3>2
    <2> HIDE DEF n, above, mid, below
    <2>6. ScanMarp(above).slides = <<>> /\ ~ScanMarp(above).fence /\ ScanMarp(above).blank
      <3>1. <<>> \in Text /\ <<>> \o above = above
        BY <2>3 DEF Text
      <3>2. KeptBlank(ScanMarp(<<>>), ScanMarp(<<>> \o above))
        BY <2>3, <2>5, <3>1, ReadBlanks
      <3> QED  BY <3>1, <3>2, OfNoLines DEF KeptBlank, Start
    <2>7. KeptBlank(ScanMarp(mid), ScanMarp(rest))
      BY <2>3, <2>5, ReadBlanks
    <2> HIDE DEF rest
    <2>8. ReadOn(ScanMarp(above), rest, ScanMarp(rest), ScanMarp(c))
      BY <2>3, <2>4, <2>6, ReadAfter
    <2>9. ScanMarp(rest).slides = <<>> /\ ~ScanMarp(rest).fence
      <3>1. Len(ScanMarp(c).slides) = Len(ScanMarp(above).slides) + Len(ScanMarp(rest).slides) /\ Len(<<>>) = 0
        BY <2>8 DEF ReadOn
      <3>2. ScanMarp(rest).slides \in Seq(Text)
        BY <2>3, ScanType DEF Scan
      <3>3. \A s \in Seq(Text) : Len(s) \in Nat /\ (Len(s) = 0 => s = <<>>)
        OBVIOUS
      <3>4. Len(ScanMarp(rest).slides) = 0
        BY <2>6, <3>1, <3>2, <3>3
      <3> QED  BY <2>8, <3>2, <3>3, <3>4 DEF ReadOn
    <2>10. ScanMarp(mid).slides = <<>> /\ ~ScanMarp(mid).fence
      BY <2>7, <2>9 DEF KeptBlank
    <2> QED  BY <2>1, <2>3, <2>10, TrimTrim DEF Clean, mid
  <1> QED  BY <1>1, <1>2

\* The slides cut so far are clean, and so is the one being read unless it is in fenced code.
CutClean(s) ==
  /\ \A i \in DOMAIN s.slides : Clean(s.slides[i])
  /\ ScanMarp(s.cur).slides = <<>> /\ ScanMarp(s.cur).fence = s.fence /\ ScanMarp(s.cur).blank = s.blank

LEMMA CutCleanOn ==
  ASSUME NEW s, NEW t, NEW x \in Line, ReadsLine(s, x, t), CutClean(s)
  PROVE  CutClean(t)
  <1>1. s \in Scan /\ t \in Scan /\ s.cur \in Text /\ s.slides \in Seq(Text)
    BY DEF ReadsLine, Scan
  <1>2. CASE Breaks(s, x)
    <2>1. t.slides = Append(s.slides, Trim(s.cur)) /\ t.cur = <<>> /\ t.fence = FALSE /\ t.blank = TRUE
      BY <1>2 DEF ReadsLine
    <2>2. Clean(Trim(s.cur))
      <3>1. ~ScanMarp(s.cur).fence
        BY <1>2 DEF CutClean, Breaks
      <3> QED  BY <1>1, <3>1, TrimClean DEF CutClean
    <2>3. \A i \in DOMAIN t.slides : t.slides[i] = Trim(s.cur) \/ (i \in DOMAIN s.slides /\ t.slides[i] = s.slides[i])
      <3>1. \A q \in Seq(Text), u \in Text : \A i \in DOMAIN Append(q, u) : Append(q, u)[i] = u \/ (i \in DOMAIN q /\ Append(q, u)[i] = q[i])
        OBVIOUS
      <3>2. Trim(s.cur) \in Text
        BY <1>1, TrimText
      <3> QED  BY <1>1, <2>1, <3>1, <3>2
    <2>4. \A i \in DOMAIN t.slides : Clean(t.slides[i])
      BY <2>2, <2>3 DEF CutClean
    <2>5. ScanMarp(t.cur) = Start /\ Start.slides = <<>> /\ Start.fence = FALSE /\ Start.blank = TRUE
      BY <2>1, OfNoLines DEF Start
    <2> QED  BY <2>1, <2>4, <2>5 DEF CutClean
  <1>3. CASE ~Breaks(s, x)
    <2>1. t.slides = s.slides /\ t.cur = Append(s.cur, x)
      BY <1>3 DEF ReadsLine
    <2>2. ReadsLine(ScanMarp(s.cur), x, ScanMarp(t.cur))
      BY <1>1, <2>1, LineRead
    <2>3. ~Breaks(ScanMarp(s.cur), x)
      BY <1>3 DEF Breaks, CutClean
    <2>4. ScanMarp(t.cur).slides = <<>> /\ ScanMarp(t.cur).fence = t.fence /\ ScanMarp(t.cur).blank = t.blank
      BY <1>3, <2>2, <2>3 DEF ReadsLine, CutClean
    <2> QED  BY <2>1, <2>4 DEF CutClean
  <1> QED  BY <1>2, <1>3

LEMMA SlidesClean == ASSUME NEW l \in Text PROVE CutClean(ScanMarp(l))
  <1> DEFINE G == {t \in Text : CutClean(ScanMarp(t))}
  <1>1. <<>> \in G
    <2>1. <<>> \in Text /\ DOMAIN <<>> = {}
      BY DEF Text
    <2>2. CutClean(Start)
      <3>1. Start.slides = <<>> /\ Start.cur = <<>>
        BY DEF Start
      <3> QED  BY <2>1, <3>1, OfNoLines DEF CutClean
    <2> QED  BY <2>1, <2>2, OfNoLines
  <1>2. ASSUME NEW t \in Seq(Line), NEW x \in Line, t \in G PROVE Append(t, x) \in G
    <2>1. t \in Text /\ CutClean(ScanMarp(t))
      BY <1>2
    <2>2. ReadsLine(ScanMarp(t), x, ScanMarp(Append(t, x))) /\ Append(t, x) \in Text
      BY <2>1, LineRead
    <2>3. CutClean(ScanMarp(Append(t, x)))
      BY <2>1, <2>2, CutCleanOn
    <2> QED  BY <2>2, <2>3
  <1> HIDE DEF G
  <1>3. l \in G
    BY <1>1, <1>2, ListInduction DEF Text
  <1> QED  BY <1>3 DEF G

\* What SplitMarp returns of a deck whose fences are closed is clean, slide by slide.
LEMMA SplitClean ==
  ASSUME NEW l \in Text, ~ScanMarp(l).fence
  PROVE  SplitMarp(l) \in Seq(CleanTexts)
  <1> DEFINE s == ScanMarp(l)
  <1>1. s \in Scan /\ CutClean(s)
    BY ScanType, SlidesClean
  <1> HIDE DEF s
  <1>2. s.slides \in Seq(Text) /\ s.cur \in Text
    BY <1>1 DEF Scan
  <1>3. Trim(s.cur) \in CleanTexts
    <2>1. Clean(Trim(s.cur))
      BY <1>1, <1>2, TrimClean DEF CutClean, s
    <2> QED  BY <2>1 DEF CleanTexts, Clean
  <1>4. s.slides \in Seq(CleanTexts)
    <2>1. \A i \in 1..Len(s.slides) : s.slides[i] \in CleanTexts
      BY <1>1, <1>2 DEF CutClean, CleanTexts
    <2>2. Len(s.slides) \in Nat /\ s.slides = [i \in 1..Len(s.slides) |-> s.slides[i]]
      BY <1>2
    <2> QED  BY <2>1, <2>2
  <1>5. Append(s.slides, Trim(s.cur)) \in Seq(CleanTexts)
    BY <1>3, <1>4
  <1> QED  BY <1>5 DEF SplitMarp, s

-----------------------------------------------------------------------------
\* The deck view counts as the tools cut.
CountType == [n : Nat, fence : BOOLEAN, blank : BOOLEAN]
Counts(s, x, t) ==
  /\ s \in CountType /\ t \in CountType
  /\ x = Fence => t.n = s.n /\ t.fence = ~s.fence /\ t.blank = FALSE
  /\ Breaks(s, x) => t.n = s.n + 1 /\ t.fence = FALSE /\ t.blank = FALSE
  /\ x # Fence /\ ~Breaks(s, x) => t.n = s.n /\ t.fence = s.fence /\ t.blank = (x = NoLine)

LEMMA StartsCounts ==
  ASSUME NEW s \in CountType, NEW x \in Line
  PROVE  Counts(s, x, Starts(s, x))
  <1>1. DOMAIN s = {"n", "fence", "blank"} /\ s.n \in Nat /\ s.fence \in BOOLEAN /\ s.blank \in BOOLEAN
    BY DEF CountType
  <1> DEFINE t == Starts(s, x)
  <1>2. CASE x = Fence
    <2>1. t = [s EXCEPT !.fence = ~@, !.blank = FALSE]
      BY <1>2, StartsDoes
    <2>2. t = [n |-> s.n, fence |-> ~s.fence, blank |-> FALSE]
      BY <1>1, <2>1
    <2>3. ~Breaks(s, x)
      BY <1>2, LinesAre DEF Breaks
    <2> QED  BY <1>1, <1>2, <2>2, <2>3 DEF Counts, CountType
  <1>3. CASE x # Fence /\ Breaks(s, x)
    <2>1. t = [s EXCEPT !.n = @ + 1, !.blank = FALSE]
      BY <1>3, StartsDoes, LinesAre DEF Breaks
    <2>2. t = [n |-> s.n + 1, fence |-> s.fence, blank |-> FALSE] /\ s.fence = FALSE
      BY <1>1, <1>3, <2>1 DEF Breaks
    <2> QED  BY <1>1, <1>3, <2>2 DEF Counts, CountType
  <1>4. CASE x # Fence /\ ~Breaks(s, x)
    <2>1. t = [s EXCEPT !.n = @, !.blank = (x = NoLine)]
      BY <1>4, StartsDoes DEF Breaks
    <2>2. t = [n |-> s.n, fence |-> s.fence, blank |-> (x = NoLine)]
      BY <1>1, <2>1
    <2> QED  BY <1>1, <1>4, <2>2 DEF Counts, CountType
  <1> QED  BY <1>2, <1>3, <1>4

LEMMA CountsType == ASSUME NEW l \in Text PROVE CountOf(l) \in CountType
  <1> DEFINE G == {t \in Text : CountOf(t) \in CountType}
  <1>1. <<>> \in G
    <2>1. <<>> \in Text
      BY DEF Text
    <2>2. Counting \in CountType
      BY DEF Counting, CountType
    <2> QED  BY <2>1, <2>2, OfNoLines
  <1>2. ASSUME NEW t \in Seq(Line), NEW x \in Line, t \in G PROVE Append(t, x) \in G
    <2>1. Append(t, x) \in Text /\ CountOf(t) \in CountType
      BY <1>2 DEF Text
    <2>2. CountOf(Append(t, x)) = Starts(CountOf(t), x)
      BY OfOneMore
    <2>3. Counts(CountOf(t), x, Starts(CountOf(t), x))
      BY <2>1, StartsCounts
    <2> QED  BY <2>1, <2>2, <2>3 DEF Counts
  <1> HIDE DEF G
  <1>3. l \in G
    BY <1>1, <1>2, ListInduction DEF Text
  <1> QED  BY <1>3 DEF G

LEMMA LineCounted ==
  ASSUME NEW l \in Text, NEW x \in Line
  PROVE  Counts(CountOf(l), x, CountOf(Append(l, x)))
  <1>1. CountOf(Append(l, x)) = Starts(CountOf(l), x)
    BY OfOneMore DEF Text
  <1> QED  BY <1>1, CountsType, StartsCounts

\* A text that no slide ends in, read where a slide may begin, adds no slide.
SameCount(z, b, d) == b.slides = <<>> => d.n = z.n /\ d.fence = b.fence /\ d.blank = b.blank
LEMMA CountAfter ==
  ASSUME NEW l \in Text, NEW m \in Text, ~CountOf(l).fence, CountOf(l).blank
  PROVE  SameCount(CountOf(l), ScanMarp(m), CountOf(l \o m))
  <1> DEFINE z == CountOf(l)
             G == {t \in Text : SameCount(z, ScanMarp(t), CountOf(l \o t))}
  <1>0. z \in CountType /\ <<>> \in Text
    BY CountsType DEF Text
  <1>1. <<>> \in G
    <2>1. l \o <<>> = l
      BY DEF Text
    <2>2. ScanMarp(<<>>).fence = FALSE /\ ScanMarp(<<>>).blank = TRUE
      BY OfNoLines DEF Start
    <2>3. z.fence = FALSE /\ z.blank = TRUE
      BY <1>0 DEF CountType
    <2> QED  BY <1>0, <2>1, <2>2, <2>3 DEF SameCount
  <1>2. ASSUME NEW t \in Seq(Line), NEW x \in Line, t \in G PROVE Append(t, x) \in G
    <2>1. t \in Text /\ SameCount(z, ScanMarp(t), CountOf(l \o t))
      BY <1>2
    <2> HIDE DEF z
    <2> DEFINE u == Append(t, x)
               a == ScanMarp(t)
               b == ScanMarp(u)
               c == CountOf(l \o t)
               d == CountOf(l \o u)
    <2>2. l \o t \in Text /\ u \in Text /\ Append(l \o t, x) = l \o u
      BY <2>1, OneLineOn
    <2> HIDE DEF u
    <2>3. ReadsLine(a, x, b) /\ Counts(c, x, d)
      BY <2>1, <2>2, LineRead, LineCounted DEF u
    <2> HIDE DEF a, b, c, d
    <2>4. ASSUME b.slides = <<>> PROVE ~Breaks(a, x) /\ a.slides = <<>>
      <3>1. \A s \in Seq(Text), q \in Text : Append(s, q) # <<>>
        OBVIOUS
      <3>2. a.slides \in Seq(Text) /\ Trim(a.cur) \in Text
        BY <2>3, TrimText DEF ReadsLine, Scan
      <3>3. ~Breaks(a, x)
        BY <2>3, <2>4, <3>1, <3>2 DEF ReadsLine
      <3> QED  BY <2>3, <2>4, <3>3 DEF ReadsLine
    <2>5. ASSUME b.slides = <<>> PROVE d.n = z.n /\ d.fence = b.fence /\ d.blank = b.blank
      <3>1. ~Breaks(a, x) /\ a.slides = <<>> /\ c.n = z.n /\ c.fence = a.fence /\ c.blank = a.blank
        BY <2>1, <2>4, <2>5 DEF SameCount, a, c
      <3>2. ~Breaks(c, x)
        BY <3>1 DEF Breaks
      <3>3. CASE x = Fence
        BY <2>3, <3>1, <3>3 DEF Counts, ReadsLine
      <3>4. CASE x # Fence
        BY <2>3, <3>1, <3>2, <3>4 DEF Counts, ReadsLine
      <3> QED  BY <3>3, <3>4
    <2> QED  BY <2>2, <2>5 DEF SameCount, b, d, u
  <1> HIDE DEF G
  <1>3. m \in G
    BY <1>1, <1>2, ListInduction DEF Text
  <1> QED  BY <1>3 DEF G

\* No break is right under another.
Spaced(l) == \A i \in 1 .. Len(l) - 1 : ScanMarp(SubSeq(l, 1, i)).cur = <<>> => l[i + 1] # Rule

\* s was read of a text and c counted: right after a break only the tools take the line for blank.
Agree(s, c) ==
  /\ c.n = Len(s.slides) + 1 /\ c.fence = s.fence
  /\ s.cur # <<>> => c.blank = s.blank

LEMMA AgreeOn ==
  ASSUME NEW s, NEW t, NEW c, NEW d, NEW x \in Line, ReadsLine(s, x, t), Counts(c, x, d), Agree(s, c),
         s.cur = <<>> => x # Rule \/ c.blank = s.blank
  PROVE  Agree(t, d)
  <1>1. s \in Scan /\ t \in Scan /\ c \in CountType /\ d \in CountType
    BY DEF ReadsLine, Counts
  <1>2. Trim(s.cur) \in Text /\ s.slides \in Seq(Text) /\ s.cur \in Seq(Line)
    BY <1>1, TrimText DEF Scan, Text
  <1>3. /\ \A q \in Seq(Text), u \in Text : Len(Append(q, u)) = Len(q) + 1 /\ Len(q) \in Nat
        /\ \A q \in Seq(Line) : Append(q, x) # <<>>
    OBVIOUS
  <1>4. Breaks(s, x) <=> Breaks(c, x)
    BY DEF Breaks, Agree
  <1>5. CASE Breaks(s, x)
    <2>1. t.slides = Append(s.slides, Trim(s.cur)) /\ t.cur = <<>> /\ t.fence = FALSE /\ d.n = c.n + 1 /\ d.fence = FALSE
      BY <1>4, <1>5 DEF ReadsLine, Counts
    <2>2. Len(t.slides) = Len(s.slides) + 1 /\ Len(s.slides) \in Nat
      BY <1>2, <1>3, <2>1
    <2> QED  BY <2>1, <2>2 DEF Agree
  <1>6. CASE ~Breaks(s, x)
    <2>1. t.slides = s.slides /\ t.fence = d.fence /\ t.blank = d.blank /\ d.n = c.n
      BY <1>4, <1>6 DEF ReadsLine, Counts, Agree
    <2> QED  BY <2>1 DEF Agree
  <1> QED  BY <1>5, <1>6

LEMMA SpacedCounts ==
  ASSUME NEW l \in Text, Spaced(l)
  PROVE  CountOf(l).n = Len(SplitMarp(l))
  <1> DEFINE G == {t \in Text : Spaced(t) => Agree(ScanMarp(t), CountOf(t))}
  <1>1. <<>> \in G
    <2>1. <<>> \in Text /\ Len(<<>>) = 0
      BY DEF Text
    <2>2. Agree(Start, Counting)
      BY <2>1 DEF Agree, Start, Counting
    <2> QED  BY <2>1, <2>2, OfNoLines
  <1>2. ASSUME NEW t \in Seq(Line), NEW x \in Line, t \in G PROVE Append(t, x) \in G
    <2> DEFINE u == Append(t, x)
    <2>1. t \in Text /\ (Spaced(t) => Agree(ScanMarp(t), CountOf(t)))
      BY <1>2
    <2>2. Spaced(u) => Spaced(t) /\ (t # <<>> /\ ScanMarp(t).cur = <<>> => x # Rule)
      <3>1. /\ Len(t) \in Nat /\ Len(u) = Len(t) + 1
            /\ \A i \in 1..Len(t) : SubSeq(u, 1, i) = SubSeq(t, 1, i) /\ u[i] = t[i]
            /\ u[Len(t) + 1] = x /\ SubSeq(t, 1, Len(t)) = t /\ (t # <<>> => Len(t) \in 1..Len(t))
        OBVIOUS
      <3> HIDE DEF u
      <3>2. ASSUME Spaced(u) PROVE Spaced(t)
        <4> SUFFICES ASSUME NEW i \in 1 .. Len(t) - 1, ScanMarp(SubSeq(t, 1, i)).cur = <<>> PROVE t[i + 1] # Rule
          BY DEF Spaced
        <4>1. i \in 1 .. Len(u) - 1 /\ i \in 1 .. Len(t) /\ i + 1 \in 1 .. Len(t)
          BY <3>1
        <4>2. SubSeq(u, 1, i) = SubSeq(t, 1, i) /\ u[i + 1] = t[i + 1]
          BY <3>1, <4>1
        <4>3. ScanMarp(SubSeq(u, 1, i)).cur = <<>>
          BY <4>2
        <4> QED  BY <3>2, <4>1, <4>2, <4>3 DEF Spaced
      <3>3. ASSUME Spaced(u), t # <<>>, ScanMarp(t).cur = <<>> PROVE x # Rule
        <4>1. Len(t) \in 1 .. Len(u) - 1 /\ SubSeq(u, 1, Len(t)) = t
          BY <3>1, <3>3
        <4>2. ScanMarp(SubSeq(u, 1, Len(t))).cur = <<>>
          BY <3>3, <4>1
        <4> QED  BY <3>1, <3>3, <4>1, <4>2 DEF Spaced
      <3> QED  BY <3>2, <3>3
    <2>3. ReadsLine(ScanMarp(t), x, ScanMarp(u)) /\ Counts(CountOf(t), x, CountOf(u)) /\ u \in Text
      BY <2>1, LineRead, LineCounted
    <2>4. t = <<>> => CountOf(t).blank = ScanMarp(t).blank
      <3>1. Start.blank = TRUE /\ Counting.blank = TRUE
        BY DEF Start, Counting
      <3> QED  BY <3>1, OfNoLines
    <2> HIDE DEF u
    <2>5. Spaced(u) => Agree(ScanMarp(u), CountOf(u))
      BY <2>1, <2>2, <2>3, <2>4, AgreeOn
    <2> QED  BY <2>3, <2>5 DEF u
  <1> HIDE DEF G
  <1>3. l \in G
    BY <1>1, <1>2, ListInduction DEF Text
  <1>4. CountOf(l).n = Len(ScanMarp(l).slides) + 1
    BY <1>3 DEF G, Agree
  <1>5. ScanMarp(l).slides \in Seq(Text) /\ Trim(ScanMarp(l).cur) \in Text
    BY ScanType, TrimText DEF Scan
  <1>6. Len(SplitMarp(l)) = Len(ScanMarp(l).slides) + 1
    BY <1>5 DEF SplitMarp
  <1> QED  BY <1>4, <1>6

-----------------------------------------------------------------------------
\* What is read of slides that were joined: all but the last of them, and the last being read.
ReadBack(ss, d, s, c) ==
  /\ d \in Text /\ ss # <<>>
  /\ \E last \in CleanTexts : ss = Append(s.slides, last) /\ s.cur = <<NoLine>> \o last
  /\ s.fence = FALSE /\ c.fence = FALSE /\ c.n = Len(ss)

\* A clean text comes after the blank line at the top of a slide.
LEMMA CleanAfter ==
  ASSUME NEW l \in Text, NEW m \in CleanTexts, ScanMarp(l).cur = <<NoLine>>, ScanMarp(l).fence = FALSE,
         ScanMarp(l).blank = TRUE, CountOf(l).fence = FALSE, CountOf(l).blank = TRUE
  PROVE  /\ l \o m \in Text
         /\ ScanMarp(l \o m).slides = ScanMarp(l).slides /\ ScanMarp(l \o m).cur = <<NoLine>> \o m
         /\ ScanMarp(l \o m).fence = FALSE /\ CountOf(l \o m).fence = FALSE /\ CountOf(l \o m).n = CountOf(l).n
  <1>1. m \in Text /\ ScanMarp(m).slides = <<>> /\ ~ScanMarp(m).fence /\ ScanMarp(m) \in Scan
    BY ScanType DEF CleanTexts, Clean
  <1>2. ScanMarp(m).fence = FALSE
    BY <1>1 DEF Scan
  <1>3. ReadOn(ScanMarp(l), m, ScanMarp(m), ScanMarp(l \o m)) /\ SameCount(CountOf(l), ScanMarp(m), CountOf(l \o m))
    BY <1>1, ReadAfter, CountAfter
  <1>4. l \o m \in Text
    BY <1>1 DEF Text
  <1> QED  BY <1>1, <1>2, <1>3, <1>4 DEF ReadOn, SameCount

LEMMA JoinOne ==
  ASSUME NEW x \in CleanTexts
  PROVE  ReadBack(<<x>>, <<NoLine>> \o x, ScanMarp(<<NoLine>> \o x), CountOf(<<NoLine>> \o x))
  <1> DEFINE l == <<NoLine>>
  <1>1. l = Append(<<>>, NoLine) /\ <<>> \in Text /\ NoLine \in Line /\ Append(<<>>, NoLine) = <<NoLine>>
    BY LinesAre DEF Text
  <1>2. ReadsLine(Start, NoLine, ScanMarp(l)) /\ Counts(Counting, NoLine, CountOf(l)) /\ l \in Text
    BY <1>1, OfNoLines, LineRead, LineCounted
  <1> HIDE DEF l
  <1>3. ScanMarp(l).slides = <<>> /\ ScanMarp(l).cur = <<NoLine>> /\ ScanMarp(l).fence = FALSE /\ ScanMarp(l).blank = TRUE
    BY <1>1, <1>2, LinesAre DEF ReadsLine, Start, Breaks
  <1>4. CountOf(l).n = 1 /\ CountOf(l).fence = FALSE /\ CountOf(l).blank = TRUE
    BY <1>2, LinesAre DEF Counts, Counting, Breaks
  <1> DEFINE k == l \o x
  <1>5. /\ k \in Text /\ ScanMarp(k).slides = <<>> /\ ScanMarp(k).cur = <<NoLine>> \o x
        /\ ScanMarp(k).fence = FALSE /\ CountOf(k).fence = FALSE /\ CountOf(k).n = 1
    BY <1>2, <1>3, <1>4, CleanAfter
  <1>6. <<x>> = Append(<<>>, x) /\ Len(<<x>>) = 1 /\ <<x>> # <<>>
    OBVIOUS
  <1> HIDE DEF k
  <1>7. ReadBack(<<x>>, k, ScanMarp(k), CountOf(k))
    BY <1>5, <1>6 DEF ReadBack
  <1> QED  BY <1>7 DEF k, l

LEMMA JoinMore ==
  ASSUME NEW ss \in Seq(CleanTexts), NEW x \in CleanTexts, NEW d,
         ReadBack(ss, d, ScanMarp(d), CountOf(d)),
         NEW e, e = d \o <<NoLine, Rule, NoLine>> \o x
  PROVE  ReadBack(Append(ss, x), e, ScanMarp(e), CountOf(e))
  <1>1. PICK last \in CleanTexts : ss = Append(ScanMarp(d).slides, last) /\ ScanMarp(d).cur = <<NoLine>> \o last
    BY DEF ReadBack
  <1> DEFINE a == Append(d, NoLine)
             b == Append(a, Rule)
             l == Append(b, NoLine)
  <1>2. d \in Text /\ ScanMarp(d).fence = FALSE /\ CountOf(d).fence = FALSE /\ CountOf(d).n = Len(ss)
    BY DEF ReadBack
  <1>3. ReadsLine(ScanMarp(d), NoLine, ScanMarp(a)) /\ Counts(CountOf(d), NoLine, CountOf(a)) /\ a \in Text
    BY <1>2, LinesAre, LineRead, LineCounted
  <1>4. ReadsLine(ScanMarp(a), Rule, ScanMarp(b)) /\ Counts(CountOf(a), Rule, CountOf(b)) /\ b \in Text
    BY <1>3, LinesAre, LineRead, LineCounted
  <1>5. ReadsLine(ScanMarp(b), NoLine, ScanMarp(l)) /\ Counts(CountOf(b), NoLine, CountOf(l)) /\ l \in Text
    BY <1>4, LinesAre, LineRead, LineCounted
  <1>6. e = l \o x
    BY <1>2, LinesAre DEF Text, CleanTexts
  <1> HIDE DEF a, b, l
  <1>7. /\ ScanMarp(a).slides = ScanMarp(d).slides /\ ScanMarp(a).cur = Append(<<NoLine>> \o last, NoLine)
        /\ ScanMarp(a).fence = FALSE /\ ScanMarp(a).blank = TRUE
        /\ CountOf(a).n = Len(ss) /\ CountOf(a).fence = FALSE /\ CountOf(a).blank = TRUE
    BY <1>1, <1>2, <1>3, LinesAre DEF ReadsLine, Counts, Breaks
  <1>8. Trim(ScanMarp(a).cur) = last
    <2>1. last \in Text /\ Trim(last) = last
      BY DEF CleanTexts, Clean
    <2>2. Append(<<NoLine>> \o last, NoLine) = <<NoLine>> \o last \o <<NoLine>>
      BY <2>1, LinesAre DEF Text
    <2> QED  BY <1>7, <2>1, <2>2, TrimPadded
  <1>9. /\ ScanMarp(b).slides = ss /\ ScanMarp(b).cur = <<>> /\ ScanMarp(b).fence = FALSE
        /\ CountOf(b).n = Len(ss) + 1 /\ CountOf(b).fence = FALSE
    BY <1>1, <1>4, <1>7, <1>8 DEF ReadsLine, Counts, Breaks
  <1>10. Append(<<>>, NoLine) = <<NoLine>>
    OBVIOUS
  <1>11. /\ ScanMarp(l).slides = ss /\ ScanMarp(l).cur = <<NoLine>> /\ ScanMarp(l).fence = FALSE /\ ScanMarp(l).blank = TRUE
         /\ CountOf(l).n = Len(ss) + 1 /\ CountOf(l).fence = FALSE /\ CountOf(l).blank = TRUE
    BY <1>5, <1>9, <1>10, LinesAre DEF ReadsLine, Counts, Breaks
  <1>12. /\ e \in Text /\ ScanMarp(e).slides = ss /\ ScanMarp(e).cur = <<NoLine>> \o x
         /\ ScanMarp(e).fence = FALSE /\ CountOf(e).fence = FALSE /\ CountOf(e).n = Len(ss) + 1
    <2>1. l \in Text
      BY <1>5
    <2>2. /\ l \o x \in Text /\ ScanMarp(l \o x).slides = ss /\ ScanMarp(l \o x).cur = <<NoLine>> \o x
          /\ ScanMarp(l \o x).fence = FALSE /\ CountOf(l \o x).fence = FALSE /\ CountOf(l \o x).n = Len(ss) + 1
      BY <1>11, <2>1, CleanAfter
    <2> QED  BY <1>6, <2>2
  <1>13. Append(ss, x) # <<>> /\ Len(Append(ss, x)) = Len(ss) + 1
    OBVIOUS
  <1> QED  BY <1>12, <1>13 DEF ReadBack

LEMMA JoinReadBack ==
  ASSUME NEW ss \in Seq(CleanTexts), ss # <<>>
  PROVE  ReadBack(ss, JoinMarp(ss), ScanMarp(JoinMarp(ss)), CountOf(JoinMarp(ss)))
  <1> DEFINE Back(t) == ReadBack(t, JoinMarp(t), ScanMarp(JoinMarp(t)), CountOf(JoinMarp(t)))
             G == {t \in Seq(CleanTexts) : t # <<>> => Back(t)}
  <1>1. <<>> \in G
    OBVIOUS
  <1>2. ASSUME NEW t \in Seq(CleanTexts), NEW x \in CleanTexts, t \in G PROVE Append(t, x) \in G
    <2>1. JoinMarp(Append(t, x)) = JoinMarp(t) \o Gap(Len(t) + 1) \o x
      <3>1. Trim(x) = x
        BY DEF CleanTexts, Clean
      <3> QED  BY <3>1, OfOneMore
    <2>2. Back(Append(t, x))
      <3>1. CASE t = <<>>
        <4>1. Append(t, x) = <<x>> /\ Len(t) + 1 = 1
          BY <3>1
        <4>2. Gap(1) = <<NoLine>>
          BY DEF Gap
        <4>3. <<>> \o <<NoLine>> = <<NoLine>>
          OBVIOUS
        <4>4. JoinMarp(Append(t, x)) = <<NoLine>> \o x
          BY <2>1, <3>1, <4>1, <4>2, <4>3, OfNoLines
        <4> QED  BY <4>1, <4>4, JoinOne
      <3>2. CASE t # <<>>
        <4>1. Len(t) + 1 # 1
          BY <3>2
        <4>2. Gap(Len(t) + 1) = <<NoLine, Rule, NoLine>>
          BY <4>1 DEF Gap
        <4>3. Back(t)
          BY <1>2, <3>2
        <4>4. JoinMarp(Append(t, x)) = JoinMarp(t) \o <<NoLine, Rule, NoLine>> \o x
          BY <2>1, <4>2
        <4> QED  BY <4>3, <4>4, JoinMore
      <3> QED  BY <3>1, <3>2
    <2>3. Append(t, x) \in Seq(CleanTexts)
      OBVIOUS
    <2> HIDE DEF Back
    <2> QED  BY <2>2, <2>3
  <1> HIDE DEF G
  <1>3. ss \in G
    BY <1>1, <1>2, ListInduction
  <1> QED  BY <1>3 DEF G

\* Slides that are joined are cut into the same slides, and counted.
LEMMA SplitJoined ==
  ASSUME NEW ss \in Seq(CleanTexts)
  PROVE  /\ JoinMarp(ss) \in Text /\ ~ScanMarp(JoinMarp(ss)).fence
         /\ ss # <<>> => SplitMarp(JoinMarp(ss)) = ss
         /\ CountOf(JoinMarp(ss)).n = Len(SplitMarp(JoinMarp(ss)))
  <1>1. CASE ss = <<>>
    <2>1. <<>> \in Text /\ Trim(<<>>) = <<>>
      BY EmptyClean DEF Clean
    <2>2. Start.slides = <<>> /\ Start.cur = <<>> /\ Start.fence = FALSE /\ Counting.n = 1
      BY DEF Start, Counting
    <2>3. SplitMarp(<<>>) = Append(<<>>, Trim(<<>>))
      BY <2>2, OfNoLines DEF SplitMarp
    <2>4. Len(Append(<<>>, <<>>)) = 1
      OBVIOUS
    <2>5. Len(SplitMarp(<<>>)) = 1
      BY <2>1, <2>3, <2>4
    <2> QED  BY <1>1, <2>1, <2>2, <2>5, OfNoLines
  <1>2. CASE ss # <<>>
    <2> DEFINE d == JoinMarp(ss)
    <2>1. ReadBack(ss, d, ScanMarp(d), CountOf(d))
      BY <1>2, JoinReadBack
    <2> HIDE DEF d
    <2>2. PICK last \in CleanTexts : ss = Append(ScanMarp(d).slides, last) /\ ScanMarp(d).cur = <<NoLine>> \o last
      BY <2>1 DEF ReadBack
    <2>3. Trim(<<NoLine>> \o last) = last
      BY TrimPadded DEF CleanTexts, Clean
    <2>4. SplitMarp(d) = ss
      BY <2>2, <2>3 DEF SplitMarp
    <2> QED  BY <2>1, <2>4 DEF ReadBack, d
  <1> QED  BY <1>1, <1>2
-----------------------------------------------------------------------------
(* What the constants say.                                                 *)

LEMMA StringsAreText == ASSUME NEW l \in Seq(STRING) PROVE l \in Text
  <1>1. \A i \in 1..Len(l) : l[i] \in Line
    BY DEF Line
  <1>2. Len(l) \in Nat /\ l = [i \in 1..Len(l) |-> l[i]]
    OBVIOUS
  <1>3. l \in Seq(Line)
    BY <1>1, <1>2
  <1> QED  BY <1>3 DEF Text

LEMMA OneSlideClean == ASSUME NEW s, OneSlide(s) PROVE s \in CleanTexts
  <1>1. s \in Text /\ ~ScanMarp(s).fence /\ Append(ScanMarp(s).slides, Trim(ScanMarp(s).cur)) = <<s>>
    BY StringsAreText DEF OneSlide, SplitMarp
  <1>2. ScanMarp(s).slides \in Seq(Text) /\ Trim(ScanMarp(s).cur) \in Text
    BY <1>1, ScanType, TrimText DEF Scan
  <1>3. \A q \in Seq(Text), u \in Text : Append(q, u) = <<s>> => q = <<>> /\ u = s
    <2> SUFFICES ASSUME NEW q \in Seq(Text), NEW u \in Text, Append(q, u) = <<s>> PROVE q = <<>> /\ u = s
      OBVIOUS
    <2>1. Len(Append(q, u)) = Len(q) + 1 /\ Len(q) \in Nat
      OBVIOUS
    <2>2. Append(q, u)[Len(q) + 1] = u
      BY AppendProperties
    <2>3. Len(<<s>>) = 1 /\ <<s>>[1] = s
      OBVIOUS
    <2>4. Len(q) = 0
      BY <2>1, <2>3
    <2>5. q = <<>>
      BY <2>4
    <2> QED  BY <2>2, <2>3, <2>4, <2>5
  <1>4. ScanMarp(s).slides = <<>> /\ Trim(ScanMarp(s).cur) = s
    BY <1>1, <1>2, <1>3
  <1> QED  BY <1>1, <1>4, NoSlideCut DEF CleanTexts, Clean

LEMMA WellCutIs ==
  ASSUME NEW l, WellCut(l)
  PROVE  l \in Text /\ ~ScanMarp(l).fence /\ CountOf(l).n = Len(SplitMarp(l))
  <1>1. l \in Text /\ ~ScanMarp(l).fence /\ Spaced(l)
    BY StringsAreText DEF WellCut, Spaced, Rule
  <1> QED  BY <1>1, SpacedCounts

LEMMA GenericClean == Generic \subseteq CleanTexts
  <1>1. /\ \A s \in Generic : s = <<s[1]>>
        /\ \A s \in Generic : s[1] # NoLine /\ s[1] # Rule /\ s[1] # Fence
    BY DEF Generic, NoLine, Rule, Fence
  <1> SUFFICES ASSUME NEW s \in Generic PROVE s \in CleanTexts
    OBVIOUS
  <1> DEFINE x == s[1]
  <1>2. x \in Line /\ x # NoLine /\ x # Rule /\ x # Fence /\ s = <<x>>
    BY <1>1 DEF Line
  <1> HIDE DEF x
  <1>3. <<>> \in Text /\ s = Append(<<>>, x) /\ Len(s) = 1 /\ s # <<>> /\ s[1] = x /\ s[Len(s)] = x
    BY <1>2 DEF Text
  <1>4. ReadsLine(ScanMarp(<<>>), x, ScanMarp(s)) /\ s \in Text
    BY <1>2, <1>3, LineRead
  <1>5. ScanMarp(<<>>).slides = <<>> /\ ScanMarp(<<>>).fence = FALSE
    <2>1. Start.slides = <<>> /\ Start.fence = FALSE
      BY DEF Start
    <2> QED  BY <2>1, OfNoLines
  <1>6. ScanMarp(s).slides = <<>> /\ ScanMarp(s).fence = FALSE
    BY <1>2, <1>4, <1>5 DEF ReadsLine, Breaks
  <1>7. Trim(s) = s
    BY <1>2, <1>3, <1>4, TrimmedIs
  <1> QED  BY <1>4, <1>6, <1>7 DEF CleanTexts, Clean

Templates == UNION {Catalog[t] : t \in DOMAIN Catalog}
LEMMA ConstantsClean ==
  /\ SlideText \subseteq CleanTexts /\ Templates \subseteq CleanTexts
  /\ \A t \in DOMAIN Catalog : Catalog[t] \subseteq CleanTexts /\ IsFiniteSet(Catalog[t])
  /\ \A theme : TemplatesOf(theme) \subseteq CleanTexts /\ IsFiniteSet(TemplatesOf(theme))
  /\ IsFiniteSet(Generic)
  <1>1. SlideText \subseteq CleanTexts /\ Templates \subseteq CleanTexts
    BY DeckAssumption, OneSlideClean DEF Templates
  <1>2. \A t \in DOMAIN Catalog : Catalog[t] \subseteq CleanTexts /\ IsFiniteSet(Catalog[t])
    BY <1>1, DeckAssumption DEF Templates
  <1>3. IsFiniteSet(Generic)
    <2>1. IsFiniteSet({<<"title">>}) /\ IsFiniteSet({<<"points">>})
      BY FS_Singleton
    <2>2. Generic = {<<"title">>} \cup {<<"points">>}
      BY DEF Generic
    <2> QED  BY <2>1, <2>2, FS_Union
  <1> QED  BY <1>1, <1>2, <1>3, GenericClean DEF TemplatesOf

-----------------------------------------------------------------------------
(* Lists of clean slides.                                                  *)

\* A finite set of slides is a list of them.
LEMMA SlidesListed ==
  ASSUME NEW S, IsFiniteSet(S), S \subseteq CleanTexts
  PROVE  Seqs!SetToSeq(S) \in Seq(CleanTexts)
  <1> DEFINE n == Cardinality(S)
  <1>1. n \in Nat /\ ExistsBijection(1 .. n, S)
    BY FS_CardinalityType
  <1>2. PICK g \in [1 .. n -> S] : Seqs!IsInjective(g)
    BY <1>1 DEF ExistsBijection, Bijection, Injection, IsInjective, Seqs!IsInjective
  <1>3. Seqs!SetToSeq(S) \in [1 .. n -> S]
    <2>1. Seqs!Cardinality(S) = n
      BY DEF Seqs!Cardinality, Cardinality
    <2> HIDE DEF n
    <2> QED  BY <1>2, <2>1 DEF Seqs!SetToSeq
  <1>4. Seqs!SetToSeq(S) \in [1 .. n -> CleanTexts]
    BY <1>3
  <1> QED  BY <1>1, <1>4, SeqDef

LEMMA NewSlidesClean ==
  ASSUME NEW chosen, IsFiniteSet(chosen), chosen \subseteq CleanTexts, NEW own \in Seq(CleanTexts)
  PROVE  NewSlides(chosen, own) \in Seq(CleanTexts)
  <1>1. Seqs!SetToSeq(chosen) \in Seq(CleanTexts)
    BY SlidesListed
  <1> QED  BY <1>1 DEF NewSlides

LEMMA SlidesChanged ==
  ASSUME NEW ss \in Seq(CleanTexts)
  PROVE  /\ \A i \in 1 .. Len(ss) + 1, x \in CleanTexts : Seqs!InsertAt(ss, i, x) \in Seq(CleanTexts)
         /\ \A i \in DOMAIN ss, x \in CleanTexts : [ss EXCEPT ![i] = x] \in Seq(CleanTexts)
         /\ \A i \in DOMAIN ss : /\ Seqs!RemoveAt(ss, i) \in Seq(CleanTexts)
                                  /\ Len(Seqs!RemoveAt(ss, i)) = Len(ss) - 1 /\ ss[i] \in CleanTexts
  <1>1. Len(ss) \in Nat /\ DOMAIN ss = 1 .. Len(ss) /\ \A i \in 1 .. Len(ss) : ss[i] \in CleanTexts
    OBVIOUS
  <1>2. ASSUME NEW i \in 1 .. Len(ss) + 1, NEW x \in CleanTexts PROVE Seqs!InsertAt(ss, i, x) \in Seq(CleanTexts)
    <2>1. i - 1 \in 0 .. Len(ss) /\ i \in Int
      BY <1>1
    <2>2. SubSeq(ss, 1, i - 1) \in Seq(CleanTexts) /\ SubSeq(ss, i, Len(ss)) \in Seq(CleanTexts)
      BY <1>1, <2>1
    <2> QED  BY <2>2 DEF Seqs!InsertAt
  <1>3. ASSUME NEW i \in DOMAIN ss, NEW x \in CleanTexts PROVE [ss EXCEPT ![i] = x] \in Seq(CleanTexts)
    <2>1. [ss EXCEPT ![i] = x] \in [1 .. Len(ss) -> CleanTexts]
      BY <1>1
    <2> QED  BY <1>1, <2>1, SeqDef
  <1>4. ASSUME NEW i \in DOMAIN ss
        PROVE  /\ Seqs!RemoveAt(ss, i) \in Seq(CleanTexts)
               /\ Len(Seqs!RemoveAt(ss, i)) = Len(ss) - 1 /\ ss[i] \in CleanTexts
    <2>1. i - 1 \in 0 .. Len(ss) /\ i \in 1 .. Len(ss) /\ i + 1 \in 1 .. Len(ss) + 1
      BY <1>1
    <2>2. /\ SubSeq(ss, 1, i - 1) \in Seq(CleanTexts) /\ SubSeq(ss, i + 1, Len(ss)) \in Seq(CleanTexts)
          /\ Len(SubSeq(ss, 1, i - 1)) = i - 1 /\ Len(SubSeq(ss, i + 1, Len(ss))) = Len(ss) - i
      BY <1>1, <2>1
    <2>3. \A a \in Seq(CleanTexts), b \in Seq(CleanTexts) : a \o b \in Seq(CleanTexts) /\ Len(a \o b) = Len(a) + Len(b)
      OBVIOUS
    <2>4. (i - 1) + (Len(ss) - i) = Len(ss) - 1
      BY <1>1
    <2> QED  BY <1>1, <2>1, <2>2, <2>3, <2>4 DEF Seqs!RemoveAt
  <1> QED  BY <1>2, <1>3, <1>4

-----------------------------------------------------------------------------
(* What is true of every deck, and of what the tools and the dialog write. *)

DeckOk(d) == d # None => d \in Text /\ ~ScanMarp(d).fence /\ CountOf(d).n = Len(SplitMarp(d))
EditsOk(e) == DOMAIN e = Author /\ \A a \in Author : e[a] # None => e[a] \in Seq(CleanTexts)
DialogOk(d) ==
  /\ {"open", "loaded", "themes", "theme", "picked", "posting", "told"} \subseteq DOMAIN d
  /\ IsFiniteSet(d.picked) /\ d.picked \subseteq CleanTexts
  /\ d.posting # None => d.posting \in Seq(CleanTexts)
DeckInv == DeckOk(deck) /\ EditsOk(editing) /\ DialogOk(dialog)

LEMMA JoinedOk == ASSUME NEW ss \in Seq(CleanTexts) PROVE DeckOk(JoinMarp(ss))
  BY SplitJoined DEF DeckOk

LEMMA MadeOk == ASSUME NEW ss \in Seq(CleanTexts) PROVE DeckOk(NewDeck(ss))
  <1>1. <<"title">> \in CleanTexts
    BY GenericClean DEF Generic
  <1>2. <<<<"title">>>> \in Seq(CleanTexts)
    BY <1>1
  <1> QED  BY <1>2, JoinedOk DEF NewDeck

LEMMA DeckInvIs ==
  ASSUME DeckInv
  PROVE  SlidesAsWritten
  <1>1. ASSUME NEW a \in Author, Writing(a), editing[a] # <<>> PROVE SplitMarp(JoinMarp(editing[a])) = editing[a]
    <2>1. editing[a] \in Seq(CleanTexts)
      BY <1>1 DEF DeckInv, EditsOk, Writing
    <2> QED  BY <1>1, <2>1, SplitJoined
  <1>2. ASSUME deck # None PROVE SlideStarts(deck) = Len(Slides)
    BY <1>2 DEF DeckInv, DeckOk, SlideStarts, CountOf, Counting, Slides
  <1> QED  BY <1>1, <1>2 DEF SlidesAsWritten

LEMMA WillKeeps ==
  ASSUME DeckInv, NEW a \in Author, NEW ss \in Seq(CleanTexts), Will(a, ss), UNCHANGED <<deck, dialog>>
  PROVE  DeckInv'
  <1>1. editing' = [editing EXCEPT ![a] = ss] /\ DOMAIN editing = Author
    BY DEF Will, DeckInv, EditsOk
  <1>2. EditsOk(editing')
    BY <1>1 DEF DeckInv, EditsOk
  <1> QED  BY <1>2 DEF DeckInv

LEMMA ToolsKeep ==
  ASSUME DeckInv, NEW a \in Author, NEW i, NEW j, NEW text,
         \/ text \in SlideText /\ (AddSlide(a, i, text) \/ EditSlide(a, i, text))
         \/ DeleteSlide(a, i) \/ MoveSlide(a, i, j)
  PROVE  DeckInv'
  <1>1. deck # None /\ UNCHANGED <<deck, dialog>>
    BY DEF AddSlide, EditSlide, DeleteSlide, MoveSlide, LoadMarp
  <1>2. Slides \in Seq(CleanTexts)
    BY <1>1, SplitClean DEF DeckInv, DeckOk, Slides
  <1>3. text \in SlideText => text \in CleanTexts
    BY ConstantsClean
  <1>4. CASE text \in SlideText /\ AddSlide(a, i, text)
    <2>1. Seqs!InsertAt(Slides, i, text) \in Seq(CleanTexts) /\ Will(a, Seqs!InsertAt(Slides, i, text))
      BY <1>2, <1>3, <1>4, SlidesChanged DEF AddSlide
    <2> QED  BY <1>1, <2>1, WillKeeps
  <1>5. CASE text \in SlideText /\ EditSlide(a, i, text)
    <2>1. [Slides EXCEPT ![i] = text] \in Seq(CleanTexts) /\ Will(a, [Slides EXCEPT ![i] = text])
      BY <1>2, <1>3, <1>5, SlidesChanged DEF EditSlide
    <2> QED  BY <1>1, <2>1, WillKeeps
  <1>6. CASE DeleteSlide(a, i)
    <2>1. Seqs!RemoveAt(Slides, i) \in Seq(CleanTexts) /\ Will(a, Seqs!RemoveAt(Slides, i))
      BY <1>2, <1>6, SlidesChanged DEF DeleteSlide
    <2> QED  BY <1>1, <2>1, WillKeeps
  <1>7. CASE MoveSlide(a, i, j)
    <2> DEFINE rest == Seqs!RemoveAt(Slides, i)
    <2>1. i \in DOMAIN Slides /\ j \in DOMAIN Slides /\ Will(a, Seqs!InsertAt(rest, j, Slides[i]))
      BY <1>7 DEF MoveSlide
    <2>2. rest \in Seq(CleanTexts) /\ Len(rest) = Len(Slides) - 1 /\ Slides[i] \in CleanTexts
      BY <1>2, <2>1, SlidesChanged
    <2>3. DOMAIN Slides = 1 .. Len(Slides) /\ Len(Slides) \in Nat
      BY <1>2
    <2> HIDE DEF rest
    <2>4. j \in 1 .. Len(rest) + 1
      BY <2>1, <2>2, <2>3
    <2>5. Seqs!InsertAt(rest, j, Slides[i]) \in Seq(CleanTexts)
      BY <2>2, <2>4, SlidesChanged
    <2> QED  BY <1>1, <2>1, <2>5, WillKeeps
  <1> QED  BY <1>4, <1>5, <1>6, <1>7

LEMMA SaveKeeps ==
  ASSUME DeckInv, NEW a \in Author, SaveMarp(a)
  PROVE  DeckInv'
  <1>1. editing[a] \in Seq(CleanTexts) /\ deck' = JoinMarp(editing[a])
        /\ editing' = [editing EXCEPT ![a] = None] /\ DOMAIN editing = Author /\ dialog' = dialog
    BY DEF SaveMarp, Writing, DeckInv, EditsOk
  <1>2. DeckOk(deck')
    BY <1>1, JoinedOk
  <1>3. EditsOk(editing')
    BY <1>1 DEF DeckInv, EditsOk
  <1> QED  BY <1>1, <1>2, <1>3 DEF DeckInv

LEMMA PersonKeeps ==
  ASSUME DeckInv, NEW lines \in RawDeck, PersonWrites(lines)
  PROVE  DeckInv'
  <1>1. deck' = lines /\ editing' = editing /\ dialog' = dialog
    BY DEF PersonWrites
  <1>2. WellCut(lines)
    BY DeckAssumption
  <1>3. DeckOk(deck')
    BY <1>1, <1>2, WellCutIs DEF DeckOk
  <1> QED  BY <1>1, <1>3 DEF DeckInv

LEMMA CreateKeeps ==
  ASSUME DeckInv, NEW a, NEW readable, NEW theme \in DOMAIN Catalog \cup {None, "default"},
         NEW chosen \in SUBSET Templates, NEW text \in SlideText,
         CreateMarp(a, readable, theme, chosen, <<text>>)
  PROVE  DeckInv'
  <1>1. UNCHANGED <<editing, dialog>> /\ deck' = NewDeck(NewSlides(chosen, <<text>>))
    BY DEF CreateMarp, Makes
  <1>2. <<text>> \in Seq(CleanTexts)
    <2>1. text \in CleanTexts
      BY ConstantsClean
    <2> QED  BY <2>1
  <1>3. IsFiniteSet(chosen)
    <2>1. chosen # {} => theme # None /\ theme # "default" /\ chosen \subseteq Catalog[theme]
      BY DEF CreateMarp
    <2>2. chosen # {} => \E t \in DOMAIN Catalog : chosen \subseteq Catalog[t]
      BY <2>1
    <2> QED  BY <2>2, ConstantsClean, FS_Subset, FS_EmptySet
  <1>4. chosen \subseteq CleanTexts
    BY ConstantsClean
  <1>5. DeckOk(deck')
    BY <1>1, <1>2, <1>3, <1>4, NewSlidesClean, MadeOk
  <1> QED  BY <1>1, <1>5 DEF DeckInv

LEMMA DialogOpensOk == DialogOk([NoDialog EXCEPT !.open = TRUE, !.picked = Generic]) /\ DialogOk(NoDialog)
  <1>1. DialogOk(NoDialog)
    BY FS_EmptySet DEF DialogOk, NoDialog
  <1>2. DialogOk([NoDialog EXCEPT !.open = TRUE, !.picked = Generic])
    BY ConstantsClean, GenericClean DEF DialogOk, NoDialog
  <1> QED  BY <1>1, <1>2

LEMMA StartOk == ASSUME DialogOk(dialog), NEW theme PROVE DialogOk(StartFrom(theme))
  <1>1. IsFiniteSet(TemplatesOf(theme)) /\ TemplatesOf(theme) \subseteq CleanTexts
    BY ConstantsClean
  <1> QED  BY <1>1 DEF DialogOk, StartFrom

LEMMA DialogKept ==
  ASSUME DeckInv, NEW d, DialogOk(d), Dialog(d)
  PROVE  DeckInv'
  BY DEF Dialog, DeckInv

LEMMA DialogKeeps ==
  ASSUME DeckInv,
         \/ DialogOpens \/ CatalogLoaded \/ Create \/ CreateAnswered \/ DialogCloses
         \/ \E theme \in DOMAIN Catalog \cup {"default"} : PickTheme(theme)
         \/ \E t \in Generic \cup Templates : ToggleTemplate(t)
  PROVE  DeckInv'
  <1>0. DialogOk(dialog)
    BY DEF DeckInv
  <1>1. CASE DialogOpens
    BY <1>1, DialogOpensOk, DialogKept DEF DialogOpens
  <1>2. CASE CatalogLoaded
    <2>1. ASSUME NEW theme, Dialog([StartFrom(theme) EXCEPT !.loaded = TRUE, !.themes = @ \cup DOMAIN Catalog])
          PROVE  DeckInv'
      <3> DEFINE d == StartFrom(theme)
                 e == [d EXCEPT !.loaded = TRUE, !.themes = @ \cup DOMAIN Catalog]
      <3>1. DialogOk(d)
        BY <1>0, StartOk
      <3> HIDE DEF d
      <3>2. DialogOk(e)
        BY <3>1 DEF DialogOk
      <3>3. Dialog(e)
        BY <2>1 DEF d
      <3> HIDE DEF e
      <3> QED  BY <3>2, <3>3, DialogKept
    <2>2. ASSUME Dialog([dialog EXCEPT !.loaded = TRUE]) PROVE DeckInv'
      <3>1. DialogOk([dialog EXCEPT !.loaded = TRUE])
        BY <1>0 DEF DialogOk
      <3> QED  BY <2>2, <3>1, DialogKept
    <2> QED  BY <1>2, <2>1, <2>2 DEF CatalogLoaded
  <1>3. CASE Create
    <2>1. NewSlides(dialog.picked, <<>>) \in Seq(CleanTexts)
      BY <1>0, NewSlidesClean, EmptySeq DEF DialogOk
    <2> DEFINE d == [dialog EXCEPT !.posting = NewSlides(dialog.picked, <<>>), !.told = None]
    <2>2. DialogOk(d)
      BY <1>0, <2>1 DEF DialogOk
    <2>3. Dialog(d)
      BY <1>3 DEF Create
    <2> HIDE DEF d
    <2> QED  BY <2>2, <2>3, DialogKept
  <1>4. CASE CreateAnswered
    <2>1. dialog.posting \in Seq(CleanTexts) /\ editing' = editing
      BY <1>0, <1>4 DEF CreateAnswered, DialogOk
    <2>2. deck' = deck \/ deck' = NewDeck(dialog.posting)
      BY <1>4 DEF CreateAnswered, Makes
    <2>3. DeckOk(deck')
      BY <2>1, <2>2, MadeOk DEF DeckInv
    <2>4. DialogOk(dialog')
      <3>1. \A how : DialogOk([dialog EXCEPT !.posting = None, !.told = how])
        BY <1>0 DEF DialogOk
      <3>2. dialog' = NoDialog \/ \E how : dialog' = [dialog EXCEPT !.posting = None, !.told = how]
        BY <1>4 DEF CreateAnswered
      <3> QED  BY <3>1, <3>2, DialogOpensOk
    <2> QED  BY <2>1, <2>3, <2>4 DEF DeckInv
  <1>5. CASE DialogCloses
    BY <1>5, DialogOpensOk, DialogKept DEF DialogCloses
  <1>6. ASSUME NEW theme, PickTheme(theme) PROVE DeckInv'
    BY <1>0, <1>6, StartOk, DialogKept DEF PickTheme
  <1>7. ASSUME NEW t \in Generic \cup Templates, ToggleTemplate(t) PROVE DeckInv'
    <2> DEFINE S == IF t \in dialog.picked THEN dialog.picked \ {t} ELSE dialog.picked \cup {t}
               d == [dialog EXCEPT !.picked = S]
    <2>1. IsFiniteSet(S) /\ S \subseteq CleanTexts
      <3>1. IsFiniteSet(dialog.picked) /\ dialog.picked \subseteq CleanTexts /\ t \in CleanTexts
        BY <1>0, ConstantsClean, GenericClean DEF DialogOk
      <3>2. IsFiniteSet(dialog.picked \ {t}) /\ IsFiniteSet(dialog.picked \cup {t})
        BY <3>1, FS_AddElement, FS_RemoveElement
      <3> QED  BY <3>1, <3>2
    <2>2. Dialog(d)
      BY <1>7 DEF ToggleTemplate
    <2> HIDE DEF S
    <2>3. DialogOk(d)
      BY <1>0, <2>1 DEF DialogOk
    <2> HIDE DEF d
    <2> QED  BY <2>2, <2>3, DialogKept
  <1> QED  BY <1>1, <1>2, <1>3, <1>4, <1>5, <1>6, <1>7

LEMMA DeckInvInit == DeckInit => DeckInv
  <1> SUFFICES ASSUME DeckInit PROVE DeckInv
    OBVIOUS
  <1>1. deck = None /\ dialog = NoDialog /\ editing = [a \in Author |-> None]
    BY DEF DeckInit
  <1> QED  BY <1>1, DialogOpensOk DEF DeckInv, DeckOk, EditsOk

LEMMA DeckInvNext ==
  ASSUME DeckInv, DeckNext
  PROVE  DeckInv'
  <1>1. CASE \E a \in Author : SaveMarp(a)
    BY <1>1, SaveKeeps
  <1>2. CASE \E a \in Author, i \in 1 .. 4, text \in SlideText : AddSlide(a, i, text) \/ EditSlide(a, i, text)
    BY <1>2, ToolsKeep
  <1>3. CASE \E a \in Author, i \in 1 .. 4 : DeleteSlide(a, i) \/ \E j \in 1 .. 4 : MoveSlide(a, i, j)
    BY <1>3, ToolsKeep
  <1>4. CASE \E a \in Author : \E theme \in DOMAIN Catalog \cup {None, "default"}, readable \in BOOLEAN :
               \E chosen \in SUBSET Templates, text \in SlideText : CreateMarp(a, readable, theme, chosen, <<text>>)
    BY <1>4, CreateKeeps
  <1>5. CASE \E lines \in RawDeck : PersonWrites(lines)
    BY <1>5, PersonKeeps
  <1>6. CASE \/ DialogOpens \/ CatalogLoaded \/ Create \/ CreateAnswered \/ DialogCloses
             \/ \E theme \in DOMAIN Catalog \cup {"default"} : PickTheme(theme)
             \/ \E t \in Generic \cup Templates : ToggleTemplate(t)
    BY <1>6, DialogKeeps
  <1> QED  BY <1>1, <1>2, <1>3, <1>4, <1>5, <1>6 DEF DeckNext, Templates

LEMMA DeckSteps == ASSUME [Next]_vars PROVE DeckNext \/ UNCHANGED deckVars
  BY DEF Next, PageNext, ToolNext, RestNext, vars, toolVars

\* Whatever a tool set out to write of slides that are each one slide is what
\* anyone reads back of the deck, and the deck view shows as many slides.
THEOREM DecksHold == Spec => []SlidesAsWritten
  <1>1. Init => DeckInv
    BY DeckInvInit DEF Init
  <1>2. DeckInv /\ [Next]_vars => DeckInv'
    <2> SUFFICES ASSUME DeckInv, [Next]_vars PROVE DeckInv'
      OBVIOUS
    <2>1. CASE DeckNext
      BY <2>1, DeckInvNext
    <2>2. CASE UNCHANGED deckVars
      BY <2>2 DEF deckVars, DeckInv
    <2> QED  BY <2>1, <2>2, DeckSteps
  <1>3. DeckInv => SlidesAsWritten
    BY DeckInvIs
  <1> QED  BY <1>1, <1>2, <1>3, PTL DEF Spec
=============================================================================
