-------------------------------- MODULE NoteTab --------------------------------
(***************************************************************************)
(* One browser tab and the note open in it, saved the normal way           *)
(* (frontend/src/App.jsx; the Live editor, echo-gate.js and the note poll  *)
(* below it), while programs and people elsewhere change the same files.   *)
(*                                                                         *)
(* A text is the set of its pieces, and its etag is the text.  A request   *)
(* reaches the server when it is sent; its answer comes later.             *)
(***************************************************************************)
EXTENDS WebBase

CONSTANTS
  Note,      \* the notes; a piece of text is <<note it was written for, name>>
  Home,      \* the one that is open at first
  Typed, Elsewhere  \* the pieces typed here and written elsewhere in some plan

ASSUME NoteAssumption == Home \in Note

Shared == INSTANCE SharedText WITH Unset <- None

VARIABLES
  file,   \* note -> the text on disk
  tab,    \* what the tab shows and believes: open, ed (the editor), text (what it
          \* reported), saved, etag, shown (a peer's live text), said (what was said
          \* of a save that did not land: the banner or a line on the console)
  timer,  \* pendingSaveRef: the edit that waits for its debounce
  next,   \* the queued save; a newer one replaces it
  put,    \* the save that runs: the stage it is at and the answer that comes
  tick,   \* the PUT of a checkbox
  gate,   \* the echo gate: broadcasts it holds back, etags of our own saves
  mail,   \* file-changed broadcasts on their way, as the etags they carry
  look,   \* a look at the file: the poll's, or one a broadcast asked for
  going,  \* the note being opened
  made    \* history: the pieces typed here, but those of a note that was left after the
          \* tab said that a save of it did not land

noteVars == <<file, tab, timer, next, put, tick, gate, mail, look, going, made>>

First(n) == {<<n, "first">>}

NoteInit ==
  /\ file = [n \in Note |-> First(n)]
  /\ tab = [open |-> Home, ed |-> First(Home), text |-> First(Home), saved |-> First(Home),
            etag |-> First(Home), shown |-> None, said |-> None]
  /\ timer = None /\ next = None /\ put = None /\ tick = None
  /\ gate = [held |-> <<>>, own |-> {}] /\ mail = <<>>
  /\ look = None /\ going = None
  /\ made = {}

-----------------------------------------------------------------------------
(* The server.                                                             *)

Told(n, text) == IF tab.open = n THEN Append(mail, text) ELSE mail

\* PUT with If-Match (none: it always lands), which broadcasts what it wrote.
Put(n, etag, text) ==
  IF etag \in {file[n], None}
  THEN file' = [file EXCEPT ![n] = text] /\ mail' = Told(n, text)
  ELSE UNCHANGED <<file, mail>>
Reply(n, etag) == IF etag \in {file[n], None} THEN "ok" ELSE "conflict"

\* The CLI, an agent, git-sync or another tab saves on top of what is there.
ElsewhereWrites(q) ==
  /\ Take("elsewhere", q)
  /\ file' = [file EXCEPT ![q[1]] = @ \cup {q}]
  /\ mail' = Told(q[1], file[q[1]] \cup {q})
  /\ UNCHANGED <<tab, timer, next, put, tick, gate, look, going, made>>

-----------------------------------------------------------------------------
(* The editor and the app's copy of its text.                              *)

LocalEdits == tab.text # tab.saved /\ tab.text # tab.shown

\* handleContentChange: the edit waits for the debounce, in place of any other.
Changed(t, new) ==
  /\ IF new = t.saved /\ new = t.text THEN tab' = t /\ UNCHANGED timer
     ELSE /\ tab' = [t EXCEPT !.ed = new, !.text = new, !.said = None]
          /\ timer' = [note |-> t.open, text |-> new, on |-> t.saved]

\* showOutside: `theirs`, which is saved, merged into the editor over `base`.
Shows(t, base, theirs) ==
  LET merged == Shared!Merge(base, t.ed, theirs)
  IN  IF merged = theirs THEN /\ tab' = [t EXCEPT !.ed = theirs, !.text = theirs]
                              /\ UNCHANGED timer
      ELSE Changed(t, merged)

Press(q) ==
  /\ Take("typed", q) /\ q[1] = tab.open
  /\ going = None \/ Hurried
  /\ tab' = [tab EXCEPT !.ed = @ \cup {q}]
  /\ UNCHANGED <<file, timer, next, put, tick, gate, mail, look, going>>
  /\ made' = made \cup {q}

\* The editor reports an edit 200 ms late.
Reports ==
  /\ tab.ed # tab.text
  /\ Changed(tab, tab.ed)
  /\ UNCHANGED <<file, next, put, tick, gate, mail, look, going, made, plan>>

\* A peer's live typing, shown when there are no edits here.
PeerShown(q) ==
  /\ Spend("peers") /\ q \in plan.elsewhere /\ q[1] = tab.open
  /\ timer = None /\ ~LocalEdits
  /\ (tab.ed = tab.text /\ put = None) \/ Hurried
  /\ LET theirs == file[tab.open] \cup {q}
     IN  tab' = [tab EXCEPT !.ed = theirs, !.text = theirs, !.shown = theirs]
  /\ UNCHANGED <<file, timer, next, put, tick, gate, mail, look, going, made>>

-----------------------------------------------------------------------------
(* Saving.                                                                 *)

TimerFires ==
  /\ timer # None
  /\ next' = timer /\ timer' = None
  /\ UNCHANGED <<file, tab, put, tick, gate, mail, look, going, made, plan>>

\* Mutant: the edit as it was made, whatever was saved since.
ToWriteAsMade(job) == job.text

\* What a save writes: the edit, moved onto the saved text when that changed.
ToWrite(job) ==
  IF job.note = tab.open /\ job.on # tab.saved
  THEN Shared!Merge(job.on, job.text, tab.saved) ELSE job.text

Sends(p, etag, text, stage) ==
  /\ Put(p.note, etag, text)
  /\ put' = [p EXCEPT !.at = stage, !.wrote = text, !.reply = Reply(p.note, etag)]

StartSave ==
  LET text == ToWrite(next)
      job == [note |-> next.note, text |-> text, wrote |-> text, base |-> tab.saved,
              shown |-> tab.shown, at |-> "put", reply |-> "ok", theirs |-> None,
              tries |-> 1, live |-> TRUE]
  IN  /\ next # None /\ put = None
      /\ next' = None
      /\ IF text = tab.saved \/ text = {} THEN UNCHANGED <<file, mail, put, plan>>
         ELSE \/ Sends(job, tab.etag, text, "put") /\ UNCHANGED plan
              \/ /\ Spend("fails")
                 /\ put' = [job EXCEPT !.reply = "failed"]
                 /\ UNCHANGED <<file, mail>>
      /\ UNCHANGED <<tab, timer, tick, gate, look, going, made>>

\* The save is over: what the gate held back is looked at again.
Settle(live, own) ==
  /\ gate' = [held |-> IF live THEN <<>> ELSE gate.held, own |-> gate.own \cup own]
  /\ mail' = IF live THEN gate.held \o mail ELSE mail

\* A save that landed describes the note: even if another one is open by now.
Saved(text) ==
  /\ tab' = [tab EXCEPT !.saved = text, !.etag = text]
  /\ put' = None
  /\ Settle(put.live /\ tick = None, {text})
  /\ UNCHANGED <<file, timer>>

\* Mutant: the save ends and nobody is told.
GaveUpQuietly(said) ==
  /\ put' = None
  /\ Settle(put.live /\ tick = None, {})
  /\ UNCHANGED <<file, tab, timer>>

GaveUp(said) ==
  /\ tab' = [tab EXCEPT !.said = said]
  /\ put' = None
  /\ Settle(put.live /\ tick = None, {})
  /\ UNCHANGED <<file, timer>>

\* A 409 asks for the note as it is.
Asks == put' = [put EXCEPT !.at = "asked", !.theirs = file[put.note]] /\ UNCHANGED <<file, tab, timer, gate, mail>>

PutAnswered ==
  /\ put # None /\ put.at \in {"put", "again"}
  /\ CASE put.reply = "ok" -> Saved(put.wrote)
       [] put.reply = "conflict" /\ put.at = "put" -> Asks
       [] OTHER -> GaveUp(IF put.reply = "failed" THEN "console" ELSE "banner")
  /\ UNCHANGED <<next, tick, look, going, made, plan>>

\* The note has our text already, has what we wrote on, or both are merged.
AskAnswered ==
  /\ put # None /\ put.at = "asked"
  /\ CASE put.theirs = put.text -> Saved(put.text)
       [] put.theirs # put.text /\ put.theirs \in {put.base, put.shown} ->
            Sends(put, put.theirs, put.text, "again") /\ UNCHANGED <<tab, timer, gate>>
       [] OTHER -> /\ Sends(put, put.theirs, Shared!Merge(put.base, put.text, put.theirs), "merge")
                   /\ UNCHANGED <<tab, timer, gate>>
  /\ UNCHANGED <<next, tick, look, going, made, plan>>

\* mergeAndSave: shown when the note is still open, tried three times.
MergeAnswered ==
  LET merged == [tab EXCEPT !.saved = put.wrote, !.etag = put.wrote, !.shown = None]
  IN  /\ put # None /\ put.at = "merge"
      /\ CASE put.reply = "ok" /\ put.note = tab.open ->
                /\ Shows(merged, put.text, put.wrote)
                /\ put' = None /\ Settle(put.live /\ tick = None, {put.wrote})
                /\ UNCHANGED file
           [] put.reply = "ok" /\ put.note # tab.open -> GaveUp(tab.said)
           [] put.reply = "conflict" /\ put.tries < 3 ->
                /\ put' = [put EXCEPT !.at = "asked", !.theirs = file[put.note], !.tries = @ + 1]
                /\ UNCHANGED <<file, tab, timer, gate, mail>>
           [] OTHER -> GaveUp("banner")
      /\ UNCHANGED <<next, tick, look, going, made, plan>>

\* A checkbox is written at once, with no If-Match.
Ticks(q) ==
  /\ Take("ticked", q) /\ q[1] = tab.open /\ tick = None /\ tab.ed = tab.text
  /\ (going = None /\ put = None) \/ Hurried
  /\ LET new == tab.text \cup {q}
     IN  /\ tab' = [tab EXCEPT !.ed = new, !.text = new, !.saved = new]
         /\ tick' = [text |-> new, live |-> TRUE]
         /\ Put(tab.open, None, new)
  /\ UNCHANGED <<timer, next, put, gate, look, going, made>>

TickAnswered ==
  /\ tick # None
  /\ tab' = [tab EXCEPT !.etag = tick.text]
  /\ tick' = None
  /\ Settle(tick.live /\ (put = None \/ ~put.live), {tick.text})
  /\ UNCHANGED <<file, timer, next, put, look, going, made, plan>>

-----------------------------------------------------------------------------
(* Changes made elsewhere.                                                 *)

InFlight == (put # None /\ put.live) \/ (tick # None /\ tick.live)

Asked == [note |-> tab.open, base |-> tab.saved, etag |-> tab.etag, got |-> file[tab.open]]

\* The echo gate, then handleFileChanged.
Receive ==
  LET etag == Head(mail)
      ours == etag = tab.etag \/ etag \in gate.own
  IN  /\ mail # <<>> /\ mail' = Tail(mail)
      /\ CASE ours -> UNCHANGED <<gate, look>>
           [] ~ours /\ InFlight -> gate' = [gate EXCEPT !.held = Append(@, etag)] /\ UNCHANGED look
           [] ~ours /\ ~InFlight /\ LocalEdits -> UNCHANGED <<gate, look>>
           [] ~ours /\ ~InFlight /\ ~LocalEdits -> look = None /\ look' = Asked /\ UNCHANGED gate
      /\ UNCHANGED <<file, tab, timer, next, put, tick, going, made, plan>>

\* The poll, every few seconds; a 304 changes nothing.
Polls ==
  /\ look = None /\ tab.etag # file[tab.open]
  /\ look' = Asked
  /\ UNCHANGED <<file, tab, timer, next, put, tick, gate, mail, going, made, plan>>

\* Mutant: the answer is used when the note is still open, whatever was saved.
CurrentNote(l) == l.note = tab.open

\* What was read is only believed when nothing was saved or opened meanwhile.
Current(l) == l.note = tab.open /\ l.base = tab.saved /\ l.etag = tab.etag

LookAnswered ==
  /\ look # None /\ look' = None
  /\ IF ~Current(look) THEN UNCHANGED <<tab, timer>>
     ELSE LET t == [tab EXCEPT !.saved = look.got, !.etag = look.got, !.shown = None]
          IN  \/ Shows(t, look.base, look.got)
              \/ LocalEdits /\ UNCHANGED <<tab, timer>>
  /\ UNCHANGED <<file, next, put, tick, gate, mail, going, made, plan>>

-----------------------------------------------------------------------------
(* Opening another note: flushPendingSave, then the note, then the switch. *)

\* Mutant: the debounced save is dropped.
OpenDrops(n) ==
  /\ Spend("opens") /\ n # tab.open /\ going = None
  /\ going' = [to |-> n, waits |-> FALSE, got |-> None]
  /\ timer' = None
  /\ UNCHANGED <<file, tab, next, put, tick, gate, mail, look, made>>

Open(n) ==
  LET job == IF tab.ed # tab.text
             THEN [note |-> tab.open, text |-> tab.ed, on |-> tab.saved] ELSE timer
  IN  /\ Spend("opens") /\ n # tab.open /\ going = None
      /\ going' = [to |-> n, waits |-> job # None, got |-> None]
      /\ next' = IF job = None THEN next ELSE job
      /\ tab' = [tab EXCEPT !.text = tab.ed] /\ timer' = None
      /\ UNCHANGED <<file, put, tick, gate, mail, look, made>>

Fetches ==
  /\ going # None /\ going.got = None
  /\ (going.waits \/ ~Hurried) => (next = None /\ put = None)
  /\ going' = [going EXCEPT !.got = file[going.to]]
  /\ UNCHANGED <<file, tab, timer, next, put, tick, gate, mail, look, made, plan>>

\* Of what was typed, what the tab still means to save when n is left: a save
\* that did not land is not tried again.
StillMeant(n) ==
  IF tab.said = None THEN made ELSE {q \in made : q[1] # n \/ q \in file[n]}

\* The note comes up; the gate forgets what was under way for the other one.
Opens ==
  /\ going # None /\ going.got # None
  /\ (timer = None /\ next = None /\ put = None) \/ Hurried
  /\ tab' = [open |-> going.to, ed |-> going.got, text |-> going.got, saved |-> going.got,
             etag |-> going.got, shown |-> None, said |-> None]
  /\ going' = None /\ mail' = <<>> /\ gate' = [gate EXCEPT !.held = <<>>]
  /\ put' = IF put = None THEN None ELSE [put EXCEPT !.live = FALSE]
  /\ tick' = IF tick = None THEN None ELSE [tick EXCEPT !.live = FALSE]
  /\ made' = StillMeant(tab.open)
  /\ UNCHANGED <<file, timer, next, look, plan>>

-----------------------------------------------------------------------------
Works ==
  \/ Reports \/ TimerFires \/ PutAnswered \/ AskAnswered \/ MergeAnswered
  \/ TickAnswered \/ Receive \/ LookAnswered \/ Fetches \/ Opens

Acts ==
  \/ \E q \in plan.typed : Press(q)
  \/ \E q \in plan.ticked : Ticks(q)
  \/ \E q \in plan.elsewhere : ElsewhereWrites(q) \/ PeerShown(q)
  \/ \E n \in Note : Open(n)

\* A save that can start starts before anything else happens (a microtask).
Idle(A) == ~(next # None /\ put = None) /\ A

NoteNext == StartSave \/ Idle(Works \/ Polls \/ Acts)

Answered == PutAnswered \/ AskAnswered \/ MergeAnswered

\* Timers fire and requests are answered.
NoteFair ==
  /\ WF_noteVars(Part("note") /\ StartSave) /\ WF_noteVars(Part("note") /\ Idle(Answered))
  /\ WF_noteVars(Part("note") /\ Idle(Reports)) /\ WF_noteVars(Part("note") /\ Idle(TimerFires))
  /\ WF_noteVars(Part("note") /\ Idle(Fetches \/ Opens))

-----------------------------------------------------------------------------
(* Properties                                                              *)

Carries(job, q) == job # None /\ job.note = q[1] /\ q \in job.text

\* A typed piece is in its file, on screen, or in a save that will write it,
\* until its note is left after a save that did not land.
EditsKept ==
  \A q \in made :
    \/ q \in file[q[1]]
    \/ tab.open = q[1] /\ q \in tab.ed
    \/ Carries(timer, q) \/ Carries(next, q) \/ Carries(put, q)

\* What is typed is written, or the tab said that a save did not land.
EditsSaved ==
  \A q \in Typed : q \in made ~> q \in file[q[1]] \/ tab.said # None

\* No save of this tab, but a checkbox's, removes what was written elsewhere.
ElsewhereKept ==
  [][\/ \A n \in Note : file[n] \cap Elsewhere \subseteq file'[n]
     \/ \E q \in plan.ticked : Ticks(q)]_noteVars
=============================================================================
