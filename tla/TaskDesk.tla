-------------------------------- MODULE TaskDesk --------------------------------
(***************************************************************************)
(* The task board apart from dragging (frontend/src/components: the list,  *)
(* the cards and steps of TaskBoard.jsx, TaskEditor.jsx,                   *)
(* BoardColumnsEditor.jsx, MilestonesView.jsx), and the agents' task tools *)
(* (mcp-server/index.js): one note with its tasks, one board file with the *)
(* columns and the milestones, a page and an agent who read both, think,   *)
(* and write.  A checkbox is named to the server by its line and its text. *)
(*                                                                         *)
(* A task has a title and steps of its own.  Its milestone and the stamp   *)
(* of a ticked one are lines of the note, and shift what follows.          *)
(***************************************************************************)
EXTENDS WebBase

CONSTANT Goal   \* titles of milestones

ASSUME GoalAssumption == IsFiniteSet(Goal)

VARIABLES
  work,    \* the note: its tasks, in order
  boardFile,  \* the board file: cols (which columns), miles (the milestones)
  desk,    \* the page: tasks (each with a key of its own), keys (used so far), board, at (how many writes of others it
           \* has surely seen),
           \* goal (the milestone the cards are filtered by), done (ticked ones shown)
  sheet,   \* the open form: None, or [kind, task, cols]
  sent,    \* the page's requests whose answers are to come
  listed,  \* the agent: tasks it listed, and the board it fetched
  ledger   \* others (writes that are not the page's), wanted (the board as people
           \* saved it), made (tasks so far), strayed (a write reached a task it was not meant for), rash
           \* (a task was closed over an open step)

deskVars == <<work, boardFile, desk, sheet, sent, listed, ledger>>

-----------------------------------------------------------------------------
(* The note.                                                               *)

Fields(t) == (IF t.done THEN 1 ELSE 0) + (IF t.goal = None THEN 0 ELSE 1)

\* The line a task is on.
TaskLine[i \in Nat] ==
  IF i = 1 THEN 1 ELSE TaskLine[i - 1] + 1 + Fields(work[i - 1]) + Len(work[i - 1].steps)

\* A task as it is read, at this line: boxes are lines as they are written, and a step
\* `shows` what the page makes of it.
ReadTask(t, line) ==
  [id |-> t.id, key |-> None, goal |-> t.goal,
   box |-> [line |-> line, text |-> t.title, ticked |-> t.done],
   steps |-> [k \in DOMAIN t.steps |->
     [shows |-> t.steps[k].ticked,
      box |-> [line |-> line + Fields(t) + k, text |-> t.steps[k].text, ticked |-> t.steps[k].ticked]]]]

Tasks == [i \in DOMAIN work |-> ReadTask(work[i], TaskLine[i])]

\* The raw text of a task's line.
Raw(t) == <<t.box.text, t.box.ticked>>

\* withStableIds: a card keeps its key as long as its line reads the same, lines that read
\* the same by their order; the others get keys that were never used, after `used`.
Counterparts(prev, read, i) ==
  LET nth(s, j) == Cardinality({k \in 1 .. j : Raw(s[k]) = Raw(s[j])})
  IN  {j \in DOMAIN prev : Raw(prev[j]) = Raw(read[i]) /\ nth(prev, j) = nth(read, i)}
Keyed(prev, read, used) ==
  [i \in DOMAIN read |->
    LET same == Counterparts(prev, read, i)
    IN  [read[i] EXCEPT !.key = IF same = {} THEN used + i ELSE prev[CHOOSE j \in same : TRUE].key]]
KeysUsed(prev, read, used) ==
  IF \E i \in DOMAIN read : Counterparts(prev, read, i) = {} THEN used + Len(read) ELSE used

Boxes == {<<i, 0>> : i \in DOMAIN work} \cup UNION {{<<i, k>> : k \in DOMAIN work[i].steps} : i \in DOMAIN work}
BoxAt(p) == IF p[2] = 0 THEN Tasks[p[1]].box ELSE Tasks[p[1]].steps[p[2]].box

Task(id, title, done, goal, steps) ==
  [id |-> id, title |-> title, done |-> done, goal |-> goal, steps |-> steps]

\* Lines of two tasks never read the same: the nth title of a task, and its step.
Title(id, n) == <<id, n>>
StepText(id) == Title(id, 0)
Retitled(text) == Title(text[1], text[2] + 1)

\* Two tasks, the first with a step; the milestones there are.
DeskInit ==
  /\ work = <<Task(1, Title(1, 1), FALSE, None, <<[text |-> StepText(1), ticked |-> FALSE]>>),
              Task(2, Title(2, 1), FALSE, None, <<>>)>>
  /\ boardFile = [cols |-> 0, miles |-> {[id |-> <<title, 1>>, closed |-> FALSE] : title \in Goal}]
  /\ desk = [tasks |-> Keyed(<<>>, Tasks, 0), keys |-> Len(Tasks), board |-> boardFile, at |-> 0,
             goal |-> None, done |-> TRUE]
  /\ sheet = None /\ sent = {}
  /\ listed = [tasks |-> {}, board |-> None]
  /\ ledger = [others |-> 0, wanted |-> boardFile, made |-> 2, strayed |-> FALSE, rash |-> FALSE]

-----------------------------------------------------------------------------
(* The server.  A write says which box it means, as it was read.           *)

Write(kind, task, box, value) == [kind |-> kind, id |-> task.id, key |-> task.key, box |-> box, value |-> value]

\* Mutant: whatever is on the line now.
MeantByLine(w) == {p \in Boxes : BoxAt(p).line = w.box.line}

\* The box that is meant: the line must still be this text.
MeantBy(w) == {p \in Boxes : BoxAt(p) = w.box}

AllTicked(steps) == \A k \in DOMAIN steps : steps[k].ticked

\* Mutant: a save of the form is held against the steps it replaces.
BlockedByNote(t, p, w) ==
  \/ w.kind = "replace" /\ w.value.done /\ ~AllTicked(t.steps)
  \/ w.kind \in {"check", "move"} /\ w.value /\ p[2] = 0 /\ ~AllTicked(t.steps)

\* Closing a task that has an open step; a save of the form brings its own steps.
Blocked(t, p, w) ==
  \/ w.kind = "replace" /\ w.value.done /\ ~AllTicked(w.value.steps)
  \/ w.kind \in {"check", "move"} /\ w.value /\ p[2] = 0 /\ ~AllTicked(t.steps)

Written(t, p, w) ==
  CASE w.kind = "replace" -> [w.value EXCEPT !.id = t.id]
    [] w.kind = "field" -> [t EXCEPT !.goal = w.value]
    [] OTHER -> IF p[2] = 0 THEN [t EXCEPT !.done = w.value] ELSE [t EXCEPT !.steps[p[2]].ticked = w.value]

Removed(i) == [j \in 1 .. Len(work) - 1 |-> work[IF j < i THEN j ELSE j + 1]]

\* The task a write is for, as it leaves it: None when the write is refused.
Outcome(w) ==
  IF MeantBy(w) = {} THEN [reply |-> "stale", card |-> None, at |-> <<0, 0>>]
  ELSE LET p == CHOOSE p \in MeantBy(w) : TRUE
           t == work[p[1]]
       IN  IF Blocked(t, p, w) THEN [reply |-> "blocked", card |-> None, at |-> p]
           ELSE [reply |-> "ok", card |-> Written(t, p, w), at |-> p]

\* mutate, remove: the note is read, changed and written.
Mutated(w, o, others) ==
  LET i == o.at[1]
      closes == o.reply = "ok" /\ w.kind # "delete" /\ o.card.done /\ ~work[i].done
  IN  /\ work' = IF o.reply # "ok" THEN work
                 ELSE IF w.kind = "delete" THEN Removed(i) ELSE [work EXCEPT ![i] = o.card]
      /\ ledger' = [ledger EXCEPT !.others = @ + IF o.reply = "ok" THEN others ELSE 0,
                                  !.strayed = @ \/ (o.reply = "ok" /\ work[i].id # w.id),
                                  !.rash = @ \/ (closes /\ ~AllTicked(o.card.steps))]

\* create: at the end of the note.
TaskCreated(done, others) ==
  LET id == ledger.made + 1
  IN  /\ work' = Append(work, Task(id, Title(id, 1), done, None, <<>>))
      /\ ledger' = [ledger EXCEPT !.others = @ + others, !.made = id]

\* Mutant: a board without milestones has none.
BoardFromWipes(b) == IF "miles" \in DOMAIN b THEN b ELSE [cols |-> b.cols, miles |-> {}]

\* HandleBoard: who sends no milestones keeps those there are.
BoardFrom(b) == IF "miles" \in DOMAIN b THEN b ELSE [cols |-> b.cols, miles |-> boardFile.miles]

BoardValid(b) == \A m, n \in b.miles : m.id = n.id => m = n

-----------------------------------------------------------------------------
(* The page reads the board, and puts in what its requests bring.          *)

NotReading == \A r \in sent : r.kind # "read"

ReadNow == [kind |-> "read", tasks |-> Tasks, board |-> boardFile, at |-> ledger.others]
SendOff(r) == sent' = sent \cup {r}

\* The poll, the page coming to the front, Rescan.
PollTasks ==
  /\ Spend("polls") /\ (Hurried \/ sent = {})
  /\ SendOff(ReadNow)
  /\ UNCHANGED <<work, boardFile, desk, sheet, listed, ledger>>

BoardRead(r) ==
  /\ r.kind = "read" /\ sent' = sent \ {r}
  /\ desk' = [desk EXCEPT !.tasks = Keyed(@, r.tasks, desk.keys),
                             !.keys = KeysUsed(desk.tasks, r.tasks, @), !.board = r.board,
                             !.at = IF sent = {r} THEN r.at ELSE @]
  /\ UNCHANGED <<work, boardFile, sheet, listed, ledger, plan>>

Cards(w) == {i \in DOMAIN desk.tasks : desk.tasks[i].key = w.key}

\* applyUpdated: the server's copy in place of the page's.
Updated(w, o) == [desk EXCEPT !.tasks = [i \in DOMAIN @ |->
  IF i \in Cards(w) THEN [ReadTask(o.card, w.box.line) EXCEPT !.key = w.key] ELSE @[i]]]

\* Its step, as the server acknowledges it.
StepDone(w, c) == [c EXCEPT !.steps = [k \in DOMAIN c.steps |->
  IF c.steps[k].box.line # w.box.line THEN c.steps[k]
  ELSE [shows |-> w.value, box |-> [w.box EXCEPT !.ticked = w.value]]]]
StepUpdated(w) == [desk EXCEPT !.tasks = [i \in DOMAIN @ |->
  IF i \in Cards(w) THEN StepDone(w, @[i]) ELSE @[i]]]

-----------------------------------------------------------------------------
(* The page: ticking, deleting, the task form.                             *)

\* matchesTaskFilters: the cards the page shows.
Matches(t) == (desk.goal = None \/ t.goal = desk.goal) /\ (desk.done \/ ~t.box.ticked)
OnShow == {i \in DOMAIN desk.tasks : Matches(desk.tasks[i])}

Ready == Hurried \/ NotReading
MayAct == sheet = None /\ Ready

\* The last click on a task is answered before the next.
Unclicked(t) == Hurried \/ \A r \in sent : r.kind \in {"toggle", "step", "delete"} => r.w.key # t.key

Await(kind, w, o) == SendOff([kind |-> kind, w |-> w, o |-> o])
NoReply == [reply |-> "failed", card |-> None, at |-> <<0, 0>>]

\* A request is handled when it is made, or fails; its answer comes later.
Tried(kind, w, f) ==
  \/ /\ Spend(f)
     /\ Mutated(w, Outcome(w), 0) /\ Await(kind, w, Outcome(w))
  \/ /\ plan[f] > 0 /\ plan.fails > 0
     /\ plan' = [plan EXCEPT ![f] = @ - 1, !.fails = @ - 1]
     /\ Await(kind, w, NoReply)
     /\ UNCHANGED <<work, ledger>>

\* handleToggle: nothing changes on screen before the answer.
Toggle(i) ==
  /\ MayAct /\ Unclicked(desk.tasks[i])
  /\ Tried("toggle", Write("check", desk.tasks[i], desk.tasks[i].box, ~desk.tasks[i].box.ticked), "clicks")
  /\ UNCHANGED <<boardFile, desk, sheet, listed>>

\* handleToggleStep: shown at once.
ToggleStep(i, k) ==
  LET s == desk.tasks[i].steps[k]
  IN  /\ MayAct /\ Unclicked(desk.tasks[i])
      /\ Tried("step", Write("check", desk.tasks[i], s.box, ~s.shows), "clicks")
      /\ desk' = [desk EXCEPT !.tasks[i].steps[k].shows = ~@]
      /\ UNCHANGED <<boardFile, sheet, listed>>

\* handleDelete: gone at once.
DeleteTask(i) ==
  /\ MayAct /\ Unclicked(desk.tasks[i])
  /\ Tried("delete", Write("delete", desk.tasks[i], desk.tasks[i].box, None), "clicks")
  /\ desk' = [desk EXCEPT !.tasks = [j \in 1 .. Len(@) - 1 |-> @[IF j < i THEN j ELSE j + 1]]]
  /\ UNCHANGED <<boardFile, sheet, listed>>

\* openEdit, openCreate: the form keeps the task as it is now.
OpenForm(task) ==
  /\ MayAct /\ plan.forms > 0
  /\ sheet' = [kind |-> "task", task |-> task, cols |-> 0]
  /\ UNCHANGED <<work, boardFile, desk, sent, listed, ledger, plan>>

CloseForm ==
  /\ sheet # None
  /\ sheet' = None
  /\ UNCHANGED <<work, boardFile, desk, sent, listed, ledger, plan>>

\* What a form may be made to say of a task: a new title, its steps as they are shown
\* or ticked off, in a Done column or not.
Specs(t) ==
  {Task(t.id, Retitled(t.box.text), done, t.goal,
        [k \in DOMAIN t.steps |-> [text |-> t.steps[k].box.text, ticked |-> all \/ t.steps[k].shows]]) :
     done \in BOOLEAN, all \in BOOLEAN}

SubmitForm ==
  /\ sheet # None /\ sheet.kind = "task"
  /\ Ready /\ (Hurried \/ \A r \in sent : r.kind # "save")
  /\ IF sheet.task = None
     THEN \E done \in BOOLEAN :
            /\ Spend("forms")
            /\ TaskCreated(done, 0) /\ Await("save", None, [NoReply EXCEPT !.reply = "ok"])
     ELSE \E spec \in Specs(sheet.task) : Tried("save", Write("replace", sheet.task, sheet.task.box, spec), "forms")
  /\ UNCHANGED <<boardFile, desk, sheet, listed>>

\* The answers.  What is stale is read again, and the form that was is given up.
ClickAnswered(r) ==
  LET ok == r.o.reply = "ok"
      rereads == CASE r.kind = "toggle" -> r.o.reply = "stale"
                   [] r.kind = "save" -> r.o.reply \in {"ok", "stale"}
                   [] OTHER -> ~ok
  IN  /\ r.kind \in {"toggle", "step", "delete", "save"}
      /\ sent' = (sent \ {r}) \cup IF rereads THEN {ReadNow} ELSE {}
      /\ desk' = CASE r.kind = "toggle" /\ ok -> Updated(r.w, r.o)
                   [] r.kind = "step" /\ ok -> StepUpdated(r.w)
                   [] OTHER -> desk
      /\ sheet' = IF r.kind = "save" /\ r.o.reply \in {"ok", "stale"} THEN None ELSE sheet
      /\ UNCHANGED <<work, boardFile, listed, ledger, plan>>

\* The filters; a milestone's page shows its tasks on the Kanban.
Look(goal, done) ==
  /\ sheet = None /\ Spend("looks")
  /\ desk' = [desk EXCEPT !.goal = goal, !.done = done]
  /\ UNCHANGED <<work, boardFile, sheet, sent, listed, ledger>>

-----------------------------------------------------------------------------
(* The page: columns and milestones, one file.                             *)

\* milestoneId: of the title, with a number when it is taken.
MilestoneId(title, taken) ==
  LET n == CHOOSE n \in 1 .. Cardinality(taken) + 1 :
             <<title, n>> \notin taken /\ \A k \in 1 .. n - 1 : <<title, k>> \in taken
  IN  <<title, n>>

Ids(miles) == {m.id : m \in miles}

\* What a list of milestones may be made: one more, one closed or opened, one less.
Revised(miles) ==
  {miles \cup {[id |-> MilestoneId(title, Ids(miles)), closed |-> FALSE]} : title \in Goal}
    \cup {(miles \ {m}) \cup {[m EXCEPT !.closed = ~@]} : m \in miles}
    \cup {miles \ {m} : m \in miles}

\* A board is saved from the copy at hand; somebody may have saved another since.
StillStored(b) == Hurried \/ b = boardFile

Kept(b) == IF BoardValid(BoardFrom(b)) THEN BoardFrom(b) ELSE boardFile

OpenColumns ==
  /\ MayAct /\ plan.saves > 0
  /\ sheet' = [kind |-> "columns", task |-> None, cols |-> desk.board.cols]
  /\ UNCHANGED <<work, boardFile, desk, sent, listed, ledger, plan>>

\* Mutant: the whole board as the page has it.
ColumnsOfPage(cols) == [desk.board EXCEPT !.cols = cols]

\* handleSave of the columns: they are all it sends.
ColumnsSent(cols) == [cols |-> cols]

SaveColumns ==
  LET b == ColumnsSent(sheet.cols + 1)
  IN  /\ sheet # None /\ sheet.kind = "columns" /\ Spend("saves")
      /\ Ready /\ (Hurried \/ \A r \in sent : r.kind \notin {"columns", "miles"})
      /\ boardFile' = Kept(b)
      /\ ledger' = [ledger EXCEPT !.wanted.cols = b.cols]
      /\ SendOff([kind |-> "columns", board |-> Kept(b)])
      /\ UNCHANGED <<work, desk, sheet, listed>>

\* Create, edit, close, reopen and delete: the list the page has, changed.  The buttons
\* are off while a save is out.
SaveMilestones ==
  /\ MayAct /\ Spend("saves")
  /\ \A r \in sent : r.kind # "miles"
  /\ Hurried \/ \A r \in sent : r.kind # "columns"
  /\ \E miles \in Revised(desk.board.miles) :
       LET b == [desk.board EXCEPT !.miles = miles]
       IN  /\ Hurried \/ desk.at = ledger.others
           /\ boardFile' = Kept(b)
           /\ ledger' = [ledger EXCEPT !.wanted.miles = miles]
           /\ SendOff([kind |-> "miles", board |-> Kept(b)])
  /\ UNCHANGED <<work, desk, sheet, listed>>

\* Mutant: what was saved is not put in.
ShowsSavedNot(b) == desk

ShowsSaved(b) == [desk EXCEPT !.board = b]

BoardAnswered(r) ==
  /\ r.kind \in {"columns", "miles"}
  /\ desk' = ShowsSaved(r.board)
  /\ sheet' = IF r.kind = "columns" THEN None ELSE sheet
  /\ sent' = (sent \ {r}) \cup IF r.kind = "columns" THEN {ReadNow} ELSE {}
  /\ UNCHANGED <<work, boardFile, listed, ledger, plan>>

-----------------------------------------------------------------------------
(* The agent's tools.                                                      *)

AllTasks == {Tasks[i] : i \in DOMAIN work}

ListTasks ==
  /\ plan.others > 0 /\ listed.tasks # AllTasks
  /\ listed' = [listed EXCEPT !.tasks = AllTasks]
  /\ UNCHANGED <<work, boardFile, desk, sheet, sent, ledger, plan>>

\* search_tasks: those it looks for, as list_tasks has them.
SearchTasks(goal, done) ==
  LET found == {t \in AllTasks : t.goal = goal /\ t.box.ticked = done}
  IN  /\ Spend("looks") /\ listed.tasks # found /\ found # {}
      /\ listed' = [listed EXCEPT !.tasks = found]
      /\ UNCHANGED <<work, boardFile, desk, sheet, sent, ledger>>

AgentWrites(w) ==
  /\ Spend("others")
  /\ Mutated(w, Outcome(w), 1)
  /\ UNCHANGED <<boardFile, desk, sheet, sent, listed>>

ToggleTask(t) == AgentWrites(Write("check", t, t.box, ~t.box.ticked))
ToggleTaskStep(t, k) == AgentWrites(Write("check", t, t.steps[k].box, ~t.steps[k].box.ticked))
MoveTask(t, done) == AgentWrites(Write("move", t, t.box, done))
EditTask(t) == \E spec \in Specs(t) : AgentWrites(Write("replace", t, t.box, spec))
SetTaskField(t, goal) == AgentWrites(Write("field", t, t.box, goal))
DeleteListed(t) == AgentWrites(Write("delete", t, t.box, None))

CreateTask ==
  /\ Spend("others")
  /\ \E done \in BOOLEAN : TaskCreated(done, 1)
  /\ UNCHANGED <<boardFile, desk, sheet, sent, listed>>

\* updateMilestones: the board is read, then written.
FetchBoard ==
  /\ plan.others > 0 /\ listed.board = None
  /\ listed' = [listed EXCEPT !.board = boardFile]
  /\ UNCHANGED <<work, boardFile, desk, sheet, sent, ledger, plan>>

UpdateMilestones ==
  /\ listed.board # None /\ Spend("others")
  /\ StillStored(listed.board)
  /\ \E miles \in Revised(listed.board.miles) :
       /\ boardFile' = Kept([listed.board EXCEPT !.miles = miles])
       /\ ledger' = [ledger EXCEPT !.others = @ + 1, !.wanted.miles = miles]
  /\ listed' = [listed EXCEPT !.board = None]
  /\ UNCHANGED <<work, desk, sheet, sent>>

\* What it read is out of date before it writes: it reads again.
FetchAgain ==
  /\ ~Hurried /\ listed.board \notin {None, boardFile}
  /\ listed' = [listed EXCEPT !.board = None]
  /\ UNCHANGED <<work, boardFile, desk, sheet, sent, ledger, plan>>

DeskNext ==
  \/ PollTasks \/ CloseForm \/ SubmitForm \/ OpenColumns \/ SaveColumns \/ SaveMilestones
  \/ \E i \in OnShow :
       \/ Toggle(i) \/ DeleteTask(i) \/ OpenForm(desk.tasks[i])
       \/ \E k \in DOMAIN desk.tasks[i].steps : ToggleStep(i, k)
  \/ OpenForm(None)
  \/ \E goal \in Ids(desk.board.miles) \cup {None}, done \in BOOLEAN : Look(goal, done)
  \/ \E r \in sent : BoardRead(r) \/ ClickAnswered(r) \/ BoardAnswered(r)
  \/ ListTasks \/ CreateTask \/ FetchBoard \/ UpdateMilestones \/ FetchAgain
  \/ \E goal \in Ids(boardFile.miles) \cup {None}, done \in BOOLEAN : SearchTasks(goal, done)
  \/ \E t \in listed.tasks :
       \/ ToggleTask(t) \/ EditTask(t) \/ DeleteListed(t)
       \/ \E k \in DOMAIN t.steps : ToggleTaskStep(t, k)
       \/ \E done \in BOOLEAN : MoveTask(t, done)
       \/ \E goal \in Ids(boardFile.miles) \cup {None} : SetTaskField(t, goal)

-----------------------------------------------------------------------------
(* Properties                                                              *)

\* A write reaches the task it was read for, or none, however the lines have shifted.
NoneStrays == ~ledger.strayed

\* No task is closed while a step of it is open, by whichever way it is closed.
ClosedWhole == ~ledger.rash

\* Saving the columns takes no milestone with it, nor a milestone a column: the board is
\* what was saved last of each.
BoardKept == boardFile = ledger.wanted

\* What is on the page, once its requests are answered and nobody else has written since
\* it read: what it showed before it was told is true, or was taken back.
AllSeen == sent = {} /\ desk.at = ledger.others

Seen(t) == [id |-> t.id, goal |-> t.goal, text |-> t.box.text, ticked |-> t.box.ticked,
            steps |-> [k \in DOMAIN t.steps |-> t.steps[k].shows]]
PageAgrees ==
  AllSeen => /\ [i \in DOMAIN desk.tasks |-> Seen(desk.tasks[i])] = [i \in DOMAIN work |-> Seen(Tasks[i])]
             /\ desk.board = boardFile

DeskRight == NoneStrays /\ ClosedWhole /\ BoardKept /\ (view = "desk" => PageAgrees)
=============================================================================
