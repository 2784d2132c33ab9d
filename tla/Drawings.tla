-------------------------------- MODULE Drawings --------------------------------
(***************************************************************************)
(* Drawings: the agents' tools that draw and change one element of a       *)
(* drawing (mcp-server/index.js), and the canvas of the app                *)
(* (ExcalidrawEditor.jsx, excalidraw.js).                                  *)
(*                                                                         *)
(* A drawing is a set of elements that refer to one another: an arrow to   *)
(* the shapes it connects, a label to what it is written on, and those     *)
(* back to them.                                                           *)
(***************************************************************************)
EXTENDS WebBase

CONSTANTS
  Drawer,    \* the agents
  MaxId,     \* how many elements the agents may make
  Canvas     \* the drawings a person opens

VARIABLES
  scene,     \* the elements of the drawing the agents work on
  lastId,    \* the last element id that was taken
  sketches,    \* agent -> the scene it is about to write, or None
  canvas,    \* the app: doc (the drawing it shows), strokes (not yet handed on),
             \* next (the note that comes up instead, wrapped, or <<>>)
  handed,    \* drawing -> the strokes handed on to be saved
  drawn      \* drawing -> the strokes a person drew

drawVars == <<scene, lastId, sketches, canvas, handed, drawn>>

DrawInit ==
  /\ scene = {} /\ lastId = 0 /\ sketches = [a \in Drawer |-> None]
  /\ canvas = [doc |-> None, strokes |-> {}, next |-> <<>>]
  /\ handed = [d \in Canvas |-> {}] /\ drawn = [d \in Canvas |-> {}]

-----------------------------------------------------------------------------
(* Scenes.                                                                 *)

Shapes(S) == {e \in S : e.type = "shape"}
Shape(id, bound) == [type |-> "shape", id |-> id, ends |-> {}, on |-> 0, bound |-> bound]
Arrow(id, ends, bound) == [type |-> "arrow", id |-> id, ends |-> ends, on |-> 0, bound |-> bound]
Label(id, on) == [type |-> "text", id |-> id, ends |-> {}, on |-> on, bound |-> {}]

\* S with `id` among what the elements `on` say is bound to them.
Bind(S, on, id) == {IF e.id \in on THEN [e EXCEPT !.bound = @ \cup {id}] ELSE e : e \in S}

\* compileDiagram: a labelled shape, an arrow from another one to it, and its label.
CompileDiagram(S, from) ==
  LET s == Shape(lastId + 1, {lastId + 2})
      t == Label(lastId + 2, lastId + 1)
      joined == Bind(S \cup {s, t}, {from, s.id}, lastId + 3)
  IN  IF \E e \in Shapes(S) : e.id = from
      THEN joined \cup {Arrow(lastId + 3, {from, s.id}, {lastId + 4}), Label(lastId + 4, lastId + 3)}
      ELSE S \cup {s, t}

\* setBoundLabel: a text replaces the label's or makes one, "" takes it away.
SetBoundLabel(S, e, text) ==
  LET labels == {l \in S : l.type = "text" /\ l.on = e.id}
  IN  IF text
      THEN IF labels # {} THEN S ELSE Bind(S, {e.id}, lastId + 1) \cup {Label(lastId + 1, e.id)}
      ELSE {IF x = e THEN [e EXCEPT !.bound = @ \ {l.id : l \in labels}] ELSE x : x \in S \ labels}

\* Mutant: the labels of the arrows that go with a shape stay.
RemovesFirst(S, e) ==
  {x \in S : x = e \/ (x.type = "arrow" /\ e.id \in x.ends) \/ x.on = e.id}

\* What an element takes with it: a shape its arrows, and each its label.
Removes(S, e) ==
  LET first == {x \in S : x = e \/ (x.type = "arrow" /\ e.id \in x.ends) \/ x.on = e.id}
  IN  first \cup {x \in S : \E f \in first : x.on = f.id}

DeleteElement(S, e) ==
  LET gone == Removes(S, e)
  IN  {[x EXCEPT !.bound = @ \ {g.id : g \in gone}] : x \in S \ gone}

-----------------------------------------------------------------------------
(* The tools: each reads the drawing, changes it and writes it whole.      *)

LoadScene(a, S, ids) ==
  /\ sketches[a] = None /\ lastId + ids <= MaxId /\ Spend("draws")
  /\ sketches' = [sketches EXCEPT ![a] = S] /\ lastId' = lastId + ids
  /\ UNCHANGED <<scene, canvas, handed, drawn>>

Draw(a, mode, from) ==
  LoadScene(a, CompileDiagram(IF mode = "append" THEN scene ELSE {}, from), 4)
EditNode(a, e, text) == e \in Shapes(scene) /\ LoadScene(a, SetBoundLabel(scene, e, text), 1)
EditEdge(a, e, text) ==
  e \in scene /\ e.type = "arrow" /\ LoadScene(a, SetBoundLabel(scene, e, text), 1)
DeleteExcalidraw(a, e) == e \in scene /\ LoadScene(a, DeleteElement(scene, e), 0)

\* saveScene: nothing tells that the drawing changed since it was read.
SaveScene(a) ==
  /\ sketches[a] # None
  /\ scene' = sketches[a] /\ sketches' = [sketches EXCEPT ![a] = None]
  /\ UNCHANGED <<lastId, canvas, handed, drawn, plan>>

-----------------------------------------------------------------------------
(* The canvas.                                                             *)

Hand(d) == [handed EXCEPT ![d] = @ \cup canvas.strokes]

Stroke(q) ==
  /\ canvas.doc # None /\ (canvas.next = <<>> \/ Hurried) /\ Spend("strokes") /\ q \notin drawn[canvas.doc]
  /\ canvas' = [canvas EXCEPT !.strokes = @ \cup {q}]
  /\ drawn' = [drawn EXCEPT ![canvas.doc] = @ \cup {q}]
  /\ UNCHANGED <<scene, lastId, sketches, handed>>

\* 500 ms after the last change, the page gets the drawing to save.
CanvasTimer ==
  /\ canvas.strokes # {}
  /\ handed' = Hand(canvas.doc) /\ canvas' = [canvas EXCEPT !.strokes = {}]
  /\ UNCHANGED <<scene, lastId, sketches, drawn, plan>>

\* Mutant: the canvas is put down as it is.
FlushNothing == handed

\* What is pending is handed on, to the drawing it was drawn on.
Flush == IF canvas.doc = None THEN handed ELSE Hand(canvas.doc)

\* Another note is clicked: the canvas is flushed before that note is read, and
\* made anew when it comes up.
ClickDrawing(d) ==
  /\ canvas.next = <<>> /\ canvas.doc # d /\ Spend("canvases")
  /\ handed' = Flush
  /\ canvas' = [canvas EXCEPT !.strokes = {}, !.next = <<d>>]
  /\ UNCHANGED <<scene, lastId, sketches, drawn>>

DrawingUp ==
  /\ canvas.next # <<>>
  /\ canvas' = [doc |-> canvas.next[1], strokes |-> {}, next |-> <<>>]
  /\ UNCHANGED <<scene, lastId, sketches, handed, drawn, plan>>

DrawNext ==
  \/ \E a \in Drawer :
       \/ SaveScene(a)
       \/ \E from \in 0 .. MaxId, mode \in {"append", "replace"} : Draw(a, mode, from)
       \/ \E e \in scene : \/ DeleteExcalidraw(a, e)
                           \/ \E text \in BOOLEAN : EditNode(a, e, text) \/ EditEdge(a, e, text)
  \/ \E q \in 1 .. 2 : Stroke(q)
  \/ \E d \in Canvas \cup {None} : ClickDrawing(d)
  \/ CanvasTimer \/ DrawingUp

-----------------------------------------------------------------------------
(* Properties                                                              *)

\* Whatever the tools did to a drawing, nothing in it refers to an element that
\* is not there, and what is bound knows it both ways.
SceneWhole ==
  LET Id == {e.id : e \in scene}
  IN  \A e \in scene :
        /\ e.bound \cup e.ends \subseteq Id
        /\ e.on # 0 => \E c \in scene : c.id = e.on /\ e.id \in c.bound
        /\ \A s \in scene : s.id \in e.ends => e.id \in s.bound

\* A stroke is on the canvas or was handed on for the drawing it was drawn on,
\* and for no other.
StrokesKept ==
  \A d \in Canvas :
    drawn[d] = handed[d] \cup IF canvas.doc = d THEN canvas.strokes ELSE {}

\* A drawing loses no part that the rest of it needs, and no stroke.
DrawingsWhole == SceneWhole /\ StrokesKept
=============================================================================
