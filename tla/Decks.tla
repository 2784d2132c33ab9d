--------------------------------- MODULE Decks ---------------------------------
(***************************************************************************)
(* Slide decks: the agents' tools that change one slide of a deck note     *)
(* (mcp-server/index.js), the rule by which the deck view cuts the note    *)
(* into slides (frontend/src/marp.js), and the "+ Slides" dialog           *)
(* (NewDeckModal.jsx, newDeck.js).                                         *)
(*                                                                         *)
(* A deck is its lines below the front matter.  A tool reads the whole     *)
(* note, changes its list of slides and writes the whole note.             *)
(***************************************************************************)
EXTENDS WebBase

Seqs == INSTANCE SequencesExt

CONSTANTS
  Author,      \* the agents
  SlideText,   \* what a slide may say: lines, fences closed, no slide break of its own
  RawDeck,     \* what people write into a deck by hand
  Catalog      \* a central theme -> its slide templates ({}: it has none)

VARIABLES
  deck,     \* the note's lines, or None
  editing,  \* agent -> the slides it is about to write, or None
  dialog    \* "+ Slides": open, loaded, themes (it offers), theme, picked (templates),
            \* posting (the slides of the deck it is creating, or None), told

deckVars == <<deck, editing, dialog>>

NoDialog == [open |-> FALSE, loaded |-> FALSE, themes |-> {"default"}, theme |-> "default",
             picked |-> {}, posting |-> None, told |-> None]

DeckInit ==
  /\ deck = None /\ dialog = NoDialog
  /\ editing = [a \in Author |-> None]

-----------------------------------------------------------------------------
(* From lines to slides and back.                                          *)

Trim(lines) ==
  LET text == {i \in DOMAIN lines : lines[i] # ""}
  IN  IF text = {} THEN <<>>
      ELSE SubSeq(lines, CHOOSE i \in text : \A j \in text : i <= j,
                         CHOOSE i \in text : \A j \in text : j <= i)

\* splitMarp's loop: a line --- under a blank one, outside fenced code, ends a slide.
Cut(s, line) ==
  IF line = "fence"
  THEN [s EXCEPT !.cur = Append(@, line), !.fence = ~@, !.blank = FALSE]
  ELSE IF line = "rule" /\ s.blank /\ ~s.fence
  THEN [s EXCEPT !.slides = Append(@, Trim(s.cur)), !.cur = <<>>]
  ELSE [s EXCEPT !.cur = Append(@, line), !.blank = line = ""]

ScanMarp(lines) ==
  Seqs!FoldLeft(Cut, [slides |-> <<>>, cur |-> <<>>, fence |-> FALSE, blank |-> TRUE], lines)
SplitMarp(lines) == Append(ScanMarp(lines).slides, Trim(ScanMarp(lines).cur))

\* Mutant: no blank line above a break.
JoinTight(slides) ==
  Seqs!FoldLeftDomain(LAMBDA lines, i : lines \o (IF i = 1 THEN <<"">> ELSE <<"rule", "">>) \o Trim(slides[i]),
                 <<>>, slides)

JoinMarp(slides) ==
  Seqs!FoldLeftDomain(LAMBDA lines, i : lines \o (IF i = 1 THEN <<"">> ELSE <<"", "rule", "">>) \o Trim(slides[i]),
                 <<>>, slides)

\* How many slides the deck view shows: it does not take a break for a blank line.
Starts(s, line) ==
  IF line = "fence" THEN [s EXCEPT !.fence = ~@, !.blank = FALSE]
  ELSE [s EXCEPT !.n = IF line = "rule" /\ s.blank /\ ~s.fence THEN @ + 1 ELSE @,
                 !.blank = line = ""]
SlideStarts(lines) == Seqs!FoldLeft(Starts, [n |-> 1, fence |-> FALSE, blank |-> TRUE], lines).n

\* One slide: no break of its own, fences closed, no blank lines around it.
OneSlide(lines) == lines \in Seq(STRING) /\ ~ScanMarp(lines).fence /\ SplitMarp(lines) = <<lines>>

\* Fences are closed, and no break is right under another, where the two ways to
\* cut a deck differ.
WellCut(lines) ==
  /\ lines \in Seq(STRING) /\ ~ScanMarp(lines).fence
  /\ \A i \in 1 .. Len(lines) - 1 : ScanMarp(SubSeq(lines, 1, i)).cur = <<>> => lines[i + 1] # "rule"

ASSUME DeckAssumption ==
  /\ \A text \in SlideText \cup UNION {Catalog[t] : t \in DOMAIN Catalog} : OneSlide(text)
  /\ \A lines \in RawDeck : WellCut(lines)
  /\ \A t \in DOMAIN Catalog : IsFiniteSet(Catalog[t])

-----------------------------------------------------------------------------
(* The tools.                                                              *)

Writing(a) == editing[a] # None

\* loadMarp: a tool has read the deck; `slides` is what it will write.
LoadMarp(a) == deck # None /\ ~Writing(a) /\ Spend("slides") /\ UNCHANGED <<deck, dialog>>
Will(a, slides) == editing' = [editing EXCEPT ![a] = slides]

Slides == SplitMarp(deck)

AddSlide(a, i, text) ==
  LoadMarp(a) /\ i \in 1 .. Len(Slides) + 1 /\ Will(a, Seqs!InsertAt(Slides, i, text))
EditSlide(a, i, text) ==
  LoadMarp(a) /\ i \in DOMAIN Slides /\ Will(a, [Slides EXCEPT ![i] = text])
DeleteSlide(a, i) ==
  LoadMarp(a) /\ i \in DOMAIN Slides /\ Will(a, Seqs!RemoveAt(Slides, i))
MoveSlide(a, i, j) ==
  /\ LoadMarp(a) /\ {i, j} \subseteq DOMAIN Slides
  /\ Will(a, Seqs!InsertAt(Seqs!RemoveAt(Slides, i), j, Slides[i]))

\* The PUT of the whole note: nothing tells that it changed since it was read.
SaveMarp(a) ==
  /\ Writing(a)
  /\ deck' = JoinMarp(editing[a])
  /\ editing' = [editing EXCEPT ![a] = None]
  /\ UNCHANGED <<dialog, plan>>

PersonWrites(lines) ==
  /\ deck # None /\ Spend("people")
  /\ deck' = lines
  /\ UNCHANGED <<editing, dialog>>

-----------------------------------------------------------------------------
(* A new deck.                                                             *)

\* The templates of a theme; the built-in ones and some central ones have none.
Generic == {<<"title">>, <<"points">>}
TemplatesOf(theme) ==
  IF theme \in DOMAIN Catalog /\ Catalog[theme] # {} THEN Catalog[theme] ELSE Generic

\* A deck's slides: the picked templates, then slides of one's own.
NewSlides(picked, own) == Seqs!SetToSeq(picked) \o own
NewDeck(slides) == JoinMarp(IF slides = <<>> THEN <<<<"title">>>> ELSE slides)
Makes(slides) == deck = None /\ deck' = NewDeck(slides)

\* create_marp: with a catalog (it may not be readable) the theme must be one
\* the user chose; templates are those of a central theme.
CreateMarp(a, readable, theme, picked, own) ==
  /\ deck = None /\ ~Writing(a) /\ Spend("creates")
  /\ readable => theme # None
  /\ picked # {} => readable /\ theme # "default" /\ picked \subseteq Catalog[theme]
  /\ Makes(NewSlides(picked, own))
  /\ UNCHANGED <<editing, dialog>>

Dialog(changed) == dialog' = changed /\ UNCHANGED <<deck, editing>>

DialogOpens ==
  /\ ~dialog.open /\ Spend("dialogs")
  /\ Dialog([NoDialog EXCEPT !.open = TRUE, !.picked = Generic])

\* The dialog starts over from a theme, all its templates picked.
StartFrom(theme) == [dialog EXCEPT !.theme = theme, !.picked = TemplatesOf(theme)]

\* The themes come, and the dialog starts over from one with templates, whatever
\* was picked; or they do not come, and there are only the built-in ones.
HouseStyle ==
  IF \E t \in DOMAIN Catalog : Catalog[t] # {} THEN {t \in DOMAIN Catalog : Catalog[t] # {}}
  ELSE DOMAIN Catalog
CatalogLoaded ==
  /\ dialog.open /\ ~dialog.loaded /\ UNCHANGED plan
  /\ \/ \E theme \in HouseStyle :
          Dialog([StartFrom(theme) EXCEPT !.loaded = TRUE, !.themes = @ \cup DOMAIN Catalog])
     \/ Dialog([dialog EXCEPT !.loaded = TRUE])

\* What the dialog offers while it does not create.
Offers == dialog.open /\ dialog.posting = None

PickTheme(theme) ==
  /\ Offers /\ dialog.loaded /\ theme \in dialog.themes \ {dialog.theme} /\ Spend("clicks")
  /\ Dialog(StartFrom(theme))

ToggleTemplate(t) ==
  /\ Offers /\ t \in TemplatesOf(dialog.theme) /\ Spend("clicks")
  /\ Dialog([dialog EXCEPT !.picked = IF t \in @ THEN @ \ {t} ELSE @ \cup {t}])

Create ==
  /\ Offers /\ dialog.picked # {}
  /\ Dialog([dialog EXCEPT !.posting = NewSlides(dialog.picked, <<>>), !.told = None])
  /\ UNCHANGED plan

\* The note is made and the dialog goes away; or there is one already, or the
\* request fails, made or not.
CreateAnswered ==
  /\ dialog.posting # None
  /\ \/ Makes(dialog.posting) /\ dialog' = NoDialog
     \/ deck # None /\ dialog' = [dialog EXCEPT !.posting = None, !.told = "taken"] /\ UNCHANGED deck
     \/ /\ dialog' = [dialog EXCEPT !.posting = None, !.told = "failed"]
        /\ UNCHANGED deck \/ Makes(dialog.posting)
  /\ UNCHANGED <<editing, plan>>

DialogCloses == Offers /\ Dialog(NoDialog) /\ UNCHANGED plan

DeckNext ==
  \/ \E a \in Author :
       \/ SaveMarp(a)
       \/ \E i \in 1 .. 4 :
            \/ DeleteSlide(a, i)
            \/ \E text \in SlideText : AddSlide(a, i, text) \/ EditSlide(a, i, text)
            \/ \E j \in 1 .. 4 : MoveSlide(a, i, j)
       \/ \E theme \in DOMAIN Catalog \cup {None, "default"}, readable \in BOOLEAN :
          \E picked \in SUBSET UNION {Catalog[t] : t \in DOMAIN Catalog}, text \in SlideText :
            CreateMarp(a, readable, theme, picked, <<text>>)
  \/ \E lines \in RawDeck : PersonWrites(lines)
  \/ \E theme \in DOMAIN Catalog \cup {"default"} : PickTheme(theme)
  \/ \E t \in Generic \cup UNION {Catalog[c] : c \in DOMAIN Catalog} : ToggleTemplate(t)
  \/ DialogOpens \/ CatalogLoaded \/ Create \/ CreateAnswered \/ DialogCloses

-----------------------------------------------------------------------------
(* Properties                                                              *)

\* The slides a tool sets out to write are the slides anyone reads back, so a
\* tool that changes one slide leaves the others and their numbers as it told;
\* and the deck view shows as many slides as the tools count.
SlidesAsWritten ==
  /\ \A a \in Author : Writing(a) /\ editing[a] # <<>> => SplitMarp(JoinMarp(editing[a])) = editing[a]
  /\ deck # None => SlideStarts(deck) = Len(Slides)
=============================================================================
