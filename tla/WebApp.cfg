SPECIFICATION Spec
CONSTANTS
  A = A
  B = B
  C = C
  None = None
  Note = {A, B}
  Home = A
  Chat = {A, B}
  Card = {A, B}
  Column = {"todo", "doing", "done"}
  Done = "done"
  Inbox = "todo"
  Space = {A, B}
  Front = A
  Entry = {"f"}
  Decision = {"allow", "deny"}
  Agent = {A, B}
  Picky = {A}
  Piece = {"q", "r", "s"}
  Author = {A}
  SlideText <- MCSlideText
  RawDeck <- MCRawDeck
  Catalog <- MCCatalog
  Drawer = {A, B}
  Canvas = {A, B}
  MaxId = 8
  Root = {A, B}
  Named = {"d", "dn"}
  Longer <- MCLonger
  Stored <- MCStored
  Opened <- MCOpened
  Typed <- MCTyped
  Elsewhere <- MCElsewhere
  Browser = {A, B}
  Goal = {A}
  Person = {A, B, C}
  Chief = A
  Newcomer = C
  Team = Team
  Boss = {A, B}
  Repo = {"r", "s"}
  Keeper = {A, B}
  ThemeName = {"r", "s"}
  Writer = {A, B}
  Leaf = {"m", "n"}
  Moderator = {B}
  Plans <- MCPlans
  Hurried = FALSE
  ChatPolls = 2
CHECK_DEADLOCK FALSE
INVARIANTS EditsKept ChatGapless WordsKept DropsLand    DrawingsWhole  
PROPERTIES ElsewhereKept EditsSaved ScreenSettles EditKeeps
