------------------------------- MODULE MCWebApp -------------------------------
(* WebApp for TLC: two notes, chats, cards, workspaces and agents, and what *)
(* happens to them.                                                         *)
EXTENDS WebApp

CONSTANTS A, B, C

NoteP(ty, ticked, elsewhere, opens, fails, peers) ==
  [typed |-> ty, ticked |-> ticked, elsewhere |-> elsewhere,
   opens |-> opens, fails |-> fails, peers |-> peers]

NotePlans ==
  {NoteP({<<A, "x">>}, {}, {<<A, "o">>, <<A, "p">>}, 0, 1, 0),
   NoteP({<<A, "x">>, <<A, "y">>}, {}, {<<A, "o">>}, 0, 1, 1),
   NoteP({<<A, "x">>, <<A, "y">>, <<B, "z">>}, {}, {<<A, "o">>}, 2, 1, 0),
   NoteP({<<A, "x">>, <<B, "z">>}, {<<A, "t">>}, {}, 2, 0, 0),
   NoteP({<<A, "x">>}, {<<A, "t">>}, {<<A, "o">>}, 2, 0, 0)}

MCTyped == UNION {p.typed : p \in NotePlans}
MCElsewhere == UNION {p.elsewhere : p \in NotePlans}

ChatP(ty, others, opens, refreshes, fails, lost) ==
  [typed |-> ty, others |-> others, opens |-> opens,
   refreshes |-> refreshes, fails |-> fails, lost |-> lost]

ChatPlans ==
  {ChatP({<<A, "x">>}, {<<A, "o">>, <<A, "p">>}, 1, 1, 0, 0),
   ChatP({<<A, "x">>}, {<<A, "o">>}, 3, 0, 1, 0),
   ChatP({<<A, "x">>, <<A, "y">>}, {}, 3, 0, 0, 0),
   ChatP({<<A, "x">>, <<B, "z">>}, {<<A, "o">>}, 2, 0, 1, 0),
   ChatP({<<A, "x">>}, {<<A, "o">>}, 2, 0, 0, 1)}

BoardP(drops, others, reads, fails, ticks, deletes) ==
  [drops |-> drops, others |-> others, reads |-> reads,
   fails |-> fails, ticks |-> ticks, deletes |-> deletes]

BoardPlans ==
  {BoardP(2, 1, 0, 0, 0, 0), BoardP(2, 0, 1, 1, 0, 0), BoardP(1, 1, 0, 0, 1, 0),
   BoardP(1, 0, 0, 0, 1, 1), BoardP(3, 0, 0, 0, 0, 0)}

StickyP(others, fails, edits, leaves) ==
  [others |-> others, fails |-> fails, edits |-> edits, leaves |-> leaves]

StickyPlans == {StickyP(1, 1, 3, 1), StickyP(0, 2, 3, 1)}

ApprovalP(elsewhere, forgets, opens, fails) ==
  [elsewhere |-> elsewhere, forgets |-> forgets, opens |-> opens, fails |-> fails]

ApprovalPlans == {ApprovalP(1, 0, 2, 1), ApprovalP(0, 1, 1, 0)}

TreeP(host, api, tabs, sockets, selects, changes, hides, fails) ==
  [host |-> host, api |-> api, tabs |-> tabs, sockets |-> sockets,
   selects |-> selects, changes |-> changes, hides |-> hides, fails |-> fails]

TreePlans ==
  {TreeP(1, 1, 0, 1, 0, 0, 1, 0), TreeP(1, 0, 1, 0, 1, 0, 0, 1), TreeP(0, 0, 0, 0, 2, 1, 0, 0)}

AgentP(posts, others, fails, adds, edits) ==
  [posts |-> posts, others |-> others, fails |-> fails, adds |-> adds, edits |-> edits]

AgentPlans == {AgentP(1, 2, 1, 0, 0), AgentP(2, 1, 0, 0, 0), AgentP(0, 0, 0, 3, 2)}

DeckP(slides, people, creates, dialogs, clicks) ==
  [slides |-> slides, people |-> people, creates |-> creates, dialogs |-> dialogs, clicks |-> clicks]

DeckPlans == {DeckP(2, 1, 1, 0, 0), DeckP(0, 0, 1, 1, 2)}

\* A slide's lines; a deck as people write it; the central themes.
MCSlideText == {<<"x">>, <<"fence", "", "rule", "fence">>}
MCRawDeck == {<<"x", "rule", "", "rule", "y">>}
MCCatalog == [house |-> {<<"t">>, <<"u">>}, plain |-> {}]

DrawP(draws, strokes, canvases) == [draws |-> draws, strokes |-> strokes, canvases |-> canvases]

DrawPlans == {DrawP(4, 0, 0), DrawP(0, 2, 3)}

PlaceP(opens, changes, dialogs, choices, others, texts) ==
  [opens |-> opens, changes |-> changes, dialogs |-> dialogs,
   choices |-> choices, others |-> others, texts |-> texts]

PlacePlans ==
  {PlaceP(1, 2, 0, 0, 0, {}), PlaceP(0, 0, 1, 2, 1, {}), PlaceP(0, 1, 0, 0, 1, {"u"}),
   PlaceP(1, 0, 1, 0, 0, {"u"}), PlaceP(1, 0, 1, 1, 0, {})}

\* Two workspaces with a folder d each; a note in one of them, another beside it,
\* whose name begins with the folder's.
MCStored ==
  [q \in {<<A>>, <<B>>, <<A, "d">>, <<B, "d">>, <<A, "d", "dn">>, <<A, "dn">>} |->
     IF q = <<A, "d", "dn">> THEN "x" ELSE IF q = <<A, "dn">> THEN "y" ELSE Folder]
MCOpened == <<A, "d", "dn">>
MCLonger == {<<"dn", "d">>}

SignP(provider, required, logins, submits, changes, reloads, lost, admin) ==
  [provider |-> provider, required |-> required, logins |-> logins, submits |-> submits,
   changes |-> changes, reloads |-> reloads, lost |-> lost, admin |-> admin]

SignPlans ==
  {SignP("local", TRUE, 3, 3, 0, 1, 0, 1), SignP("local", TRUE, 2, 3, 0, 0, 1, 0),
   SignP("local", FALSE, 3, 1, 2, 0, 0, 1), SignP("firebase", TRUE, 3, 3, 0, 0, 1, 0),
   SignP("sso", FALSE, 2, 0, 1, 0, 1, 0)}

DeskP(clicks, forms, saves, others, looks, polls, fails) ==
  [clicks |-> clicks, forms |-> forms, saves |-> saves, others |-> others,
   looks |-> looks, polls |-> polls, fails |-> fails]

DeskPlans ==
  {DeskP(2, 0, 0, 0, 0, 1, 1), DeskP(1, 0, 0, 1, 0, 1, 0), DeskP(0, 1, 0, 1, 0, 0, 0),
   DeskP(1, 1, 0, 0, 0, 0, 1), DeskP(0, 0, 2, 1, 0, 0, 0), DeskP(1, 0, 0, 0, 1, 0, 0),
   DeskP(0, 0, 0, 2, 1, 0, 0)}

AdminP(opens, clicks, invites, logins, fails, does) ==
  [opens |-> opens, clicks |-> clicks, invites |-> invites,
   logins |-> logins, fails |-> fails, does |-> does]

AdminPlans ==
  {AdminP(1, 2, 0, 0, 0, {"role", "promote", "demote", "take"}), AdminP(1, 0, 1, 0, 1, {}),
   AdminP(2, 2, 0, 1, 0, {"role", "promote"}), AdminP(2, 2, 0, 0, 0, {"join", "leave", "give", "set", "take"}),
   AdminP(2, 2, 0, 0, 0, {"give", "team", "namespace"}), AdminP(2, 2, 0, 0, 0, {"role", "delete", "join"}),
   AdminP(2, 1, 1, 1, 0, {"promote"}), AdminP(1, 4, 0, 1, 0, {"role", "promote", "take"})}

GitP(opens, forms, clicks, pushes, does) ==
  [opens |-> opens, forms |-> forms, clicks |-> clicks, pushes |-> pushes, does |-> does]

GitPlans ==
  {GitP(1, 1, 3, 1, {"own", "edit", "remove"}), GitP(2, 1, 3, 0, {"own", "remove"}),
   GitP(1, 1, 2, 1, {"conn", "grouped", "unconn"}), GitP(1, 1, 3, 0, {"conn", "grouped", "unconn"}),
   GitP(2, 1, 3, 0, {"mine", "off", "remove"}), GitP(2, 0, 2, 1, {"remove", "edit"}), GitP(1, 0, 3, 0, {"edit"})}

ServerP(opens, creates, revokes, looks, edits, saves, deletes, scripts, fails, reboots) ==
  [opens |-> opens, creates |-> creates, revokes |-> revokes, looks |-> looks, edits |-> edits,
   saves |-> saves, deletes |-> deletes, scripts |-> scripts, fails |-> fails, restarts |-> reboots]

ServerPlans ==
  {ServerP(2, 2, 2, 0, 0, 0, 0, 0, 0, 0), ServerP(3, 1, 2, 0, 0, 0, 0, 0, 0, 0),
   ServerP(1, 0, 0, 2, 1, 2, 1, 1, 1, 0), ServerP(2, 0, 0, 1, 1, 1, 1, 0, 0, 0),
   ServerP(0, 0, 0, 0, 0, 0, 0, 0, 0, 3)}

RemarkP(opens, marks, adds, answers, edits, scripts) ==
  [opens |-> opens, marks |-> marks, adds |-> adds, replies |-> answers, changes |-> edits, scripts |-> scripts]

RemarkPlans ==
  {RemarkP(2, 1, 1, 1, 1, 0), RemarkP(2, 0, 1, 0, 1, 1), RemarkP(1, 0, 1, 2, 0, 0)}

MCPlans ==
  [note |-> NotePlans, chat |-> ChatPlans, board |-> BoardPlans, sticky |-> StickyPlans,
   approval |-> ApprovalPlans, tree |-> TreePlans, agent |-> AgentPlans,
   deck |-> DeckPlans, draw |-> DrawPlans,
   place |-> PlacePlans, sign |-> SignPlans, desk |-> DeskPlans, admin |-> AdminPlans, git |-> GitPlans,
   server |-> ServerPlans, remark |-> RemarkPlans]
=============================================================================
