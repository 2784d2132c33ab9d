------------------------------- MODULE ServerPages -------------------------------
(***************************************************************************)
(* Three pages about the server (components/Settings.jsx, AdminPanel.jsx): *)
(* the API tokens, one's own and everybody's; the central themes of slide  *)
(* decks; and the restart.  The server's steps are those of                *)
(* handlers/tokens.go, marp_themes.go and restart.go.                      *)
(***************************************************************************)
EXTENDS WebBase

CONSTANTS Keeper, ThemeName   \* super-admins; names of themes

Audit == "audit"   \* the list of everybody's tokens
KeyTab == Keeper \cup {Audit}
New == "new"       \* the editor, for a theme that is not there yet

\* People are not called like the list of everybody's tokens or a program, and no theme may
\* have the editor's own mark for a name (marp_themes.go:40).
ASSUME ServerAssumption == {Audit, "script"} \cap Keeper = {} /\ {New, None} \cap ThemeName = {}

VARIABLES
  keys,      \* the tokens: id, by
  keyTabs,   \* tab -> shows (the tokens), token (the one it has just made), at
  themes,    \* name -> css, tpl (versions, 0 is none), own: tpl was saved for this theme
  themeTabs, \* super-admin -> shows, sel, name, css, tpl, at, and whether a save
             \* said it failed since the list was read (doubt),
             \* and what it removed and has not opened since (gone)
  server,    \* the process: id, draining, triggers (restarts it was told to do)
  restarts,  \* super-admin -> stage, before, asked
  srvAsked,  \* what the tabs asked for
  stamp,     \* versions and tokens so far
  srvChanges,\* who -> changes made
  landed     \* reloads: the process that was asked to restart, and the one found

keyVars == <<keys, keyTabs>>
themeVars == <<themes, themeTabs>>
bootVars == <<server, restarts, landed>>
serverVars == <<keyVars, themeVars, bootVars, srvAsked, stamp, srvChanges>>

NoKeys == [shows |-> None, token |-> None, at |-> None]
NoThemes ==
  [shows |-> None, sel |-> None, name |-> None, css |-> 0, tpl |-> 0, doubt |-> FALSE, gone |-> {}, at |-> None]

ServerInit ==
  /\ keys = {} /\ keyTabs = [t \in KeyTab |-> NoKeys]
  /\ themes = [n \in ThemeName |-> [css |-> 0, tpl |-> 0, own |-> FALSE]]
  /\ themeTabs = [p \in Keeper |-> NoThemes]
  /\ server = [id |-> 1, draining |-> FALSE, triggers |-> 0]
  /\ restarts = [p \in Keeper |-> [stage |-> "idle", before |-> 0, asked |-> 0]]
  /\ srvAsked = {} /\ stamp = 0 /\ landed = {}
  /\ srvChanges = [w \in KeyTab \cup {"script"} |-> 0]

SrvChanged(w) == srvChanges' = [srvChanges EXCEPT ![w] = @ + 1]
Waitless(w) == \A q \in srvAsked : q.by # w
SrvAnswered(q, more) == srvAsked' = (srvAsked \ {q}) \cup more

-----------------------------------------------------------------------------
(* API tokens.                                                             *)

\* listTokens and HandleAdminTokens: one's own, or everybody's.
KeyList(t) == {k \in keys : t = Audit \/ k.by = t}

KeyRead(t) == [by |-> t, kind |-> "keys", shows |-> KeyList(t), at |-> srvChanges]

OpensKeys(t) ==
  /\ Waitless(t) /\ Spend("opens")
  /\ keyTabs' = [keyTabs EXCEPT ![t] = NoKeys] /\ srvAsked' = srvAsked \cup {KeyRead(t)}
  /\ UNCHANGED <<keys, stamp, srvChanges>>

KeysShown(q) ==
  /\ q.kind = "keys" /\ SrvAnswered(q, {})
  /\ keyTabs' = [keyTabs EXCEPT ![q.by].shows = q.shows, ![q.by].at = q.at]
  /\ UNCHANGED <<keys, stamp, srvChanges, plan>>

\* createToken; the token comes with the answer, and only with it.
KeyCreated(t, kind) ==
  /\ Spend("creates") /\ stamp' = stamp + 1 /\ SrvChanged(t)
  /\ keys' = keys \cup {[id |-> stamp', by |-> t]}
  /\ srvAsked' = srvAsked \cup {[by |-> t, kind |-> kind, id |-> stamp']}

\* handleCreate.
CreateKey(t) ==
  t # Audit /\ keyTabs[t].at # None /\ (Hurried \/ Waitless(t)) /\ KeyCreated(t, "made") /\ UNCHANGED keyTabs

\* CliTokenButton, on a tab that takes the list's place.
CreateCliKey(t) ==
  t # Audit /\ Waitless(t) /\ KeyCreated(t, "cli") /\ keyTabs' = [keyTabs EXCEPT ![t] = NoKeys]

\* Mutant: the list as it was.
KeepsList(q) == {}

\* After a token is made or revoked the list is read again.
ListAgain(q) == {KeyRead(q.by)}

KeyMade(q) ==
  /\ q.kind \in {"made", "cli"} /\ keyTabs' = [keyTabs EXCEPT ![q.by].token = q.id]
  /\ SrvAnswered(q, IF q.kind = "made" THEN ListAgain(q) ELSE {})
  /\ UNCHANGED <<keys, stamp, srvChanges, plan>>

\* handleRevoke; a token that is not there any more, or another's, is refused.
RevokeKey(t) ==
  /\ keyTabs[t].shows # None /\ (Hurried \/ Waitless(t)) /\ Spend("revokes")
  /\ \E k \in keyTabs[t].shows :
       LET ok == k \in KeyList(t)
       IN  /\ keys' = keys \ (IF ok THEN {k} ELSE {})
           /\ IF ok THEN SrvChanged(t) ELSE UNCHANGED srvChanges
           /\ srvAsked' = srvAsked \cup {[by |-> t, kind |-> "revoked", ok |-> ok]}
  /\ UNCHANGED <<keyTabs, stamp>>

KeyRevoked(q) ==
  /\ q.kind = "revoked" /\ SrvAnswered(q, IF q.ok THEN ListAgain(q) ELSE {})
  /\ UNCHANGED <<keyVars, stamp, srvChanges, plan>>

KeyNext ==
  \/ \E t \in KeyTab : OpensKeys(t) \/ CreateKey(t) \/ CreateCliKey(t) \/ RevokeKey(t)
  \/ \E q \in srvAsked : KeysShown(q) \/ KeyMade(q) \/ KeyRevoked(q)

-----------------------------------------------------------------------------
(* The central themes: a theme's style and its slide templates are two     *)
(* files, written and removed one after the other.                         *)

ThemeList ==
  LET there == {n \in ThemeName : themes[n].css # 0}
  IN  {[name |-> n, css |-> themes[n].css, tpl |-> themes[n].tpl] : n \in there}

ThemeRead(p) == [by |-> p, kind |-> "themes", shows |-> ThemeList, at |-> srvChanges]

OpensThemes(p) ==
  /\ Waitless(p) /\ Spend("opens")
  /\ themeTabs' = [themeTabs EXCEPT ![p] = NoThemes] /\ srvAsked' = srvAsked \cup {ThemeRead(p)}
  /\ UNCHANGED <<themes, stamp, srvChanges>>

ThemesShown(q) ==
  /\ q.kind = "themes" /\ SrvAnswered(q, {})
  /\ themeTabs' = [themeTabs EXCEPT ![q.by].shows = q.shows, ![q.by].at = q.at, ![q.by].doubt = FALSE]
  /\ UNCHANGED <<themes, stamp, srvChanges, plan>>

\* openTheme and openNew.
OpenTheme(p) ==
  /\ themeTabs[p].shows # None /\ (Hurried \/ Waitless(p)) /\ Spend("looks") /\ stamp' = stamp + 1
  /\ \E t \in themeTabs[p].shows \cup {[name |-> New, css |-> stamp', tpl |-> 0]} :
       themeTabs' = [themeTabs EXCEPT ![p] =
         [themeTabs[p] EXCEPT !.sel = t.name, !.name = IF t.name = New THEN None ELSE t.name,
                              !.css = t.css, !.tpl = t.tpl, !.gone = @ \ {t.name}]]
  /\ UNCHANGED <<themes, srvAsked, srvChanges>>

\* The editor: another style, with templates or none; the name of a new one.
EditTheme(p) ==
  /\ themeTabs[p].sel # None /\ Spend("edits") /\ stamp' = stamp + 1
  /\ LET named == themeTabs[p].sel = New /\ (Hurried \/ Waitless(p))
     IN  \E n \in IF named THEN ThemeName ELSE {themeTabs[p].name}, tpl \in {0, stamp'} :
           themeTabs' = [themeTabs EXCEPT ![p].name = n, ![p].css = stamp', ![p].tpl = tpl]
  /\ UNCHANGED <<themes, srvAsked, srvChanges>>

\* No other save of the theme is between its two files.
Whole(n) == Hurried \/ \A q \in srvAsked : q.kind = "half" => q.name # n

CssWritten(n, css) ==
  themes' = [themes EXCEPT ![n] = [css |-> css, tpl |-> @.tpl, own |-> @.own /\ @.css # 0]]

\* save; upsert writes the style first.
SaveTheme(p) ==
  LET t == themeTabs[p]
  IN  /\ t.sel # None /\ t.name # None /\ Waitless(p) /\ Whole(t.name) /\ Spend("saves")
      /\ CssWritten(t.name, t.css) /\ SrvChanged(p)
      /\ srvAsked' = srvAsked \cup {[by |-> p, kind |-> "half", name |-> t.name, tpl |-> t.tpl]}
      /\ UNCHANGED <<themeTabs, stamp>>

\* Then the templates, or their removal, which may fail.
TemplatesWritten(q) ==
  /\ q.kind = "half" /\ SrvChanged(q.by)
  /\ \/ /\ themes' = [themes EXCEPT ![q.name].tpl = q.tpl, ![q.name].own = TRUE]
        /\ SrvAnswered(q, {[by |-> q.by, kind |-> "saved", name |-> q.name, ok |-> TRUE]})
        /\ UNCHANGED plan
     \/ /\ Spend("fails")
        /\ SrvAnswered(q, {[by |-> q.by, kind |-> "saved", name |-> q.name, ok |-> FALSE]})
        /\ UNCHANGED themes
  /\ UNCHANGED <<themeTabs, stamp>>

ThemeSaved(q) ==
  /\ q.kind = "saved"
  /\ themeTabs' = [themeTabs EXCEPT ![q.by].sel = IF q.ok THEN q.name ELSE @,
                                       ![q.by].gone = @ \ {q.name}, ![q.by].doubt = @ \/ ~q.ok]
  /\ SrvAnswered(q, IF q.ok THEN {ThemeRead(q.by)} ELSE {})
  /\ UNCHANGED <<themes, stamp, srvChanges, plan>>

\* Mutant: the templates stay.
WithoutCss(n) == [themes[n] EXCEPT !.css = 0]

\* remove, on the server.
WithoutTheme(n) == [css |-> 0, tpl |-> 0, own |-> FALSE]

DeleteTheme(p) ==
  /\ themeTabs[p].shows # None /\ Waitless(p) /\ Spend("deletes")
  /\ \E t \in themeTabs[p].shows :
       /\ Whole(t.name)
       /\ themes' = [themes EXCEPT ![t.name] = WithoutTheme(t.name)]
       /\ srvAsked' = srvAsked \cup {[by |-> p, kind |-> "deleted", name |-> t.name,
                                    open |-> themeTabs[p].sel = t.name]}
  /\ SrvChanged(p)
  /\ UNCHANGED <<themeTabs, stamp>>

\* Mutant: the editor stays open.
StaysOpen(q) == FALSE

\* remove, in the page: the editor closes when it has the theme that went.
Closes(q) == q.open

ThemeDeleted(q) ==
  /\ q.kind = "deleted" /\ SrvAnswered(q, {ThemeRead(q.by)})
  /\ LET t == themeTabs[q.by]
         kept == IF Closes(q) THEN [t EXCEPT !.sel = None, !.name = None, !.css = 0, !.tpl = 0] ELSE t
     IN  themeTabs' = [themeTabs EXCEPT ![q.by] = [kept EXCEPT !.gone = @ \cup {q.name}]]
  /\ UNCHANGED <<themes, stamp, srvChanges, plan>>

\* A program saves a style and does not mention templates.
StyleAlone(n) ==
  /\ Whole(n) /\ Spend("scripts") /\ stamp' = stamp + 1
  /\ CssWritten(n, stamp') /\ SrvChanged("script")
  /\ UNCHANGED <<themeTabs, srvAsked>>

ThemeNext ==
  \/ \E p \in Keeper : OpensThemes(p) \/ OpenTheme(p) \/ EditTheme(p) \/ SaveTheme(p) \/ DeleteTheme(p)
  \/ \E q \in srvAsked : ThemesShown(q) \/ TemplatesWritten(q) \/ ThemeSaved(q) \/ ThemeDeleted(q)
  \/ \E n \in ThemeName : StyleAlone(n)

-----------------------------------------------------------------------------
(* The restart.                                                            *)

\* restart: the process that answers, before it is asked to restart.
ReadsBoot(p) ==
  /\ restarts[p].stage = "idle" /\ Spend("restarts")
  /\ restarts' = [restarts EXCEPT ![p] = [@ EXCEPT !.stage = "read", !.before = server.id]]
  /\ UNCHANGED <<server, landed>>

\* Mutant: every request restarts.
TriggersAgain(n) == n + 1

\* Handle: one restart, however often it is asked for.
Triggers(n) == IF n = 0 THEN 1 ELSE n

\* restartServer; nobody else's restart came in between.
AsksRestart(p) ==
  /\ restarts[p].stage = "read" /\ (Hurried \/ server.id = restarts[p].before)
  /\ server' = [server EXCEPT !.draining = TRUE, !.triggers = Triggers(@)]
  /\ restarts' = [restarts EXCEPT ![p].stage = "waiting", ![p].asked = server.id]
  /\ UNCHANGED <<landed, plan>>

\* A process that is going down need not answer; and the wait ends one day.
RestartFails(p) ==
  /\ restarts[p].stage \in {"read", "waiting"} /\ (server.draining \/ server.id # restarts[p].before)
  /\ restarts' = [restarts EXCEPT ![p].stage = "idle"]
  /\ UNCHANGED <<server, landed, plan>>

\* reexec.
Reexec ==
  /\ server.draining
  /\ server' = [id |-> server.id + 1, draining |-> FALSE, triggers |-> 0]
  /\ UNCHANGED <<restarts, landed, plan>>

\* Mutant: anything that answers.
AnyBoot(before, id) == TRUE

\* waitForRestart: another process, not the old one still draining.
Another(before, id) == id # before

PollsBoot(p) ==
  /\ restarts[p].stage = "waiting" /\ Another(restarts[p].before, server.id)
  /\ landed' = landed \cup {[asked |-> restarts[p].asked, on |-> server.id]}
  /\ restarts' = [restarts EXCEPT ![p].stage = "idle"]
  /\ UNCHANGED <<server, plan>>

BootNext == Reexec \/ \E p \in Keeper : ReadsBoot(p) \/ AsksRestart(p) \/ RestartFails(p) \/ PollsBoot(p)

ServerNext ==
  \/ KeyNext /\ UNCHANGED <<themeVars, bootVars>>
  \/ ThemeNext /\ UNCHANGED <<keyVars, bootVars>>
  \/ BootNext /\ UNCHANGED <<keyVars, themeVars, srvAsked, stamp, srvChanges>>

-----------------------------------------------------------------------------
(* Properties                                                              *)

\* A tab that waits for nothing knows of every change but those it made itself.
Knows(w, at) == Waitless(w) /\ at # None /\ \A o \in DOMAIN srvChanges \ {w} : srvChanges[o] = at[o]

\* Somebody who looks at a list of tokens sees those that work (Settings.jsx TokensTab,
\* AdminPanel.jsx ApiTokensTab): a token they revoked is gone from it, one they made is on it.
KeysTrue == \A t \in KeyTab : Knows(t, keyTabs[t].at) => keyTabs[t].shows = KeyList(t)

\* The list of themes is the server's unless a save said it failed, and the editor is
\* never left on a theme that the page has removed (AdminPanel.jsx MarpThemesTab).
ThemesTrue ==
  \A p \in Keeper : LET t == themeTabs[p] IN
    /\ Knows(p, t.at) /\ ~t.doubt => t.shows = ThemeList
    /\ Waitless(p) => t.sel \notin t.gone /\ (t.sel \notin {None, New} => t.sel = t.name)

\* A theme never comes with the templates of a removed one of the same name (marp_themes.go).
TemplatesOwn == \A n \in ThemeName : themes[n].css # 0 /\ themes[n].tpl # 0 => themes[n].own

\* A process is told to restart once, and a page reloads on another than it told (api.js:1239).
RestartRight == server.triggers <= 1 /\ \A l \in landed : l.on # l.asked

ServerRight == KeysTrue /\ ThemesTrue /\ TemplatesOwn /\ RestartRight
=============================================================================
