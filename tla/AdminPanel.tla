-------------------------------- MODULE AdminPanel --------------------------------
(***************************************************************************)
(* Who may reach a namespace, and the pages it is arranged on              *)
(* (frontend/src: adminDirectory.js and, in components, AdminPeople.jsx,   *)
(* AdminPanel.jsx, ShareDialog.jsx), with the server's steps as the pages  *)
(* meet them (handlers/admin.go, groups.go, middleware/permission.go).     *)
(* Access is kept in four places, the person's own grants, the groups they *)
(* are in, the namespaces they administer and their role: the page joins   *)
(* them from two rounds of requests, the server looks in each.             *)
(*                                                                         *)
(* One namespace with a folder d, one group.  Several admins, one page     *)
(* each; a session keeps the role it was opened with.                      *)
(***************************************************************************)
EXTENDS WebBase

CONSTANTS Person, Chief, Newcomer, Team   \* the super-admin there is; who is not there yet

Role == {"superadmin", "admin", "collaborator"}

ASSUME AdminAssumption ==
  Chief \in Person /\ Newcomer \in Person \ {Chief} /\ Team \notin Person /\ None \notin Role \cup {"groups", "share"}

VARIABLES
  access, \* role, admins (of the namespace), grants, members and team (of the group, and
          \* whether it exists), made (grants so far), there (the namespace)
  badge,  \* person -> the role of their session
  panel,   \* person -> tab (None: none open), super (it says so), dir (what it lists), list
          \* (a tab's own copy), at (what others had written when it read), invited
  pending,  \* requests of the pages, and reads half done
  wrote   \* person -> changes they made

adminVars == <<access, badge, panel, pending, wrote>>

Subpath == {"/", "d"}
Grant(id, who, path, perm) == [id |-> id, who |-> who, path |-> path, perm |-> perm]
NoPanel == [tab |-> None, super |-> FALSE, dir |-> None, list |-> None, at |-> None, invited |-> None]

\* A member of the group, and somebody who may read a folder.
AdminInit ==
  /\ access = [role |-> [w \in Person |-> CASE w = Chief -> "superadmin"
                                            [] w = Newcomer -> None [] OTHER -> "collaborator"],
               admins |-> {}, grants |-> {Grant(1, Team, "/", "read")}
                            \cup {Grant(2, w, "d", "write") : w \in Person \ {Chief, Newcomer}},
               members |-> {}, team |-> TRUE, made |-> 2, there |-> TRUE]
  /\ badge = access.role
  /\ panel = [w \in Person |-> NoPanel] /\ pending = {}
  /\ wrote = [w \in Person |-> 0]

-----------------------------------------------------------------------------
(* The server.                                                             *)

\* PathCovers; a grant to write is one to read.
Allows(g, path, perm) == g.path \in {"/", path} /\ (perm = "read" \/ g.perm = "write")

\* hasAdminScope, granted: a namespace admin, a grant of one's own or of one's group.
Enforced(w, path, perm) ==
  \/ badge[w] = "admin" /\ w \in access.admins
  \/ \E g \in access.grants : /\ g.who = w \/ (g.who = Team /\ w \in access.members)
                              /\ Allows(g, path, perm)

\* callerCanAdminNamespace: by the session's role.
Administers(w) == badge[w] = "superadmin" \/ (badge[w] = "admin" /\ w \in access.admins)

There(w) == access.role[w] # None
Supers == {w \in Person : access.role[w] = "superadmin"}

\* Mutant: only a removal asks whether somebody else is left.
LeavesSomeOnDelete(op) == op.do = "role" \/ Supers \ {op.who} # {}

\* ensureNotLastSuperAdmin.
LeavesSome(op) == op.who \notin Supers \/ Supers \ {op.who} # {}

Direct(w, path) == {g \in access.grants : g.who = w /\ g.path = path}
Granted(a, w, path, perm) ==
  [a EXCEPT !.grants = @ \cup {Grant(a.made + 1, w, path, perm)}, !.made = @ + 1]

\* What a request is refused for.
Permitted(by, op) ==
  CASE op.do \in {"role", "delete"} ->
         /\ badge[by] = "superadmin" /\ There(op.who)
         /\ op.do = "delete" => op.who # by
         /\ (op.do = "role" /\ op.perm = "superadmin") \/ LeavesSome(op)
    [] op.do \in {"join", "leave"} -> badge[by] = "superadmin" /\ access.team /\ (op.do = "join" => There(op.who))
    [] op.do \in {"team", "namespace"} -> badge[by] = "superadmin"
    [] op.do = "promote" -> Administers(by) /\ There(op.who) /\ op.who \notin Supers
    [] op.do = "demote" -> Administers(by)
    [] op.do = "give" ->
         IF op.who = Team THEN badge[by] = "superadmin" /\ access.team
         ELSE Administers(by) /\ There(op.who) /\ Direct(op.who, op.path) = {}
    [] OTHER -> \E g \in access.grants :
                  g.id = op.id /\ (badge[by] = "superadmin" \/ (g.who # Team /\ Administers(by)))

\* addNamespaceAdmin: the role follows, and a grant to open the notes with.
Promoted(a, w) ==
  LET b == [a EXCEPT !.admins = @ \cup {w},
                     !.role[w] = IF @ = "collaborator" THEN "admin" ELSE @]
  IN  IF Direct(w, "/") = {} THEN Granted(b, w, "/", "write") ELSE b

\* removeNamespaceAdmin: the grant stays.
Demoted(a, w) ==
  [a EXCEPT !.admins = @ \ {w}, !.role[w] = IF @ = "admin" THEN "collaborator" ELSE @]

\* Deleting a person deletes what refers to them; deleting a namespace its admins and the
\* grants people have, not those of a group.
Carried(op) ==
  LET a == access
  IN  CASE op.do = "role" -> [a EXCEPT !.role[op.who] = op.perm]
        [] op.do = "delete" -> [a EXCEPT !.role[op.who] = None, !.admins = @ \ {op.who},
                                         !.members = @ \ {op.who},
                                         !.grants = {g \in @ : g.who # op.who}]
        [] op.do = "join" -> [a EXCEPT !.members = @ \cup {op.who}]
        [] op.do = "leave" -> [a EXCEPT !.members = @ \ {op.who}]
        [] op.do = "team" -> [a EXCEPT !.team = ~@, !.members = {},
                                       !.grants = {g \in @ : g.who # Team}]
        [] op.do = "namespace" -> [a EXCEPT !.there = ~@,
                                            !.admins = IF a.there THEN {} ELSE @,
                                            !.grants = IF a.there THEN {g \in @ : g.who = Team} ELSE @]
        [] op.do = "promote" -> Promoted(a, op.who)
        [] op.do = "demote" -> Demoted(a, op.who)
        [] op.do = "give" -> Granted([a EXCEPT !.grants = @ \ Direct(op.who, op.path)], op.who, op.path, op.perm)
        [] op.do = "set" -> [a EXCEPT !.grants = {IF g.id = op.id THEN [g EXCEPT !.perm = op.perm] ELSE g : g \in @}]
        [] OTHER -> [a EXCEPT !.grants = {g \in @ : g.id # op.id}]

Serve(by, op) ==
  /\ access' = IF Permitted(by, op) THEN Carried(op) ELSE access
  /\ wrote' = IF access' = access THEN wrote ELSE [wrote EXCEPT ![by] = @ + 1]

-----------------------------------------------------------------------------
(* The directory.                                                          *)

\* Mutant: the first reason that is found.
WeakestWins(perms) == IF "read" \in perms THEN "read" ELSE "write"

\* strongerPermission.
Stronger(perms) == IF "write" \in perms THEN "write" ELSE "read"

\* Mutant: a namespace admin has what they were given.
AdminsAsAnybody(d, w) == {}

\* A namespace admin reaches all of it.
ByAdmin(d, w) == IF w \in d.admins THEN {"write"} ELSE {}

\* addAccess, buildDirectory: the permissions a person has on a path, for whatever reason.
Reasons(d, w, path) ==
  {g.perm : g \in {h \in d.grants : h.path = path /\ (h.who = w \/ (h.who = Team /\ w \in d.members))}}
    \cup (IF path = "/" THEN ByAdmin(d, w) ELSE {})

\* What `Can reach` says of it.
ShownReach(d, w, path, perm) ==
  \E p \in {"/", path} : Reasons(d, w, p) # {} /\ (perm = "read" \/ Stronger(Reasons(d, w, p)) = "write")

-----------------------------------------------------------------------------
(* The pages: reading.                                                     *)

Quiet(p) == \A c \in pending : c.by # p

\* useDirectory, load: people, grants and groups; then who is in them and who administers.
FirstRead(p, super) ==
  [kind |-> "load", by |-> p, super |-> super, at |-> wrote, role |-> access.role,
   ok |-> badge[p] = "superadmin" \/ (~super /\ badge[p] = "admin"),
   grants |-> IF Administers(p) THEN {g \in access.grants : g.who # Team} ELSE {}]

SecondRead(c) ==
  /\ c.kind = "load" /\ pending' = pending \ {c}
  /\ panel' = IF ~c.ok \/ panel[c.by].tab # "people" THEN panel
             ELSE [panel EXCEPT ![c.by].at = c.at, ![c.by].dir =
               [role |-> c.role,
                grants |-> c.grants \cup (IF c.super THEN {g \in access.grants : g.who = Team} ELSE {}),
                members |-> IF c.super THEN access.members ELSE {},
                admins |-> IF Administers(c.by) THEN access.admins ELSE {}]]
  /\ UNCHANGED <<access, badge, wrote, plan>>

\* A tab's own copy: the group's members and grants; who has a grant on this very path.
OwnCopy(tab) ==
  IF tab = "groups" THEN [members |-> access.members, grants |-> {g \in access.grants : g.who = Team}]
  ELSE [members |-> {}, grants |-> {g \in access.grants : g.who # Team /\ g.path = "d"}]

Listing(p, tab) == [kind |-> "list", by |-> p, tab |-> tab, copy |-> OwnCopy(tab), at |-> wrote]

ListShown(c) ==
  /\ c.kind = "list" /\ pending' = pending \ {c}
  /\ panel' = IF panel[c.by].tab # c.tab THEN panel
             ELSE [panel EXCEPT ![c.by].list = c.copy, ![c.by].at = c.at]
  /\ UNCHANGED <<access, badge, wrote, plan>>

ReadsOf(p, tab, super) == IF tab = "people" THEN FirstRead(p, super) ELSE Listing(p, tab)

\* The panel is opened, on people or on a path's access; who is no admin has neither.
OpensPanel(p, tab) ==
  /\ Quiet(p) /\ tab \in {"people", "share"} /\ Spend("opens")
  /\ access.role[p] = "superadmin" \/ p \in access.admins
  /\ badge[p] # None
  /\ panel' = [panel EXCEPT ![p] = [NoPanel EXCEPT !.tab = tab, !.super = access.role[p] = "superadmin"]]
  /\ pending' = pending \cup {ReadsOf(p, tab, access.role[p] = "superadmin")}
  /\ UNCHANGED <<access, badge, wrote>>

\* The Groups tab edits its own copy; on the way back the directory is read again.
SwitchTab(p, tab) ==
  /\ Quiet(p) /\ Spend("opens") /\ panel[p].tab # tab
  /\ panel[p].tab \in {"people", "groups"} /\ tab \in {"people", "groups"}
  /\ tab = "groups" => panel[p].super
  /\ panel' = [panel EXCEPT ![p].tab = tab, ![p].list = None, ![p].invited = None]
  /\ pending' = pending \cup {ReadsOf(p, tab, panel[p].super)}
  /\ UNCHANGED <<access, badge, wrote>>

\* Signing in again: the session says what the role is now.
SignsInAgain(p) ==
  /\ Quiet(p) /\ badge[p] # access.role[p] /\ There(p) /\ Spend("logins")
  /\ badge' = [badge EXCEPT ![p] = access.role[p]]
  /\ panel' = [panel EXCEPT ![p] = NoPanel]
  /\ UNCHANGED <<access, pending, wrote>>

-----------------------------------------------------------------------------
(* The pages: what is clicked.                                             *)

Op(do, who, path, perm, id) == [do |-> do, who |-> who, path |-> path, perm |-> perm, id |-> id]
OnPerson(do, who) == Op(do, who, "/", "write", 0)

\* Mutant: who is no super-admin any more is like anybody.
AlwaysCollaborator(d, w) == "collaborator"

\* setSuper: what the person is without it.
RoleAfter(d, w) == IF w \in d.admins THEN "admin" ELSE "collaborator"

Toggled(perm) == IF perm = "write" THEN "read" ELSE "write"

\* PermToggle, and the button that takes a grant away.
GrantOps(grants) ==
  {Op("set", g.who, g.path, Toggled(g.perm), g.id) : g \in grants}
    \cup {Op("take", g.who, g.path, g.perm, g.id) : g \in grants}

GiveOps(who) == {Op("give", w, path, perm, 0) : w \in who, path \in Subpath, perm \in {"read", "write"}}

\* PersonCard, NamespaceCard: what the directory offers.
CardOps(d) ==
  LET people == {v \in Person : d.role[v] # None}
  IN  {OnPerson(IF w \in d.admins THEN "demote" ELSE "promote", w) :
          w \in {v \in people : d.role[v] # "superadmin"}}
        \cup GiveOps(people) \cup GrantOps({g \in d.grants : g.who # Team})

\* To a super-admin.
SuperOps(d) ==
  LET people == {w \in Person : d.role[w] # None}
  IN  {Op("role", w, "/", IF d.role[w] = "superadmin" THEN RoleAfter(d, w) ELSE "superadmin", 0) : w \in people}
        \cup {OnPerson("delete", w) : w \in people}
        \cup {OnPerson("join", w) : w \in people \ d.members}
        \cup {OnPerson("leave", w) : w \in people \cap d.members}
        \cup GiveOps({Team}) \cup GrantOps({g \in d.grants : g.who = Team})
        \cup {OnPerson("namespace", None)}

\* GroupsTab, GroupMembers, GroupGrants.
GroupOps(l) ==
  {OnPerson("join", w) : w \in Person \ l.members} \cup {OnPerson("leave", w) : w \in l.members}
    \cup GiveOps({Team}) \cup GrantOps(l.grants) \cup {OnPerson("team", None)}

\* ShareDialog.
ShareOps(l) ==
  GrantOps(l.grants) \cup {o \in GiveOps({w \in Person : access.role[w] = "collaborator"}) :
                             o.path = "d" /\ \A g \in l.grants : g.who # o.who}

CanClick(p) ==
  CASE panel[p].tab = "people" /\ panel[p].dir # None ->
         CardOps(panel[p].dir) \cup IF panel[p].super THEN SuperOps(panel[p].dir) ELSE {}
    [] panel[p].tab = "groups" /\ panel[p].list # None -> GroupOps(panel[p].list)
    [] panel[p].tab = "share" /\ panel[p].list # None -> ShareOps(panel[p].list)
    [] OTHER -> {}

\* The role to give back is chosen by a page that knows whether they administer the namespace.
Informed(p, op) ==
  op.do = "role" /\ op.perm # "superadmin" => (op.who \in panel[p].dir.admins <=> op.who \in access.admins)

\* A request is handled when it is made; its answer comes later.
Clicks(p) ==
  /\ (Hurried \/ Quiet(p)) /\ Spend("clicks")
  /\ \E op \in CanClick(p) :
       /\ op.do \in plan.does
       /\ Informed(p, op) \/ Hurried
       /\ Serve(p, op)
       /\ pending' = pending \cup {[kind |-> "click", by |-> p, ok |-> Permitted(p, op)]}
  /\ panel' = [panel EXCEPT ![p].invited = None]
  /\ UNCHANGED badge

\* Mutant: what is shown is left as it is.
NothingReread(c) == {}

\* run: the directory is read again, done or not; a tab's own copy when it was done.
Rereads(c) ==
  LET tab == panel[c.by].tab
  IN  IF tab = "people" \/ (tab # None /\ c.ok) THEN {ReadsOf(c.by, tab, panel[c.by].super)} ELSE {}

ClickDone(c) ==
  /\ c.kind = "click"
  /\ pending' = (pending \ {c}) \cup Rereads(c)
  /\ UNCHANGED <<access, badge, panel, wrote, plan>>

-----------------------------------------------------------------------------
(* Adding a person: several requests, each of which may fail.              *)

Choices == [path : Subpath, perm : {"read", "write"}, admin : BOOLEAN, team : BOOLEAN, ns : BOOLEAN]

ASSUME InvitedAssumption == None \notin [failed : BOOLEAN, ch : Choices, at : [Person -> Nat]]

Sensible(ch, super) ==
  /\ ch.team => super
  /\ ~super => ch.ns
  /\ ~ch.ns => ~ch.admin /\ ch.path = "/" /\ ch.perm = "write"

\* Mutant: the namespace is named in every invitation.
NamesItAlways(ch, super) == ch.ns

\* A namespace admin's invitation names a namespace, and the server gives all of it.
NamesIt(ch, super) == ~super

\* HandleInvite.
Invited(ch, super) ==
  LET a == [access EXCEPT !.role[Newcomer] = IF ch.admin THEN "admin" ELSE "collaborator"]
      b == [a EXCEPT !.admins = IF ch.admin THEN @ \cup {Newcomer} ELSE @]
  IN  IF NamesIt(ch, super) THEN Granted(b, Newcomer, "/", "write") ELSE a

\* What is pending for afterwards: all at once, or, to narrow what was given, in order.
FollowUps(ch, super) ==
  IF super THEN (IF ch.ns THEN {"give"} ELSE {}) \cup (IF ch.admin THEN {"promote"} ELSE {})
                  \cup (IF ch.team THEN {"join"} ELSE {})
  ELSE IF ch.path # "/" THEN {"take", "give"} ELSE IF ch.perm = "read" THEN {"set"} ELSE {}

InviteSubmit(p) ==
  /\ Quiet(p) /\ panel[p].tab = "people" /\ panel[p].dir # None
  /\ Spend("invites")
  /\ \E ch \in Choices :
       LET super == panel[p].super
           ok == Administers(p) /\ ~There(Newcomer)
       IN  /\ Sensible(ch, super)
           /\ access' = IF ok THEN Invited(ch, super) ELSE access
           /\ wrote' = IF ok THEN [wrote EXCEPT ![p] = @ + 1] ELSE wrote
           /\ pending' = pending \cup {[kind |-> "invite", by |-> p, ch |-> ch, super |-> super, at |-> wrote,
                                    todo |-> IF ok THEN FollowUps(ch, super) ELSE {}, failed |-> ~ok]}
  /\ panel' = [panel EXCEPT ![p].invited = None]
  /\ UNCHANGED badge

FollowUp(c, do) ==
  LET first == Direct(Newcomer, "/")
      id == IF first = {} THEN 0 ELSE (CHOOSE g \in first : TRUE).id
  IN  Op(do, Newcomer, c.ch.path, c.ch.perm, id)

\* One of them is answered; after the failure of one of a row the next is not pending for.
InviteStep(c) ==
  /\ c.kind = "invite"
  /\ \E do \in c.todo, lost \in BOOLEAN :
       LET op == FollowUp(c, do)
           ok == ~lost /\ Permitted(c.by, op)
           left == [c EXCEPT !.todo = IF ok \/ c.super THEN @ \ {do} ELSE {}, !.failed = @ \/ ~ok]
       IN  /\ ~c.super => do # "give" \/ "take" \notin c.todo
           /\ IF lost THEN plan.fails > 0 /\ plan' = [plan EXCEPT !.fails = @ - 1] /\ UNCHANGED <<access, wrote>>
              ELSE UNCHANGED plan /\ Serve(c.by, op)
           /\ pending' = (pending \ {c}) \cup {left}
  /\ UNCHANGED <<badge, panel>>

\* The form closes, or says what failed and the directory is left as it was.
InviteDone(c) ==
  /\ c.kind = "invite" /\ c.todo = {}
  /\ panel' = [panel EXCEPT ![c.by].invited = [failed |-> c.failed, ch |-> c.ch, at |-> c.at]]
  /\ pending' = (pending \ {c}) \cup IF c.failed THEN {} ELSE {FirstRead(c.by, c.super)}
  /\ UNCHANGED <<access, badge, wrote, plan>>

AdminNext ==
  \/ \E p \in Person : \/ Clicks(p) \/ InviteSubmit(p) \/ SignsInAgain(p)
                       \/ \E tab \in {"people", "groups", "share"} : OpensPanel(p, tab) \/ SwitchTab(p, tab)
  \/ \E c \in pending : SecondRead(c) \/ ListShown(c) \/ ClickDone(c) \/ InviteStep(c) \/ InviteDone(c)

-----------------------------------------------------------------------------
(* Properties                                                              *)

\* There is always a super-admin: nobody demotes or removes the last, themselves included.
SomebodyManages == Supers # {}

OthersQuiet(p, at) == \A w \in Person \ {p} : wrote[w] = at[w]

\* A page shows the truth once its own requests are answered and nobody else has changed
\* anything since it read, unless it said that adding a person failed half-way.
UpToDate(p) ==
  Quiet(p) /\ panel[p].at # None /\ OthersQuiet(p, panel[p].at) /\ (panel[p].invited # None => ~panel[p].invited.failed)

\* What a person can reach is what the server would let them, to a namespace admin's page
\* no more than that: for whoever has signed in since their role changed, and is no
\* super-admin.
ReachShown ==
  \A p \in Person : panel[p].dir # None /\ panel[p].tab = "people" /\ UpToDate(p) =>
    \A w \in Person, path \in Subpath, perm \in {"read", "write"} :
      There(w) /\ w \notin Supers /\ badge[w] = access.role[w] =>
        /\ ShownReach(panel[p].dir, w, path, perm) => Enforced(w, path, perm)
        /\ panel[p].super /\ Enforced(w, path, perm) => ShownReach(panel[p].dir, w, path, perm)

\* The Groups tab and the access of a path list what there is.
CopiesTrue ==
  \A p \in Person : panel[p].list # None /\ UpToDate(p) => panel[p].list = OwnCopy(panel[p].tab)

\* Who was added, without a failure, has what was chosen for them, no more and no less.
InvitedAsChosen ==
  \A p \in Person : panel[p].invited # None /\ ~panel[p].invited.failed =>
    LET ch == panel[p].invited.ch
        all == {[path |-> "/", perm |-> "write"]}
        chosen == IF ch.ns THEN {[path |-> ch.path, perm |-> ch.perm]} ELSE {}
        has == {[path |-> g.path, perm |-> g.perm] : g \in {h \in access.grants : h.who = Newcomer}}
    IN  OthersQuiet(p, panel[p].invited.at) =>
          /\ chosen \subseteq has /\ has \subseteq chosen \cup (IF ch.admin THEN all ELSE {})
          /\ (Newcomer \in access.members) = ch.team
          /\ (Newcomer \in access.admins) = ch.admin

AdminRight == SomebodyManages /\ ReachShown /\ CopiesTrue /\ InvitedAsChosen
=============================================================================
