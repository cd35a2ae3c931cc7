-------------------------- MODULE DashboardDialogs --------------------------
(***************************************************************************)
(* One browser tab on one of the dashboard's pages that change things: a   *)
(* project's environments, a project's header, the team, the list of       *)
(* projects, the settings.  Menus and buttons are offered by the role and  *)
(* the row the page was rendered with; dialogs and forms have local state; *)
(* server actions and refreshes run one after the other; the role and the  *)
(* row also change behind the tab's back.                                  *)
(*                                                                         *)
(* The user is the organization's oldest member: the role of any other is  *)
(* not the one the pages and the actions go by (RoleIsOwn in Sessions).    *)
(* On the team's page the row looked at may be the user's own.             *)
(***************************************************************************)
EXTENDS Rbac, Sequences, FiniteSetsExt

CONSTANTS
    Pages,         \* the pages looked at
    Roles,         \* the roles the user may have
    MaxVersion,    \* bound on changes
    MaxQueue,      \* bound on the router's queue, for the user
    MaxMishaps     \* bound on failed calls and reads

ASSUME ConstantsAssumption ==
    /\ Pages \subseteq {"environments", "project", "team", "projects", "settings"}
    /\ {"owner", "developer"} \subseteq Roles /\ Roles \subseteq OrganizationRoles
    /\ MaxVersion \in Nat /\ MaxQueue \in Nat /\ MaxMishaps \in Nat

VARIABLES
    page,       \* the page the tab is on, or "elsewhere"
    role,       \* the user's role
    row,        \* the environment, the project, the member and the invitation, or the
                \* organization with the user's profile; names are left out
    version,    \* how often the role or the row has changed
    shown,      \* what the page was rendered with
    dialog,     \* the open dialog, and the version that offered it
    local,      \* the local state of panels and forms, their error messages left out
    busy,       \* controls that wait for an answer
    queue,      \* the router's actions, the one it is at first
    call,       \* how far the first one is, and what it has read
    owed,       \* history: the last version the user has made
    mishaps

vars == <<page, role, row, version, shown, dialog, local, busy, queue, call, owed, mishaps>>
stored == <<role, row, version>>
tab == <<shown, dialog, local, busy>>

Methods == {"none", "credentials", "stored_state"}
\* Of a member: whether the role is "owner", whether it is the user, and whether
\* there is an owner besides.  Roles below the owner's are not told apart.
Rows == [exists : BOOLEAN, archived : BOOLEAN, isDefault : BOOLEAN, method : Methods,
         owner : BOOLEAN, self : BOOLEAN, others : BOOLEAN, invited : BOOLEAN]
NoRow == [exists |-> FALSE, archived |-> FALSE, isDefault |-> FALSE, method |-> "none",
          owner |-> FALSE, self |-> FALSE, others |-> FALSE, invited |-> FALSE]

IsLastOwner(member) == member.owner /\ ~member.others

\* An organization has an owner, and the user's own row has the user's role.
OwnersFit ==
    /\ row.owner \/ row.others
    /\ IF row.self THEN (row.exists <=> role # NoRole) /\ (row.owner <=> role = "owner")
       ELSE role = "owner" => row.others

\* The lists a page reads: an environment's card may be in either, the team
\* has its members and its invitations, other rows are just there.
Lists ==
    CASE page = "environments" -> {"active", "archived"}
      [] page = "team" -> {"active", "invitations"}
      [] OTHER -> {"active"}
Views == [role : Roles \cup {NoRole}, version : 0..MaxVersion,
          active : Rows, archived : Rows, list : {"active", "archived", "nowhere"}]
Blank == [role |-> NoRole, version |-> 0, active |-> NoRow, archived |-> NoRow, list |-> "nowhere"]

-----------------------------------------------------------------------------
(* What each handler does on the client: the dialog it belongs to, the     *)
(* control that waits for it, when it closes the dialog, what follows.     *)

Handler(in, control, closes, then) ==
    [dialog |-> in, control |-> control, closes |-> closes, then |-> then]

\* environment-card.tsx, edit-environment-dialog.tsx, create-environment-dialog.tsx
HandleSetDefault   == Handler("closed", "card", "never", "refresh")
HandleToggle       == Handler("archive", "card", "always", "refresh")
HandleDelete       == Handler("delete", "card", "always", "refresh")
SubmitEnvironment  == Handler("edit", "form", "ok", "refresh")
HandleAuthMethod   == Handler("edit", "method", "never", "refresh")
HandleStoredState  == Handler("edit", "state", "never", "refresh")
SubmitCreate       == Handler("create", "create", "ok", "refresh")
\* project-header.tsx, edit-project-dialog.tsx, create-project-dialog.tsx
HandleProjectToggle == Handler("archive", "card", "always", "refresh")
HandleProjectDelete == Handler("delete", "card", "always", "push")
SubmitProject       == Handler("edit", "form", "ok", "refresh")
SubmitNewProject    == Handler("create", "create", "ok", "push")
\* team-view.tsx, invite-member-dialog.tsx
HandleRoleChange == Handler("closed", "card", "never", "refresh")
HandleRemove     == Handler("remove", "card", "always", "refresh")
\* Variant: the page is not refreshed.
HandleRevokeQuietly == Handler("revoke", "card", "always", "nothing")
HandleRevoke     == Handler("revoke", "card", "always", "refresh")
HandleResend     == Handler("closed", "card", "never", "nothing")
SubmitInvite     == Handler("invite", "invite", "ok", "refresh")
\* organization-settings-form.tsx, profile-settings-form.tsx, change-password-form.tsx
SubmitOrganization == Handler("closed", "organization", "never", "refresh")
SubmitProfile      == Handler("closed", "profile", "never", "refresh")
SubmitPassword     == Handler("closed", "password", "never", "nothing")

HandlersOf(p) ==
    CASE p = "environments" ->
            [ setDefaultEnvironment |-> HandleSetDefault, toggleEnvironment |-> HandleToggle,
              deleteEnvironment |-> HandleDelete, updateEnvironment |-> SubmitEnvironment,
              setEnvironmentAuthMethod |-> HandleAuthMethod,
              saveEnvironmentStoredState |-> HandleStoredState, createEnvironment |-> SubmitCreate ]
      [] p = "project" ->
            [ toggleProject |-> HandleProjectToggle, deleteProject |-> HandleProjectDelete,
              updateProject |-> SubmitProject ]
      [] p = "projects" -> [createProject |-> SubmitNewProject]
      [] p = "team" ->
            [ changeMemberRole |-> HandleRoleChange, removeMember |-> HandleRemove,
              revokeInvitation |-> HandleRevoke, resendInvitation |-> HandleResend,
              inviteMember |-> SubmitInvite ]
      [] p = "settings" ->
            [ updateOrganizationName |-> SubmitOrganization, updateProfile |-> SubmitProfile,
              updatePassword |-> SubmitPassword ]
      [] OTHER -> <<>>

Handlers == HandlersOf(page)
Confirms == {"archive", "delete", "remove", "revoke"}
CardDialogs == {"archive", "delete", "edit"}
CardControls == {"card", "form", "method", "state"}
Forms == {"organization", "profile", "password"}    \* of the settings

-----------------------------------------------------------------------------
(* What a server action checks before it touches anything.                 *)

RequireManageProjects(r) == HasPermission(r, "manage_projects")
RequireManageEnvironments(r) == HasPermission(r, "manage_environments")
RequireAdmin(r) == HasRole(r, "admin")
RequireManageMembers(r) == HasPermission(r, "manage_members")
RequireManageOrganization(r) == HasPermission(r, "manage_organization")
RequireSignedIn(r) == TRUE      \* somebody who has left the organization is still signed in

Checked(r, command, arg) ==
    CASE command \in {"toggleProject", "updateProject", "createProject"} -> RequireManageProjects(r)
      [] command = "deleteProject" -> HasPermission(r, "delete_project")
      [] command = "deleteEnvironment" -> HasPermission(r, "delete_environment")
      [] command \in {"setEnvironmentAuthMethod", "saveEnvironmentStoredState"} -> RequireAdmin(r)
      [] command \in {"changeMemberRole", "inviteMember"} ->
            RequireManageMembers(r) /\ (arg = "owner" => r = "owner")
      [] command \in {"removeMember", "revokeInvitation", "resendInvitation"} -> RequireManageMembers(r)
      [] command = "updateOrganizationName" -> RequireManageOrganization(r)
      [] command \in {"updateProfile", "updatePassword"} -> RequireSignedIn(r)
      [] OTHER -> RequireManageEnvironments(r)

(* The policies of the tables, for the row a command writes.               *)

ProjectPolicies(command) ==
    HasOrganizationRole(role, IF command = "deleteProject" THEN "owner" ELSE "admin")

EnvironmentPolicies(command) ==
    HasOrganizationRole(role, IF command = "deleteEnvironment" THEN "admin" ELSE "developer")

CredentialPolicies == HasOrganizationRole(role, "admin")

MemberPolicies(toOwner) ==
    /\ HasOrganizationRole(role, "admin")
    /\ row.owner \/ toOwner => HasOrganizationRole(role, "owner")

\* prevent_last_owner_removal: the trigger raises.
PreventLastOwnerRemoval(command, arg) ==
    /\ command = "removeMember" \/ (command = "changeMemberRole" /\ arg # "owner")
    /\ IsLastOwner(row)

InvitationPolicies(asOwner) ==
    HasOrganizationRole(role, "admin") /\ (asOwner => HasOrganizationRole(role, "owner"))

\* Everybody may change what is their own.
SettingsPolicies(command) ==
    command = "updateOrganizationName" => HasOrganizationRole(role, "admin")

Permitted(command, arg) ==
    CASE page \in {"project", "projects"} -> ProjectPolicies(command)
      [] page = "settings" -> SettingsPolicies(command)
      [] command = "saveEnvironmentStoredState" -> CredentialPolicies
      [] page = "environments" /\ command # "saveEnvironmentStoredState" -> EnvironmentPolicies(command)
      [] command \in {"changeMemberRole", "removeMember"} -> MemberPolicies(arg = "owner")
      [] OTHER -> InvitationPolicies(arg = "owner")

(* What a command makes of the row.  A new environment or project is       *)
(* another row.                                                            *)

Inserts == {"createProject", "createEnvironment", "inviteMember"}
Writes(command) == command \notin {"resendInvitation", "updatePassword"}

EnvironmentEffect(command, arg) ==
    CASE command = "setDefaultEnvironment" -> [row EXCEPT !.isDefault = TRUE]
      [] command = "toggleEnvironment" /\ arg = "archive" -> [row EXCEPT !.archived = TRUE, !.isDefault = FALSE]
      [] command = "toggleEnvironment" /\ arg = "restore" -> [row EXCEPT !.archived = FALSE]
      [] command = "deleteEnvironment" -> NoRow
      [] command = "setEnvironmentAuthMethod" -> [row EXCEPT !.method = arg]
      [] command = "saveEnvironmentStoredState" -> [row EXCEPT !.method = "stored_state"]
      [] OTHER -> row

ProjectEffect(command, arg) ==
    CASE command = "toggleProject" -> [row EXCEPT !.archived = (arg = "archive")]
      [] command = "deleteProject" -> NoRow
      [] OTHER -> row

TeamEffect(command, arg) ==
    CASE command = "changeMemberRole" -> [row EXCEPT !.owner = (arg = "owner")]
      [] command = "removeMember" -> [row EXCEPT !.exists = FALSE, !.owner = FALSE]
      [] command = "revokeInvitation" -> [row EXCEPT !.invited = FALSE]
      [] command = "inviteMember" -> [row EXCEPT !.invited = TRUE]
      [] OTHER -> row

Effect(command, arg) ==
    CASE page = "environments" -> EnvironmentEffect(command, arg)
      [] page = "team" -> TeamEffect(command, arg)
      [] OTHER -> ProjectEffect(command, arg)

\* What becomes of the user's role.
RoleAfter(command, arg) ==
    IF ~row.self \/ command \notin {"changeMemberRole", "removeMember"} THEN role
    ELSE IF command = "removeMember" THEN NoRole
    ELSE IF arg = "owner" THEN "owner" ELSE "developer"

(* An update or a delete that no row passes the policies for is no error.  *)
Outcome(command, arg) ==
    LET there == \/ command \in Inserts \cup {"revokeInvitation"}
                 \/ command = "resendInvitation" /\ row.invited
                 \/ command # "resendInvitation" /\ row.exists
    IN
    IF command = "inviteMember" /\ row.invited THEN "failed"         \* one pending per address
    ELSE IF there /\ Permitted(command, arg)
           THEN IF PreventLastOwnerRemoval(command, arg) THEN "denied" ELSE "done"
    ELSE IF ~there /\ command \in {"setDefaultEnvironment", "saveEnvironmentStoredState", "resendInvitation"}
           THEN "failed"
    ELSE IF \/ command \in Inserts \cup {"saveEnvironmentStoredState", "resendInvitation"}
            \/ command = "changeMemberRole" /\ arg = "owner" /\ there /\ ~row.owner
                 /\ HasOrganizationRole(role, "admin")
           THEN "denied"
    ELSE "nothing"

-----------------------------------------------------------------------------
(* The tab.                                                                *)

Entry(command, arg, seen) ==
    [command |-> command, arg |-> arg, seen |-> seen, alive |-> TRUE, mine |-> TRUE]
Refresh == Entry("refresh", "", 0)

Args(command) ==
    CASE command \in {"toggleEnvironment", "toggleProject"} -> {"archive", "restore"}
      [] command = "setEnvironmentAuthMethod" -> Methods \ {"stored_state"}
      [] command \in {"changeMemberRole", "inviteMember"} -> {"owner", "developer"}
      [] OTHER -> {""}

Target == IF shown.list = "archived" THEN shown.archived ELSE shown.active
Idle == [step |-> "start", left |-> {}, view |-> Blank, result |-> ""]
Fresh(method) == [panel |-> method, pasted |-> FALSE, link |-> FALSE, edited |-> {}]
Closed == [open |-> "closed", seen |-> 0]

Dialogs == {"closed", "create", "invite", "remove", "revoke"} \cup CardDialogs
Controls == {"create", "invite"} \cup CardControls \cup Forms

TypeOK ==
    /\ page \in Pages \cup {"elsewhere"}
    /\ role \in Roles \cup {NoRole} /\ row \in Rows
    /\ page = "team" => OwnersFit
    /\ version \in 0..MaxVersion /\ owed \in 0..version
    /\ shown \in Views
    /\ dialog \in [open : Dialogs, seen : 0..MaxVersion]
    /\ local \in [panel : Methods, pasted : BOOLEAN, link : BOOLEAN, edited : SUBSET Forms]
    /\ busy \subseteq Controls
    /\ \A i \in DOMAIN queue : queue[i].command \in DOMAIN Handlers \cup {"refresh"}
    /\ call.step \in {"start", "write", "answer", "lists"}
    /\ call.result \in {"", "done", "nothing", "denied", "failed"}
    /\ mishaps \in 0..MaxMishaps
    /\ dialog.open \in CardDialogs => shown.list # "nowhere"

InitialRows(p) ==
    { r \in Rows :
        /\ r.exists
        /\ p # "environments" => ~r.isDefault /\ r.method = "none"
        /\ p # "team" => ~r.owner /\ ~r.self /\ ~r.others /\ ~r.invited
        /\ p \in {"team", "projects"} => ~r.archived
        /\ r.isDefault => ~r.archived }

Init ==
    /\ page \in Pages
    /\ role \in Roles
    /\ row \in InitialRows(page)
    /\ page = "team" => OwnersFit
    /\ version = 0
    /\ shown = LET list == IF page = "environments" /\ row.archived THEN "archived" ELSE "active"
               IN [Blank EXCEPT !.role = role, ![list] = row, !.list = list]
    /\ dialog = Closed
    /\ local = Fresh(row.method)
    /\ busy = {} /\ queue = <<>> /\ call = Idle
    /\ owed = 0 /\ mishaps = 0

\* Variant: the menu and the buttons stay enabled while a call is pending.
AlwaysFree == TRUE
CardIsFree == "card" \notin busy

\* The dialogs the menus and the buttons open.
EnvironmentMenu == shown.list # "nowhere" /\ HasPermission(shown.role, "manage_environments") /\ CardIsFree

EnvironmentDialogs ==
    { d \in {"create", "edit", "archive", "delete"} :
        IF d = "create" THEN HasPermission(shown.role, "manage_environments")
        ELSE EnvironmentMenu /\ (d = "delete" => HasPermission(shown.role, "delete_environment")) }

ProjectDialogs ==
    { d \in {"edit", "archive", "delete"} :
        /\ shown.list # "nowhere" /\ CardIsFree
        /\ HasPermission(shown.role, "manage_projects")
        /\ d = "delete" => HasPermission(shown.role, "delete_project") }

\* "New Project" is offered to every role.
ProjectsDialogs == {"create"}

CanManage == HasPermission(shown.role, "manage_members")
CanEditRole == CanManage /\ shown.active.exists /\ (shown.active.owner => shown.role = "owner")

\* Variant: the owners are not counted.
CanRemoveAny == CanEditRole

\* The last owner cannot be removed; the select of the role is offered all the same.
CanRemove == CanEditRole /\ ~IsLastOwner(shown.active)

\* An invitation's buttons.
InvitationOffered == CanManage /\ shown.active.invited

TeamDialogs ==
    { d \in {"invite", "remove", "revoke"} :
        /\ CanManage
        /\ d = "remove" => CanRemove /\ CardIsFree
        /\ d = "revoke" => InvitationOffered /\ CardIsFree }

Offered ==
    CASE page = "environments" -> EnvironmentDialogs
      [] page = "project" -> ProjectDialogs
      [] page = "team" -> TeamDialogs
      [] page = "projects" -> ProjectsDialogs
      [] OTHER -> {}

\* What the card, its dialogs and the panel let the user submit.
SubmitsOfCard(command, arg) ==
    CASE command = "setDefaultEnvironment" -> EnvironmentMenu /\ ~Target.isDefault /\ ~Target.archived
      [] command \in {"toggleEnvironment", "toggleProject"} ->
            arg = IF Target.archived THEN "restore" ELSE "archive"
      [] OTHER -> TRUE

PanelShown == dialog.open = "edit" /\ HasRole(shown.role, "admin")

SubmitsOfPanel(command, arg) ==
    /\ PanelShown
    /\ command = "setEnvironmentAuthMethod" => arg # local.panel
    /\ command = "saveEnvironmentStoredState" => local.panel = "stored_state" /\ local.pasted

\* The select of a member's role.
SelectsRole(arg) ==
    CanEditRole /\ arg \in AssignableRoles(shown.role) /\ (arg = "owner") # shown.active.owner

SubmitsOfTeam(command, arg) ==
    CASE command = "changeMemberRole" -> SelectsRole(arg)
      [] command = "resendInvitation" -> InvitationOffered
      [] command = "inviteMember" -> arg \in AssignableRoles(shown.role) /\ ~local.link
      [] OTHER -> TRUE

\* Whoever may not rename the organization gets no form for it.
FormsShown ==
    IF shown.list = "nowhere" THEN {}
    ELSE {f \in Forms : f = "organization" => HasPermission(shown.role, "manage_organization")}

\* A form can be submitted while it differs from what it was mounted with.
SubmitsOfSettings(command, arg) ==
    Handlers[command].control \in FormsShown \cap local.edited

PanelCommands == {"setEnvironmentAuthMethod", "saveEnvironmentStoredState"}

MaySubmit(command, arg) ==
    /\ dialog.open = Handlers[command].dialog
    /\ Handlers[command].control \notin busy
    /\ CASE page = "team" -> SubmitsOfTeam(command, arg)
         [] page = "settings" -> SubmitsOfSettings(command, arg)
         [] command \in PanelCommands -> SubmitsOfPanel(command, arg)
         [] OTHER -> SubmitsOfCard(command, arg)

\* What the panel's and the invitation's controls are given with: the page as
\* it is now; a dialog's others, the page that offered the dialog.
OfferedBy(command) ==
    IF Handlers[command].dialog = "closed" \/ command \in PanelCommands
      THEN shown.version ELSE dialog.seen

-----------------------------------------------------------------------------
(* The user.                                                               *)

OpenDialog(d) ==
    /\ dialog.open = "closed"
    /\ d \in Offered
    /\ dialog' = [open |-> d, seen |-> shown.version]
    /\ UNCHANGED <<page, stored, shown, local, busy, queue, call, owed, mishaps>>

\* No call of the open dialog is "mine" any more when it closes.
Disowned == [i \in DOMAIN queue |-> [queue[i] EXCEPT !.mine = FALSE]]

\* handleOpenChange(false): a form is reset, whether or not it is waiting.
CloseDialog ==
    /\ dialog.open # "closed"
    /\ dialog' = Closed
    /\ queue' = Disowned
    /\ LET d == dialog.open IN
       /\ busy' = busy \ (CASE d = "edit" -> {"form"} [] d \in {"create", "invite"} -> {d} [] OTHER -> {})
       /\ local' = CASE d = "edit" -> [Fresh(Target.method) EXCEPT !.link = local.link]
                     [] d = "invite" -> [local EXCEPT !.link = FALSE]
                     [] OTHER -> local
    /\ UNCHANGED <<page, stored, shown, call, owed, mishaps>>

UnderWay == Cardinality({i \in DOMAIN queue : queue[i].command # "refresh"})

Submit(command, arg) ==
    LET control == Handlers[command].control IN
    /\ Len(queue) < MaxQueue
    /\ version + UnderWay < MaxVersion
    /\ MaySubmit(command, arg)
    /\ queue' = Append(queue, Entry(command, arg, OfferedBy(command)))
    /\ busy' = busy \cup {control}
    /\ local' = [local EXCEPT !.link = @ /\ control # "invite",
                              !.panel = IF control = "method" THEN arg ELSE @]
    /\ UNCHANGED <<page, stored, shown, dialog, call, owed, mishaps>>

\* "stored_state" is saved with a pasted state only.
SelectStoredState ==
    /\ page = "environments" /\ PanelShown
    /\ "method" \notin busy /\ local.panel # "stored_state"
    /\ local' = [local EXCEPT !.panel = "stored_state"]
    /\ UNCHANGED <<page, stored, shown, dialog, busy, queue, call, owed, mishaps>>

PasteState ==
    /\ page = "environments" /\ PanelShown
    /\ local.panel = "stored_state" /\ ~local.pasted
    /\ local' = [local EXCEPT !.pasted = TRUE]
    /\ UNCHANGED <<page, stored, shown, dialog, busy, queue, call, owed, mishaps>>

\* A name is typed, or typed back to what the form was mounted with, which a
\* save does not change: the form stays as edited as it was.
EditForm(form) ==
    /\ page = "settings" /\ form \in FormsShown
    /\ local' = [local EXCEPT !.edited = SymDiff(@, {form})]
    /\ UNCHANGED <<page, stored, shown, dialog, busy, queue, call, owed, mishaps>>

Leave ==
    /\ page' = "elsewhere"
    /\ shown' = Blank /\ dialog' = Closed /\ local' = Fresh("none") /\ busy' = {}
    /\ queue' = <<>> /\ call' = Idle

NavigateAway ==
    /\ page # "elsewhere" /\ dialog.open = "closed"
    /\ Leave
    /\ UNCHANGED <<stored, owed, mishaps>>

-----------------------------------------------------------------------------
(* Somebody else, with rights of their own.                                *)

OthersWrite(command, arg) ==
    /\ version + UnderWay < MaxVersion
    /\ row.exists \/ command \in Inserts
    /\ ~PreventLastOwnerRemoval(command, arg)
    /\ row' = Effect(command, arg) /\ row' # row
    /\ role' = RoleAfter(command, arg)
    /\ version' = version + 1
    /\ UNCHANGED <<page, tab, queue, call, owed, mishaps>>

\* The user's role changes, on the team's page with the rows that show it.  Who
\* has left comes back as another member.
OthersChangeRole(r) ==
    /\ version + UnderWay < MaxVersion
    /\ r # role
    /\ role' = r
    /\ IF page # "team" THEN row' = row
       ELSE IF row.self
         THEN /\ row.exists /\ (r # "owner" => ~IsLastOwner(row))
              /\ row' = [row EXCEPT !.exists = (r # NoRole), !.owner = (r = "owner")]
         ELSE \E others \in BOOLEAN :
              /\ others # row.others => "owner" \in {role, r}
              /\ r = "owner" \/ ~row.owner => others
              /\ row' = [row EXCEPT !.others = others]
    /\ version' = version + 1
    /\ UNCHANGED <<page, tab, queue, call, owed, mishaps>>

\* The owners besides the member come and go.
OthersChangeOwners ==
    /\ page = "team"
    /\ version + UnderWay < MaxVersion
    /\ row.others => row.owner /\ (row.self \/ role # "owner")
    /\ row' = [row EXCEPT !.others = ~@]
    /\ version' = version + 1
    /\ UNCHANGED <<page, role, tab, queue, call, owed, mishaps>>

-----------------------------------------------------------------------------
(* The router: a server action checks the role, writes, and answers.       *)

Acting == queue # <<>> /\ Head(queue).command # "refresh"
Refreshing == queue # <<>> /\ Head(queue).command = "refresh"

CheckRole ==
    /\ Acting /\ call.step = "start"
    /\ call' = IF Checked(role, Head(queue).command, Head(queue).arg)
                 THEN [call EXCEPT !.step = "write"]
                 ELSE [call EXCEPT !.step = "answer", !.result = "denied"]
    /\ UNCHANGED <<page, stored, tab, queue, owed, mishaps>>

Write ==
    LET entry == Head(queue)
        outcome == Outcome(entry.command, entry.arg)
        writes == outcome = "done" /\ Writes(entry.command)
    IN
    /\ Acting /\ call.step = "write"
    /\ call' = [call EXCEPT !.step = "answer", !.result = outcome]
    /\ row' = IF writes THEN Effect(entry.command, entry.arg) ELSE row
    /\ role' = IF writes THEN RoleAfter(entry.command, entry.arg) ELSE role
    /\ version' = IF writes THEN version + 1 ELSE version
    /\ owed' = IF writes THEN version + 1 ELSE owed
    /\ UNCHANGED <<page, tab, queue, mishaps>>

WriteFails ==
    /\ Acting /\ call.step = "write"
    /\ mishaps < MaxMishaps
    /\ call' = [call EXCEPT !.step = "answer", !.result = "failed"]
    /\ mishaps' = mishaps + 1
    /\ UNCHANGED <<page, stored, tab, queue, owed>>

\* An invitation of somebody who has an account is answered with a link, and
\* the dialog stays open to show it.
Answer(withLink) ==
    LET entry == Head(queue)
        handler == Handlers[entry.command]
        okay == call.result \in {"done", "nothing"}
        closes == /\ entry.alive /\ dialog.open = handler.dialog
                  /\ handler.closes = "always" \/ (handler.closes = "ok" /\ okay /\ ~withLink)
        rest == IF okay /\ handler.then = "refresh" THEN Append(Tail(queue), Refresh) ELSE Tail(queue)
    IN
    /\ Acting /\ call.step = "answer"
    /\ withLink => okay /\ entry.command = "inviteMember"
    /\ IF okay /\ handler.then = "push" THEN Leave
       ELSE /\ dialog' = IF closes THEN Closed ELSE dialog
            /\ queue' = [i \in DOMAIN rest |-> [rest[i] EXCEPT !.mine = @ /\ ~closes]]
            /\ busy' = IF entry.alive THEN busy \ {handler.control} ELSE busy
            /\ local' = IF ~entry.alive THEN local
                         ELSE [local EXCEPT
                                 !.pasted = @ /\ ~(okay /\ handler.control = "state"),
                                 !.link = @ \/ withLink,
                                 !.edited = @ \ (IF okay THEN {handler.control} \cap {"password"} ELSE {})]
            /\ call' = Idle
            /\ UNCHANGED <<page, shown>>
    /\ UNCHANGED <<stored, owed, mishaps>>

-----------------------------------------------------------------------------
(* The router: a refresh reads the role, then the row; an environment is   *)
(* looked for in two lists at once.                                        *)

ReadRole ==
    /\ Refreshing /\ call.step = "start"
    /\ call' = [call EXCEPT !.step = "lists", !.left = Lists,
                            !.view = [Blank EXCEPT !.role = role, !.version = version]]
    /\ UNCHANGED <<page, stored, tab, queue, owed, mishaps>>

GetEnvironments(view, list) ==
    [view EXCEPT ![list] = IF row.archived = (list = "archived") THEN row ELSE NoRow]

GetOrganizationMembers(view) ==
    [view EXCEPT !.active = [row EXCEPT !.invited = view.active.invited]]

GetPendingInvitations(view) == [view EXCEPT !.active.invited = row.invited]

GetRow(view) == [view EXCEPT !.active = row]

With(view, list) ==
    CASE page = "environments" -> GetEnvironments(view, list)
      [] page = "team" /\ list = "active" -> GetOrganizationMembers(view)
      [] page = "team" /\ list = "invitations" -> GetPendingInvitations(view)
      [] OTHER -> GetRow(view)

ReadList(list) ==
    /\ Refreshing /\ call.step = "lists" /\ list \in call.left
    /\ call' = [call EXCEPT !.left = @ \ {list}, !.view = With(@, list)]
    /\ UNCHANGED <<page, stored, tab, queue, owed, mishaps>>

\* Each read answers an error with nothing.
ReadFails(list) ==
    /\ Refreshing /\ call.step = "lists" /\ list \in call.left
    /\ mishaps < MaxMishaps
    /\ call' = [call EXCEPT !.left = @ \ {list}]
    /\ mishaps' = mishaps + 1
    /\ UNCHANGED <<page, stored, tab, queue, owed>>

\* Variant: an open dialog outlives its card.
KeepsDialog(gone) == FALSE

Closes(gone) ==
    CASE dialog.open \in CardDialogs -> "card" \in gone
      [] dialog.open \in {"create", "invite"} -> dialog.open \in gone
      [] OTHER -> FALSE

\* The lists whose card the user may go on with: the one they had, if it is
\* still there.  The team's and the projects' page always are.
Continues(view) ==
    LET there == IF page \in {"team", "projects"} THEN Lists ELSE {list \in Lists : view[list].exists}
    IN IF shown.list \in there THEN {shown.list} ELSE IF there # {} THEN there ELSE {"nowhere"}

Arrive ==
    /\ Refreshing /\ call.step = "lists" /\ call.left = {}
    /\ \/ call.view.role = NoRole /\ Leave
       \/ \E list \in Continues(call.view) :
            LET moved == list # shown.list
                gone == (IF moved THEN CardControls \cup Forms ELSE {})
                    \cup (IF page = "environments" /\ ~HasPermission(call.view.role, "manage_environments")
                            THEN {"create"} ELSE {})
                    \cup (IF page = "team" /\ ~HasPermission(call.view.role, "manage_members")
                            THEN {"invite"} ELSE {})
                rest == Tail(queue)
            IN
            /\ call.view.role # NoRole
            /\ shown' = [call.view EXCEPT !.list = list]
            /\ dialog' = IF Closes(gone) THEN Closed ELSE dialog
            /\ busy' = busy \ gone
            /\ local' = IF moved THEN Fresh(call.view[IF list = "archived" THEN list ELSE "active"].method)
                        ELSE [local EXCEPT !.link = @ /\ "invite" \notin gone]
            /\ queue' = [i \in DOMAIN rest |->
                            [rest[i] EXCEPT
                               !.alive = @ /\ ~(rest[i].command # "refresh"
                                                 /\ Handlers[rest[i].command].control \in gone),
                               !.mine = @ /\ ~Closes(gone)]]
            /\ call' = Idle
            /\ UNCHANGED page
    /\ UNCHANGED <<stored, owed, mishaps>>

-----------------------------------------------------------------------------

TheRouter ==
    \/ CheckRole \/ Write \/ \E withLink \in BOOLEAN : Answer(withLink)
    \/ ReadRole \/ Arrive
    \/ \E list \in Lists : ReadList(list)

TheUser ==
    \/ \E d \in Dialogs : OpenDialog(d)
    \/ \E command \in DOMAIN Handlers : \E arg \in Args(command) : Submit(command, arg)
    \/ \E form \in Forms : EditForm(form)
    \/ CloseDialog \/ SelectStoredState \/ PasteState \/ NavigateAway

Others ==
    \/ \E command \in DOMAIN Handlers : \E arg \in Args(command) : OthersWrite(command, arg)
    \/ \E r \in Roles \cup {NoRole} : OthersChangeRole(r)
    \/ OthersChangeOwners

Mishap == WriteFails \/ \E list \in Lists : ReadFails(list)

Next == TheRouter \/ TheUser \/ Others \/ Mishap

Spec == Init /\ [][Next]_vars

-----------------------------------------------------------------------------
\* What is offered whether or not it will be refused: "New Project" to every role
\* (create-project-dialog.tsx:78-84), and the role's select on the row of the only
\* owner (team-view.tsx:64-68), whose demotion the trigger refuses - although
\* docs/authentication.md:167-170 has both controls disable themselves there.
OfferedRegardless(command) ==
    command = "createProject" \/ (command = "changeMemberRole" /\ IsLastOwner(row))

(* What the page offers by its permission matrix, the server's checks, the *)
(* database's policies and its last-owner trigger allow: a call is refused,*)
(* or done to no row, only after the role or the row has changed behind    *)
(* the page that offered it (rbac.ts:3-13, "would produce a confusing      *)
(* UI") - but for the two controls that are OfferedRegardless.             *)
OfferedIsAllowed ==
    call.result \in {"denied", "nothing"} /\ ~OfferedRegardless(Head(queue).command) =>
        Head(queue).seen < version

(* The answer to a confirmed call closes the dialog it was confirmed in,   *)
(* never one that was opened since (confirm-dialog.tsx:24-28).             *)
AnswerClosesItsDialog ==
    [][ Acting /\ call.step = "answer" /\ dialog.open \in Confirms /\ dialog'.open = "closed"
          /\ page' = page /\ call'.step = "start" => Head(queue).mine ]_vars

(* What the user has changed and the page does not show is on its way to   *)
(* it: the call has yet to answer, or a refresh has yet to read, though    *)
(* dialogs are closed and reopened, cards move between lists, components   *)
(* are unmounted and calls queue up.                                       *)
OwnChangesArrive ==
    page # "elsewhere" /\ shown.version < owed =>
        \/ Acting /\ call.step = "answer" /\ call.result = "done"
        \/ \E i \in DOMAIN queue :
            /\ queue[i].command = "refresh"
            /\ i = 1 /\ call.step = "lists" => call.view.version >= owed
=============================================================================
