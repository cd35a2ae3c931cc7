-------------------------------- MODULE Rbac --------------------------------
(***************************************************************************)
(* Who may do what: the matrix the pages and the server actions consult,   *)
(* and the rank function of the database's policies.                       *)
(***************************************************************************)
EXTENDS Naturals

OrganizationRoles == {"owner", "admin", "qa", "developer", "viewer"}
NoRole == "none"        \* not a member

RoleRank == [owner |-> 4, admin |-> 3, qa |-> 2, developer |-> 2, viewer |-> 1]

RankGated ==
    [ manage_organization |-> RoleRank["admin"],
      manage_members      |-> RoleRank["admin"],
      manage_projects     |-> RoleRank["admin"],
      delete_project      |-> RoleRank["owner"],
      manage_environments |-> RoleRank["developer"],
      delete_environment  |-> RoleRank["admin"],
      manage_issues       |-> RoleRank["developer"],
      view_results        |-> RoleRank["viewer"],
      view_audit_log      |-> RoleRank["admin"] ]

TestWorkflowRoles == {"owner", "admin", "qa"}

HasPermission(role, permission) ==
    /\ role # NoRole
    /\ IF permission = "manage_test_workflows"
         THEN role \in TestWorkflowRoles
         ELSE RoleRank[role] >= RankGated[permission]

HasRole(role, minRole) == role # NoRole /\ RoleRank[role] >= RoleRank[minRole]

AssignableRoles(role) ==
    IF ~HasPermission(role, "manage_members") THEN {}
    ELSE IF role = "owner" THEN OrganizationRoles ELSE OrganizationRoles \ {"owner"}

(* The database's own ranks.  Someone who is not a member has none.        *)
OrganizationRoleRank == [owner |-> 4, admin |-> 3, qa |-> 2, developer |-> 2, viewer |-> 1]

HasOrganizationRole(role, minRole) ==
    role # NoRole /\ OrganizationRoleRank[role] >= OrganizationRoleRank[minRole]
=============================================================================
