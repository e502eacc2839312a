------------------------------- MODULE Access -------------------------------
(***************************************************************************)
(* What a token lets its holder do: groups.py, jwt.py, permissions.py,     *)
(* models.py and tenancy.py of pipeline/auth as operators.                 *)
(*                                                                         *)
(* A Keycloak group path is the sequence of its segments:                  *)
(* /states/MH/admin is <<"states", MH, "admin">>.                          *)
(***************************************************************************)
EXTENDS Naturals, Sequences, FiniteSets

CONSTANTS
  States,      \* the codes of states and centres, which are also instances
  Portal       \* PORTAL_INSTANCE, the instance of the platform's documents

ASSUME PortalAssumption == Portal \notin States

Instances == States \cup {Portal}
NoRole == "none"
StateRoles == {"state_admin", "state_approver", "state_contributor", "state_view"}
Roles == StateRoles \cup {"super_admin", "bh_viewer"}

ROLE_RANK == [super_admin |-> 100, state_admin |-> 60, state_approver |-> 40,
              state_contributor |-> 20, state_view |-> 10, bh_viewer |-> 5]

\* (defect) the meaning "contributor" had before there were six roles
normalize_role_sixRoles(name) ==
  CASE name \in {"super_admin", "super-admin", "superadmin"} -> "super_admin"
    [] name \in {"bh_viewer", "bh-viewer", "bh_view"} -> "bh_viewer"
    [] name \in {"state_admin", "state-admin", "admin", "contributor"} -> "state_admin"
    [] name \in {"state_approver", "state-approver", "approver"} -> "state_approver"
    [] name \in {"state_contributor", "state-contributor"} -> "state_contributor"
    [] name \in {"state_view", "state-view", "view"} -> "state_view"
    [] OTHER -> NoRole

\* Every spelling of a role, in a group's leaf or in a realm role.
normalize_role(name) ==
  CASE name \in {"super_admin", "super-admin", "superadmin"} -> "super_admin"
    [] name \in {"bh_viewer", "bh-viewer", "bh_view"} -> "bh_viewer"
    [] name \in {"state_admin", "state-admin", "admin"} -> "state_admin"
    [] name \in {"state_approver", "state-approver", "approver"} -> "state_approver"
    [] name \in {"state_contributor", "state-contributor", "contributor"} ->
         "state_contributor"
    [] name \in {"state_view", "state-view", "view"} -> "state_view"
    [] OTHER -> NoRole

group_leaf_for_role(role) ==
  [super_admin |-> "super-admin", bh_viewer |-> "bh-viewer", state_admin |-> "admin",
   state_approver |-> "approver", state_contributor |-> "contributor",
   state_view |-> "view"][role]

-----------------------------------------------------------------------------
\* The role a path names, and the state it names it for.
PathRole(path) ==
  CASE Len(path) = 2 /\ path[1] = "global" -> normalize_role(path[2])
    [] Len(path) = 2 /\ path[1] = "states" -> "state_view"
    [] Len(path) = 3 /\ path[1] = "states" -> normalize_role(path[3])
    [] OTHER -> NoRole

\* Roles across all states are taken from any path, roles of one state from
\* its own groups only.
PathRoles(paths, s) ==
  {PathRole(p) : p \in {p \in paths : p[1] = "states" /\ p[2] = s}} \cap StateRoles

GlobalRoles(paths) ==
  {PathRole(p) : p \in paths} \cap {"super_admin", "bh_viewer"}

prefer_role(roles) ==
  CHOOSE r \in roles : \A o \in roles : ROLE_RANK[o] =< ROLE_RANK[r]

\* state_roles: the states a user has a role in, with the strongest.
parse_group_paths(paths) ==
  [s \in {s \in States : PathRoles(paths, s) # {}} |-> prefer_role(PathRoles(paths, s))]

Permissions == {"search", "upload", "pipeline", "review", "approve_ingestion",
                "delete_own", "admin", "manage_users"}

RolePermissions(role) ==
  CASE role = "super_admin" -> Permissions
    [] role = "state_admin" ->
         {"search", "upload", "pipeline", "review", "approve_ingestion", "delete_own"}
    [] role = "state_approver" ->
         {"search", "upload", "pipeline", "review", "approve_ingestion"}
    [] role = "state_contributor" -> {"search", "upload", "pipeline", "review"}
    [] OTHER -> {"search"}

\* A token without a known role may search.
permissions_for_roles(roles) ==
  {"search"} \cup UNION {RolePermissions(r) : r \in roles}

-----------------------------------------------------------------------------
\* The user a token stands for: its groups come first, its realm roles add
\* roles but no state, and attribute claims count without groups only.
claims_to_user(paths, realm_roles, attributes) ==
  LET state_roles == parse_group_paths(paths)
      roles == GlobalRoles(paths) \cup {state_roles[s] : s \in DOMAIN state_roles}
                 \cup ({normalize_role(r) : r \in realm_roles} \ {NoRole})
  IN  [roles |-> roles,
       permissions |-> permissions_for_roles(roles),
       instances |-> CASE "super_admin" \in GlobalRoles(paths) -> {}
                       [] DOMAIN state_roles # {} -> DOMAIN state_roles
                       [] OTHER -> attributes,
       state_roles |-> state_roles]

is_superadmin(user) == "super_admin" \in user.roles
is_bh_viewer(user) == "bh_viewer" \in user.roles

unrestricted(user) == is_superadmin(user) \/ is_bh_viewer(user)

user_can_access_instance(user, instance) ==
  unrestricted(user) \/ instance \in user.instances

role_for_instance(user, instance) ==
  IF is_superadmin(user) THEN "super_admin"
  ELSE IF instance \in DOMAIN user.state_roles THEN user.state_roles[instance]
  ELSE IF is_bh_viewer(user) THEN "state_view" ELSE NoRole

has_permission_for_instance(user, permission, instance) ==
  \/ is_superadmin(user)
  \/ /\ DOMAIN user.state_roles = {}
     /\ permission \in user.permissions
  \/ /\ DOMAIN user.state_roles # {}
     /\ role_for_instance(user, instance) # NoRole
     /\ permission \in permissions_for_roles({role_for_instance(user, instance)})

\* The instance a new document gets when the upload names none: who has
\* several states has to name one, who has none may not upload (no element).
resolve_create_instance(user) ==
  CASE unrestricted(user) -> {Portal}
    [] Cardinality(user.instances) = 1 -> user.instances
    [] OTHER -> {}

\* What the bearer may do to documents of an instance.
Rights(user, instance) ==
  {p \in Permissions : /\ user_can_access_instance(user, instance)
                       /\ has_permission_for_instance(user, p, instance)}
=============================================================================
