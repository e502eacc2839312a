------------------------------ MODULE Keycloak ------------------------------
(***************************************************************************)
(* The Keycloak realm, as far as pipeline/auth uses it over its admin API  *)
(* and its token endpoint.  It is not part of the repository: its state is *)
(* what the calls of keycloak_admin.py and email_otp.py read and write.    *)
(***************************************************************************)
EXTENDS Access

CONSTANTS
  Users,       \* people, by their e-mail address; at most one account each
  UserName,    \* the user name of each, made of the local part of the address
  MaxFaults    \* bound: calls that fail

ASSUME UsersAssumption == Users # {}
ASSUME FaultsAssumption == MaxFaults \in Nat

VARIABLES
  realm,       \* the realm roles and the groups that exist
  mapped,      \* the realm roles mapped on groups, <<group, role>>
  exists,      \* whether a person has an account
  enabled,     \* whether it is enabled
  member,      \* the groups an account is in
  direct,      \* the realm roles assigned to it directly
  password,    \* its password
  faults       \* calls that failed so far

realmVars == <<realm, mapped>>
accountVars == <<exists, enabled, member, direct>>
keycloakVars == <<realm, mapped, exists, enabled, member, direct, password, faults>>

\* Everything that is created in a realm: a role, and a group by its path.
RealmRole(r) == <<"role", r>>
Global(leaf) == <<"global", leaf>>

\* The super-admin group of installations that have no group /global: its
\* name has the slash in it, and its path reads the same.
FlatSuperAdmin == <<"global/super-admin">>
Path(g) == IF g = FlatSuperAdmin THEN Global("super-admin") ELSE g

LeafGroups ==
  {Global("super-admin"), Global("bh-viewer"), FlatSuperAdmin}
    \cup {<<"states", s, group_leaf_for_role(r)>> : s \in States, r \in StateRoles}

Things ==
  {RealmRole(r) : r \in Roles} \cup LeafGroups
    \cup {<<"global">>, <<"states">>, <<"staff">>} \cup {<<"states", s>> : s \in States}

\* Realm roles Keycloak gives to everybody.
DefaultRoles == {"offline_access"}

NoPassword == <<"none", 0>>

\* The user a token of this account stands for: the groups mapper sends the
\* paths, the realm roles are the direct ones and those of the groups.
Claims(u) ==
  claims_to_user({Path(g) : g \in member[u]},
                 direct[u] \cup {m[2] : m \in {m \in mapped : m[1] \in member[u]}}, {})

\* A call that fails: an error answer, a timeout, an API process that stops.
Fault == faults < MaxFaults /\ faults' = faults + 1
=============================================================================
