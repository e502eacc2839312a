----------------------------- MODULE UserAdmin ------------------------------
(***************************************************************************)
(* The user administration of the API (pipeline/auth/keycloak_admin.py and *)
(* its routes): POST /admin/users provisions an account and joins it to    *)
(* the group of an access, PUT /admin/users/{id}/access moves an account   *)
(* to exactly one access.  Each is a row of calls to Keycloak in a thread  *)
(* of its own, without a transaction: one action is one call.  Reads that  *)
(* only confirm what was just made are part of the action before them.     *)
(***************************************************************************)
EXTENDS Keycloak

CONSTANTS
  AdminRequests,   \* requests of super admins, each used once
  Targets          \* the accesses they ask for

VARIABLE admin     \* their progress

(***************************************************************************)
(* Accesses.                                                               *)
(***************************************************************************)
NoState == "none"
Targeted(type, state, role) == [type |-> type, state |-> state, role |-> role]

ASSUME TargetsAssumption ==
  \A t \in Targets : t.type \in {"super_admin", "bh_viewer", "state"}

\* What the form of the console offers.
list_access_options ==
  {Targeted("super_admin", NoState, NoRole), Targeted("bh_viewer", NoState, NoRole)}
    \cup {Targeted("state", s, r) : s \in States, r \in StateRoles}

TargetRole(t) == IF t.type = "state" THEN normalize_role(t.role) ELSE t.type

Acceptable(t) == t.type = "state" => t.state \in States /\ TargetRole(t) \in StateRoles

LeafGroup(t) ==
  IF t.type = "state"
  THEN <<"states", t.state, group_leaf_for_role(TargetRole(t))>>
  ELSE Global(group_leaf_for_role(TargetRole(t)))

\* What ensure_access_group looks for and creates, in this order.
Ensured(t) ==
  <<RealmRole(TargetRole(t))>>
    \o (IF t.type = "state" THEN <<<<"states">>, <<"states", t.state>>>> ELSE <<<<"global">>>>)
    \o <<LeafGroup(t)>>

_is_product_group_path(path) ==
  \/ path \in {Global("super-admin"), Global("bh-viewer")}
  \/ Len(path) = 3 /\ path[1] = "states"

Summary(type, states, roles) == [access_type |-> type, states |-> states, roles |-> roles]

\* (defect) leaves are not normalized
_access_summary_from_groups_leaf(paths) ==
  LET own == {p \in paths : Len(p) = 3 /\ p[1] = "states"}
      Named(leaf) == \E p \in paths : Len(p) > 1 /\ p[Len(p)] = leaf
  IN  IF Named("super-admin") THEN Summary("super_admin", {}, {"super_admin"})
      ELSE IF Named("bh-viewer") THEN Summary("bh_viewer", {}, {"bh_viewer"})
      ELSE Summary(IF own = {} THEN "dashboard" ELSE "state",
                   {p[2] : p \in own}, {p[3] : p \in own})

\* The label of an account in the console, by its groups alone.
_access_summary_from_groups(paths) ==
  LET own == {p \in paths : Len(p) = 3 /\ p[1] = "states"}
      Named(leaf) == \E p \in paths : Len(p) > 1 /\ p[Len(p)] = leaf
  IN  IF Named("super-admin") THEN Summary("super_admin", {}, {"super_admin"})
      ELSE IF Named("bh-viewer") THEN Summary("bh_viewer", {}, {"bh_viewer"})
      ELSE Summary(IF own = {} THEN "dashboard" ELSE "state",
                   {p[2] : p \in own}, {normalize_role(p[3]) : p \in own})

(***************************************************************************)
(* Requests.                                                               *)
(***************************************************************************)
AdminOps == {"provision", "set_access"}
Closed == {"ok", "refused", "error"}

IdleAdmin ==
  [op |-> "set_access", account |-> CHOOSE u \in Users : TRUE, step |-> "idle",
   target |-> Targeted("super_admin", NoState, NoRole), enabled |-> TRUE, at |-> 1,
   group |-> FlatSuperAdmin, seen |-> {}, made |-> FALSE, alone |-> TRUE]

AdminInit == admin = [q \in AdminRequests |-> IdleAdmin]

InProgress(q) == admin[q].step \notin Closed \cup {"idle"}
Others(q, u) == {o \in AdminRequests \ {q} : admin[o].account = u /\ admin[o].step # "idle"}
Beside(q, u) == {o \in Others(q, u) : InProgress(o)}

\* Request q, with these fields, acts on account u from now on.  `alone` is
\* remembered for the properties: no other request has acted on the account
\* since this one began.
Acting(q, u, fields) ==
  [o \in AdminRequests |->
     IF o = q
     THEN [fields EXCEPT !.account = u, !.alone = IF Beside(q, u) = {} THEN @ ELSE FALSE]
     ELSE IF o \in Others(q, u) THEN [admin[o] EXCEPT !.alone = FALSE] ELSE admin[o]]

Goes(q, step) == admin' = [admin EXCEPT ![q].step = step]

\* The request comes in.  A target ensure_access_group refuses is refused
\* before anything is written.
FirstStep(t) == IF Acceptable(t) THEN "find" ELSE "refused"

Provision(q) ==
  /\ admin[q].step = "idle"
  /\ \E u \in Users, t \in Targets, on \in BOOLEAN :
       admin' = Acting(q, u, [IdleAdmin EXCEPT !.op = "provision", !.step = FirstStep(t),
                                               !.target = t, !.enabled = on])
  /\ UNCHANGED keycloakVars

SetAccess(q) ==
  /\ admin[q].step = "idle"
  /\ \E u \in Users, t \in Targets :
       admin' = Acting(q, u, [IdleAdmin EXCEPT !.op = "set_access", !.step = "user",
                                               !.target = t])
  /\ UNCHANGED keycloakVars

GetUser(q) ==
  /\ admin[q].step = "user"
  /\ Goes(q, IF exists[admin[q].account] THEN FirstStep(admin[q].target) ELSE "refused")
  /\ UNCHANGED keycloakVars

-----------------------------------------------------------------------------
(***************************************************************************)
(* ensure_access_group: for each thing a look, and a creation if it was    *)
(* not there; a conflict with somebody who was faster is tolerated, and    *)
(* the second look finds what was made.                                    *)
(***************************************************************************)
Ensuring(q) == Ensured(admin[q].target)[admin[q].at]

\* (defect) one thing too many
Ensures_past(q, thing) ==
  IF admin[q].at =< Len(Ensured(admin[q].target))
  THEN admin' = [admin EXCEPT ![q].at = @ + 1, ![q].step = "find"]
  ELSE admin' = [admin EXCEPT ![q].group = thing, ![q].step = "map"]

\* (defect) a group that is there is taken to have its role
Ensures_unmapped(q, thing) ==
  IF admin[q].at < Len(Ensured(admin[q].target))
  THEN admin' = [admin EXCEPT ![q].at = @ + 1, ![q].step = "find"]
  ELSE admin' = [admin EXCEPT ![q].group = thing,
                              ![q].step = IF thing \notin realm THEN "map"
                                          ELSE IF admin[q].op = "provision" THEN "lookup"
                                          ELSE "join"]

\* On to the next thing, or to the mapping of the role on the last one.
Ensures(q, thing) ==
  IF admin[q].at < Len(Ensured(admin[q].target))
  THEN admin' = [admin EXCEPT ![q].at = @ + 1, ![q].step = "find"]
  ELSE admin' = [admin EXCEPT ![q].group = thing, ![q].step = "map"]

Find(q) ==
  /\ admin[q].step = "find"
  /\ IF Ensuring(q) \in realm THEN Ensures(q, Ensuring(q))
     ELSE IF Ensuring(q) = Global("super-admin") /\ FlatSuperAdmin \in realm
     THEN Ensures(q, FlatSuperAdmin)
     ELSE Goes(q, "create")
  /\ UNCHANGED keycloakVars

\* (defect) a conflict is an error
Create_conflict(q) ==
  /\ admin[q].step = "create"
  /\ realm' = realm \cup {Ensuring(q)}
  /\ IF Ensuring(q) \in realm THEN Goes(q, "error") ELSE Ensures(q, Ensuring(q))
  /\ UNCHANGED <<mapped, exists, enabled, member, direct, password, faults>>

Create(q) ==
  /\ admin[q].step = "create"
  /\ realm' = realm \cup {Ensuring(q)}
  /\ Ensures(q, Ensuring(q))
  /\ UNCHANGED <<mapped, exists, enabled, member, direct, password, faults>>

\* A role that is on the group already is left there.
MapRole(q) ==
  /\ admin[q].step = "map"
  /\ mapped' = mapped \cup {<<admin[q].group, TargetRole(admin[q].target)>>}
  /\ Goes(q, IF admin[q].op = "provision" THEN "lookup" ELSE "join")
  /\ UNCHANGED <<realm, exists, enabled, member, direct, password, faults>>

(***************************************************************************)
(* provision_user.                                                         *)
(***************************************************************************)
Lookup(q) ==
  /\ admin[q].step = "lookup"
  /\ Goes(q, IF exists[admin[q].account] THEN "update" ELSE "post")
  /\ UNCHANGED keycloakVars

Update(q) ==
  /\ admin[q].step = "update"
  /\ enabled' = [enabled EXCEPT ![admin[q].account] = admin[q].enabled]
  /\ Goes(q, "join")
  /\ UNCHANGED <<realm, mapped, exists, member, direct, password, faults>>

\* An address and a user name belong to one account: what is taken is a
\* conflict, which is tolerated.
Taken(u) == {v \in Users : exists[v] /\ (v = u \/ UserName[v] = UserName[u])}

Post(q) ==
  LET u == admin[q].account IN
  /\ admin[q].step = "post"
  /\ IF Taken(u) = {}
     THEN /\ exists' = [exists EXCEPT ![u] = TRUE]
          /\ enabled' = [enabled EXCEPT ![u] = admin[q].enabled]
          /\ admin' = [admin EXCEPT ![q].step = "locate", ![q].made = TRUE]
     ELSE /\ Goes(q, "locate")
          /\ UNCHANGED <<exists, enabled>>
  /\ UNCHANGED <<realm, mapped, member, direct, password, faults>>

\* By its address, then by the user name: that may be another person's account.
Locate(q) ==
  LET u == admin[q].account
      found == IF exists[u] THEN {u} ELSE Taken(u)
  IN
  /\ admin[q].step = "locate"
  /\ IF found = {} THEN Goes(q, "error")
     ELSE \E v \in found : admin' = Acting(q, v, [admin[q] EXCEPT !.step = "join"])
  /\ UNCHANGED keycloakVars

(***************************************************************************)
(* set_user_access, and what both do at the end.                           *)
(***************************************************************************)
Join(q) ==
  /\ admin[q].step = "join"
  /\ member' = [member EXCEPT ![admin[q].account] = @ \cup {admin[q].group}]
  /\ Goes(q, IF admin[q].op = "provision" THEN "report" ELSE "list")
  /\ UNCHANGED <<realm, mapped, exists, enabled, direct, password, faults>>

\* (defect) the group that was joined is left as well
ListGroups_all(q) ==
  LET others == {g \in member[admin[q].account] : _is_product_group_path(Path(g))} IN
  /\ admin[q].step = "list"
  /\ admin' = [admin EXCEPT ![q].step = "leave", ![q].seen = others]
  /\ UNCHANGED keycloakVars

ListGroups(q) ==
  LET others == {g \in member[admin[q].account] :
                   /\ Path(g) # Path(admin[q].group)
                   /\ _is_product_group_path(Path(g))}
  IN
  /\ admin[q].step = "list"
  /\ admin' = [admin EXCEPT ![q].step = "leave", ![q].seen = others]
  /\ UNCHANGED keycloakVars

Leave(q) ==
  /\ admin[q].step = "leave"
  /\ \E g \in admin[q].seen :
       /\ member' = [member EXCEPT ![admin[q].account] = @ \ {g}]
       /\ admin' = [admin EXCEPT ![q].seen = @ \ {g}]
  /\ UNCHANGED <<realm, mapped, exists, enabled, direct, password, faults>>

\* (defect) direct roles are left alone
ListRoles_none(q) ==
  /\ admin[q].step = "leave" /\ admin[q].seen = {}
  /\ admin' = [admin EXCEPT ![q].step = "strip", ![q].seen = {}]
  /\ UNCHANGED keycloakVars

ListRoles(q) ==
  /\ admin[q].step = "leave" /\ admin[q].seen = {}
  /\ admin' = [admin EXCEPT ![q].step = "strip",
                            ![q].seen = {RealmRole(r) : r \in direct[admin[q].account]
                                                               \ DefaultRoles}]
  /\ UNCHANGED keycloakVars

Strip(q) ==
  /\ admin[q].step = "strip"
  /\ \E r \in admin[q].seen :
       /\ direct' = [direct EXCEPT ![admin[q].account] = @ \ {r[2]}]
       /\ admin' = [admin EXCEPT ![q].seen = @ \ {r}]
  /\ UNCHANGED <<realm, mapped, exists, enabled, member, password, faults>>

Report(q) ==
  /\ admin[q].step \in {"strip", "report"} /\ admin[q].seen = {}
  /\ Goes(q, "ok")
  /\ UNCHANGED keycloakVars

\* A call fails and the exception ends the request: what was done stays.
AdminFails(q) ==
  /\ InProgress(q)
  /\ Fault
  /\ Goes(q, "error")
  /\ UNCHANGED <<realm, mapped, exists, enabled, member, direct, password>>

AdminStep(q) ==
  \/ Provision(q) \/ SetAccess(q) \/ GetUser(q)
  \/ Find(q) \/ Create(q) \/ MapRole(q)
  \/ Lookup(q) \/ Update(q) \/ Post(q) \/ Locate(q)
  \/ Join(q) \/ ListGroups(q) \/ Leave(q) \/ ListRoles(q) \/ Strip(q) \/ Report(q)
  \/ AdminFails(q)

-----------------------------------------------------------------------------
(***************************************************************************)
(* Properties.                                                             *)
(***************************************************************************)
AdminTypeOK ==
  /\ realm \subseteq Things
  /\ mapped \subseteq (LeafGroups \X Roles)
  /\ exists \in [Users -> BOOLEAN]
  /\ enabled \in [Users -> BOOLEAN]
  /\ member \in [Users -> SUBSET (LeafGroups \cup {<<"staff">>})]
  /\ direct \in [Users -> SUBSET (Roles \cup DefaultRoles)]
  /\ faults \in 0..MaxFaults
  /\ \A q \in AdminRequests :
       /\ admin[q].op \in AdminOps
       /\ admin[q].account \in Users
       /\ admin[q].group \in LeafGroups
       /\ admin[q].seen \subseteq Things
       /\ {admin[q].enabled, admin[q].made, admin[q].alone} \subseteq BOOLEAN
       /\ admin[q].step \in {"find", "create", "map"} =>
            admin[q].at \in 1..Len(Ensured(admin[q].target))

\* What a group gives never waits for its role: the role of a leaf exists and
\* is on it before anybody is joined to it (ensure_access_group comes first).
GroupsAreComplete ==
  \A u \in Users : \A g \in member[u] \cap LeafGroups :
    /\ g \in realm
    /\ <<g, PathRole(Path(g))>> \in mapped

Products(u) == {g \in member[u] : _is_product_group_path(Path(g))}

\* A change of access joins before it leaves: an account that had an access
\* is never without one, whatever fails half way, unless two requests act on
\* it at once; and it never loses a group that gives no access.
NeverWithoutAccess ==
  [][\A u \in Users :
       /\ \A g \in member[u] \ member'[u] : _is_product_group_path(Path(g))
       /\ Products(u) # {} /\ Products(u)' = {} =>
            \E q \in AdminRequests :
              InProgress(q) /\ admin[q].account = u /\ ~admin[q].alone]_<<keycloakVars, admin>>

\* What a token for this access allows in an instance, as the descriptions
\* of list_access_options and permissions.py say it.
Given(t, instance) ==
  CASE t.type = "super_admin" -> Permissions
    [] t.type = "bh_viewer" -> {"search"}
    [] OTHER -> IF instance = t.state THEN RolePermissions(TargetRole(t)) ELSE {}

Grants(user, t) ==
  /\ \A i \in Instances : Rights(user, i) = Given(t, i)
  /\ t.type = "state" => resolve_create_instance(user) = {t.state}

\* The access that was asked for is the access the next token grants, no
\* more and no less: a moved account keeps nothing of what it had, in groups
\* or in roles, and a new account starts with nothing else.
AccessAsGiven ==
  \A q \in AdminRequests :
    admin[q].step = "ok" /\ admin[q].alone
      /\ (admin[q].op = "set_access" \/ admin[q].made)
      => Grants(Claims(admin[q].account), admin[q].target)

\* Requests do not fail each other: two that create the same role, group or
\* account at the same time both come to their end.
FailsOnlyByFault ==
  faults = 0 => \A q \in AdminRequests : admin[q].step # "error"

\* The console's label of an account names only roles its token has, and all
\* of them if the account is in one access group and nothing else.
LabelTellsToken ==
  \A u \in Users :
    LET label == _access_summary_from_groups({Path(g) : g \in member[u]}) IN
    /\ label.roles \subseteq Claims(u).roles
    /\ (\A g, h \in Products(u) : g = h) /\ direct[u] \subseteq DefaultRoles =>
         label.roles = Claims(u).roles /\ label.states = Claims(u).instances

-----------------------------------------------------------------------------
(***************************************************************************)
(* Why the access is as given: what holds of every request at every call,  *)
(* from which AccessAsGiven and FailsOnlyByFault follow.                   *)
(***************************************************************************)
\* Once the group is found, it is the one of the access that was asked for.
Aimed(q) ==
  admin[q].step \in {"map", "lookup", "update", "post", "locate", "join", "list", "leave",
                     "strip", "report", "ok"}
    => /\ Acceptable(admin[q].target)
       /\ Path(admin[q].group) = LeafGroup(admin[q].target)

\* Each of the two ways has its own calls.
OnItsWay(q) ==
  /\ admin[q].step \in {"lookup", "update", "post", "locate", "report"} =>
       admin[q].op = "provision"
  /\ admin[q].step \in {"user", "list", "leave", "strip"} => admin[q].op = "set_access"
  /\ admin[q].made => /\ admin[q].op = "provision"
                      /\ admin[q].step \in {"locate", "join", "report"} \cup Closed

\* A request joins and leaves groups of an account that exists; what POST
\* could not make is there for Locate to find.
Placed(q) ==
  LET u == admin[q].account IN
  /\ admin[q].step \in {"update", "join", "report", "list", "leave", "strip"} => exists[u]
  /\ admin[q].op = "set_access" /\ admin[q].step \in {"find", "create", "map"} => exists[u]
  /\ admin[q].step = "locate" => Taken(u) # {}
  /\ admin[q].made => exists[u]

OtherGroups(q) ==
  {g \in member[admin[q].account] : /\ Path(g) # Path(admin[q].group)
                                    /\ _is_product_group_path(Path(g))}

\* What a request that nobody disturbs has done to its account so far.
Settled(q) ==
  LET r == admin[q]
      u == admin[q].account
  IN
  r.alone =>
    /\ r.op = "set_access" =>
         /\ r.step \in {"list", "leave", "strip", "ok"} => r.group \in member[u]
         /\ r.step = "leave" => OtherGroups(q) \subseteq r.seen
         /\ r.step \in {"strip", "ok"} => OtherGroups(q) = {}
         /\ r.step = "strip" => {RealmRole(x) : x \in direct[u] \ DefaultRoles} \subseteq r.seen
         /\ r.step = "ok" => direct[u] \subseteq DefaultRoles
    /\ r.made =>
         /\ direct[u] = {}
         /\ r.step \in {"locate", "join"} => member[u] = {}
         /\ r.step \in {"report", "ok"} => member[u] = {r.group}

\* Whoever is disturbed is told so, answered or not.
Undisturbed ==
  \A p, q \in AdminRequests :
    /\ p # q /\ InProgress(p) /\ admin[q].step # "idle"
    /\ admin[p].account = admin[q].account
    => ~admin[q].alone

GivenInv ==
  /\ \A m \in mapped : m[2] = PathRole(Path(m[1]))
  /\ \A u \in Users : ~exists[u] => member[u] = {} /\ direct[u] = {}
  /\ Undisturbed
  /\ FailsOnlyByFault
  /\ \A q \in AdminRequests : Aimed(q) /\ OnItsWay(q) /\ Placed(q) /\ Settled(q)
=============================================================================
