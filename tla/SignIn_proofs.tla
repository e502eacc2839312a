---------------------------- MODULE SignIn_proofs ----------------------------
(***************************************************************************)
(* SignIn for any number of users, administrators, sign-ins, states and    *)
(* faults.  Types; no account is in a group without its role, and none     *)
(* loses its access half way; an undisturbed request gives what was asked  *)
(* for, and the sessions after it carry that; a code signs in once, the    *)
(* latest code counts, and no used password stays.                         *)
(***************************************************************************)
EXTENDS SignIn, FiniteSetTheorems, TLAPS

AdminSteps ==
  {"idle", "user", "find", "create", "map", "lookup", "update", "post", "locate",
   "join", "list", "leave", "strip", "report"} \cup Closed

AccessTargets == Targets \cup {Targeted("super_admin", NoState, NoRole)}

AdminRecord ==
  [op : AdminOps, account : Users, step : AdminSteps, target : AccessTargets,
   enabled : BOOLEAN, at : Nat, group : LeafGroups, seen : SUBSET Things,
   made : BOOLEAN, alone : BOOLEAN]

SignSteps ==
  {"idle", "lookup", "store", "mail", "drop", "count", "spend", "find", "rotate",
   "grant", "again"} \cup SignedOff

Secrets == {NoPassword} \cup (SignIns \X {1, 2})

Tokens ==
  [roles : SUBSET Roles, permissions : SUBSET Permissions, instances : SUBSET States,
   state_roles : UNION {[S -> StateRoles] : S \in SUBSET States}]

Row ==
  [code : SignIns \cup {NoCode}, expires : 0..MaxTime + OTP_TTL_SECONDS,
   attempts : Nat, sent : Nat, present : BOOLEAN]

SignRecord ==
  [op : {"send", "verify", "sso", "refresh"}, user : Users, step : SignSteps,
   at : 0..MaxTime, code : SignIns \cup {NoCode, Mistyped}, row : Row,
   secret : Secrets, token : Tokens, granted : BOOLEAN, alone : BOOLEAN]

RealmTyped ==
  /\ realm \subseteq Things
  /\ mapped \subseteq (LeafGroups \X Roles)
  /\ exists \in [Users -> BOOLEAN]
  /\ enabled \in [Users -> BOOLEAN]
  /\ member \in [Users -> SUBSET (LeafGroups \cup {<<"staff">>})]
  /\ direct \in [Users -> SUBSET (Roles \cup DefaultRoles)]
  /\ password \in [Users -> Secrets]
  /\ faults \in 0..MaxFaults

\* A request that is ensuring an access has an acceptable one before it, and
\* is at one of its parts.
Shaped(r) ==
  /\ r.step = "user" => r.at = 1
  /\ r.step \in {"find", "create", "map"} =>
       Acceptable(r.target) /\ r.at \in 1..Len(Ensured(r.target))

EnsuringShape == \A q \in AdminRequests : Shaped(admin[q])

AdminTyped == admin \in [AdminRequests -> AdminRecord] /\ EnsuringShape

OtpTyped ==
  /\ now \in 0..MaxTime
  /\ email_otps \in [Users -> Row]
  /\ inbox \in [Users -> SUBSET SignIns]
  /\ sign \in [SignIns -> SignRecord]
  /\ \A q \in SignIns : sign[q].at <= now

TypeInv == RealmTyped /\ AdminTyped /\ OtpTyped

-----------------------------------------------------------------------------
(* Tokens                                                                  *)

LEMMA NormalizedRole ==
  ASSUME NEW name
  PROVE  normalize_role(name) \in Roles \cup {NoRole}
BY DEF normalize_role, Roles, StateRoles, NoRole

LEMMA PreferredRole ==
  ASSUME NEW S \in SUBSET StateRoles, S # {}
  PROVE  prefer_role(S) \in S
<1>1. \E r \in S : \A o \in S : ROLE_RANK[o] =< ROLE_RANK[r]
  <2>1. CASE "state_admin" \in S
    BY <2>1 DEF ROLE_RANK, StateRoles
  <2>2. CASE "state_admin" \notin S /\ "state_approver" \in S
    BY <2>2 DEF ROLE_RANK, StateRoles
  <2>3. CASE "state_admin" \notin S /\ "state_approver" \notin S /\ "state_contributor" \in S
    BY <2>3 DEF ROLE_RANK, StateRoles
  <2>4. CASE S \subseteq {"state_view"}
    <3>1. \A r \in S : r = "state_view" /\ ROLE_RANK[r] = 10
      BY <2>4 DEF ROLE_RANK
    <3> QED
      BY <3>1
  <2> QED
    BY <2>1, <2>2, <2>3, <2>4 DEF StateRoles
<1> QED
  BY <1>1 DEF prefer_role

LEMMA GroupRolesTyped ==
  ASSUME NEW paths
  PROVE  /\ DOMAIN parse_group_paths(paths) \subseteq States
         /\ parse_group_paths(paths) \in [DOMAIN parse_group_paths(paths) -> StateRoles]
<1>1. \A s \in DOMAIN parse_group_paths(paths) :
        s \in States /\ PathRoles(paths, s) # {} /\ PathRoles(paths, s) \in SUBSET StateRoles
  BY DEF parse_group_paths, PathRoles
<1>2. \A s \in DOMAIN parse_group_paths(paths) :
        parse_group_paths(paths)[s] \in StateRoles
  BY <1>1, PreferredRole DEF parse_group_paths
<1> QED
  BY <1>1, <1>2 DEF parse_group_paths

LEMMA PermissionsTyped ==
  ASSUME NEW roles
  PROVE  permissions_for_roles(roles) \subseteq Permissions
BY DEF permissions_for_roles, RolePermissions, Permissions

LEMMA TokenTyped ==
  ASSUME NEW paths, NEW realm_roles
  PROVE  claims_to_user(paths, realm_roles, {}) \in Tokens
<1> DEFINE own == parse_group_paths(paths)
           token == claims_to_user(paths, realm_roles, {})
<1>1. own \in UNION {[S -> StateRoles] : S \in SUBSET States}
  BY GroupRolesTyped
<1>2. DOMAIN own \subseteq States /\ \A s \in DOMAIN own : own[s] \in StateRoles
  BY GroupRolesTyped
<1>3. token.roles \subseteq Roles
  BY <1>2, NormalizedRole DEF claims_to_user, GlobalRoles, Roles
<1>4. token.instances \subseteq States
  BY <1>2 DEF claims_to_user
<1>5. token.permissions \subseteq Permissions
  BY PermissionsTyped DEF claims_to_user
<1>6. token = [roles |-> token.roles, permissions |-> token.permissions,
               instances |-> token.instances, state_roles |-> own]
  BY DEF claims_to_user
<1> QED
  BY <1>1, <1>3, <1>4, <1>5, <1>6 DEF Tokens

LEMMA ClaimsTyped ==
  ASSUME NEW u
  PROVE  Claims(u) \in Tokens
BY TokenTyped DEF Claims

LEMMA NoTokenTyped == NoToken \in Tokens
BY TokenTyped DEF NoToken
-----------------------------------------------------------------------------
(* Accesses and their groups                                               *)

LEMMA TargetRoleTyped ==
  ASSUME NEW t \in AccessTargets, Acceptable(t)
  PROVE  /\ TargetRole(t) \in Roles
         /\ t.type = "state" => t.state \in States /\ TargetRole(t) \in StateRoles
BY TargetsAssumption DEF AccessTargets, Targeted, Acceptable, TargetRole, Roles

\* The last part of an access is its leaf group; it and the old form of the
\* super-admin group name its role.
LEMMA LeafGroupTyped ==
  ASSUME NEW t \in AccessTargets, Acceptable(t)
  PROVE  /\ LeafGroup(t) \in LeafGroups
         /\ LeafGroup(t) \in Things
         /\ PathRole(Path(LeafGroup(t))) = TargetRole(t)
<1>0. ASSUME NEW g, Len(g) # 1
      PROVE  Path(g) = g
  BY <1>0 DEF Path, FlatSuperAdmin
<1>1. CASE t.type = "state"
  <2>1. t.state \in States /\ TargetRole(t) \in StateRoles
    BY <1>1, TargetRoleTyped
  <2>2. LeafGroup(t) = <<"states", t.state, group_leaf_for_role(TargetRole(t))>>
    BY <1>1 DEF LeafGroup
  <2>3. PathRole(LeafGroup(t)) = normalize_role(group_leaf_for_role(TargetRole(t)))
    BY <2>2 DEF PathRole
  <2>6. Path(LeafGroup(t)) = LeafGroup(t)
    BY <1>0, <2>2
  <2>4. normalize_role(group_leaf_for_role(TargetRole(t))) = TargetRole(t)
    BY <2>1 DEF normalize_role, group_leaf_for_role, StateRoles
  <2>5. LeafGroup(t) \in LeafGroups
    BY <2>1, <2>2 DEF LeafGroups
  <2> QED
    BY <2>3, <2>4, <2>5, <2>6 DEF Things
<1>2. CASE t.type # "state"
  <2>1. TargetRole(t) = t.type /\ t.type \in {"super_admin", "bh_viewer"}
    BY <1>2, TargetsAssumption DEF AccessTargets, Targeted, TargetRole
  <2>2. LeafGroup(t) = <<"global", group_leaf_for_role(TargetRole(t))>>
    BY <1>2 DEF LeafGroup, Global
  <2>3. PathRole(LeafGroup(t)) = normalize_role(group_leaf_for_role(TargetRole(t)))
    BY <2>2 DEF PathRole
  <2>6. Path(LeafGroup(t)) = LeafGroup(t)
    BY <1>0, <2>2
  <2>4. normalize_role(group_leaf_for_role(TargetRole(t))) = TargetRole(t)
    BY <2>1 DEF normalize_role, group_leaf_for_role
  <2>5. LeafGroup(t) \in LeafGroups
    BY <2>1, <2>2 DEF LeafGroups, Global, group_leaf_for_role
  <2> QED
    BY <2>3, <2>4, <2>5, <2>6 DEF Things
<1> QED
  BY <1>1, <1>2

LEMMA EnsuredTyped ==
  ASSUME NEW t \in AccessTargets, Acceptable(t)
  PROVE  /\ Len(Ensured(t)) \in Nat \ {0}
         /\ \A i \in 1..Len(Ensured(t)) : Ensured(t)[i] \in Things
         /\ Ensured(t)[Len(Ensured(t))] = LeafGroup(t)
<1>1. RealmRole(TargetRole(t)) \in Things
  BY TargetRoleTyped DEF Things
<1>2. LeafGroup(t) \in Things
  BY LeafGroupTyped
<1>3. CASE t.type = "state"
  <2>1. <<"states">> \in Things /\ <<"states", t.state>> \in Things
    BY <1>3, TargetRoleTyped DEF Things
  <2> DEFINE e == Ensured(t)
  <2>2. e = <<RealmRole(TargetRole(t))>> \o <<<<"states">>, <<"states", t.state>>>>
              \o <<LeafGroup(t)>>
    BY <1>3 DEF Ensured
  <2>3. /\ Len(e) = 4 /\ e[1] = RealmRole(TargetRole(t)) /\ e[2] = <<"states">>
        /\ e[3] = <<"states", t.state>> /\ e[4] = LeafGroup(t)
    <3> HIDE DEF e
    <3> QED
      BY <2>2
  <2> QED
    BY <1>1, <1>2, <2>1, <2>3
<1>4. CASE t.type # "state"
  <2>1. <<"global">> \in Things
    BY DEF Things
  <2> DEFINE e == Ensured(t)
  <2>2. e = <<RealmRole(TargetRole(t))>> \o <<<<"global">>>> \o <<LeafGroup(t)>>
    BY <1>4 DEF Ensured
  <2>3. /\ Len(e) = 3 /\ e[1] = RealmRole(TargetRole(t)) /\ e[2] = <<"global">>
        /\ e[3] = LeafGroup(t)
    <3> HIDE DEF e
    <3> QED
      BY <2>2
  <2> QED
    BY <1>1, <1>2, <2>1, <2>3
<1> QED
  BY <1>3, <1>4

LEMMA FlatGroup ==
  /\ FlatSuperAdmin \in LeafGroups
  /\ FlatSuperAdmin \in Things
  /\ Path(FlatSuperAdmin) = Global("super-admin")
  /\ \A g : g # FlatSuperAdmin => Path(g) = g
BY DEF LeafGroups, Things, Path
-----------------------------------------------------------------------------
(* Types of administration                                                 *)

LEMMA IdleAdminTyped == IdleAdmin \in AdminRecord
<1>1. (CHOOSE u \in Users : TRUE) \in Users
  BY UsersAssumption
<1>2. Targeted("super_admin", NoState, NoRole) \in AccessTargets
  BY DEF AccessTargets
<1> QED
  BY <1>1, <1>2, FlatGroup DEF IdleAdmin, AdminRecord, AdminOps, AdminSteps

LEMMA RecordTyped ==
  ASSUME AdminTyped, NEW q \in AdminRequests, NEW r \in AdminRecord, Shaped(r),
         admin' = [admin EXCEPT ![q] = r]
  PROVE  AdminTyped'
BY DEF AdminTyped, EnsuringShape, Shaped

LEMMA GoesTyped ==
  ASSUME AdminTyped, NEW q \in AdminRequests, NEW s \in AdminSteps,
         Shaped([admin[q] EXCEPT !.step = s]), Goes(q, s)
  PROVE  AdminTyped'
<1>1. [admin[q] EXCEPT !.step = s] \in AdminRecord
  BY DEF AdminTyped, AdminRecord
<1>2. admin' = [admin EXCEPT ![q] = [admin[q] EXCEPT !.step = s]]
  BY DEF Goes
<1> QED
  BY <1>1, <1>2, RecordTyped

LEMMA ActingTyped ==
  ASSUME AdminTyped, NEW q \in AdminRequests, NEW u \in Users, NEW r \in AdminRecord,
         Shaped(r), admin' = Acting(q, u, r)
  PROVE  AdminTyped'
<1> DEFINE a == IF Beside(q, u) = {} THEN r.alone ELSE FALSE
           r1 == [r EXCEPT !.account = u, !.alone = a]
<1>1. a \in BOOLEAN
  BY DEF AdminRecord
<1>2. r1 \in AdminRecord /\ Shaped(r1)
  <2> HIDE DEF a
  <2> QED
    BY <1>1 DEF AdminRecord, Shaped
<1>3. \A o \in AdminRequests \ {q} :
        admin'[o] = admin[o] \/ admin'[o] = [admin[o] EXCEPT !.alone = FALSE]
  BY DEF Acting
<1>4. admin'[q] = r1
  BY DEF Acting
<1>5. \A o \in AdminRequests : admin[o] \in AdminRecord /\ Shaped(admin[o])
  BY DEF AdminTyped, EnsuringShape, Shaped
<1>6. \A o \in AdminRequests : admin'[o] \in AdminRecord /\ Shaped(admin'[o])
  <2> HIDE DEF r1
  <2> TAKE o \in AdminRequests
  <2>1. CASE o = q
    BY <1>2, <1>4, <2>1
  <2>2. CASE o # q
    <3>1. CASE admin'[o] = admin[o]
      BY <1>5, <3>1
    <3>2. CASE admin'[o] = [admin[o] EXCEPT !.alone = FALSE]
      BY <1>5, <3>2 DEF AdminRecord, Shaped
    <3> QED
      BY <1>3, <2>2, <3>1, <3>2
  <2> QED
    BY <2>1, <2>2
<1>7. admin' = [o \in AdminRequests |-> admin'[o]]
  BY DEF Acting
<1> QED
  BY <1>6, <1>7 DEF AdminTyped, EnsuringShape, Shaped

LEMMA EnsuresTyped ==
  ASSUME AdminTyped, NEW q \in AdminRequests, NEW thing, Ensures(q, thing),
         admin[q].step \in {"find", "create"},
         admin[q].at = Len(Ensured(admin[q].target)) => thing \in LeafGroups
  PROVE  AdminTyped'
<1> DEFINE n == Len(Ensured(admin[q].target))
           r == admin[q]
<1>1. r \in AdminRecord /\ Acceptable(r.target) /\ r.at \in 1..n
  BY DEF AdminTyped, EnsuringShape, Shaped
<1>2. n \in Nat
  BY <1>1, EnsuredTyped DEF AdminRecord
<1>3. CASE r.at < n
  <2> DEFINE r1 == [r EXCEPT !.at = @ + 1, !.step = "find"]
  <2>1. r1 \in AdminRecord
    <3>1. r.at + 1 \in Nat
      BY <1>1 DEF AdminRecord
    <3> QED
      BY <1>1, <3>1 DEF AdminRecord, AdminSteps
  <2>2. Shaped(r1)
    <3>1. r1.target = r.target /\ r1.at = r.at + 1
      BY <1>1 DEF AdminRecord
    <3>2. r1.at \in 1..n
      BY <1>1, <1>2, <1>3, <3>1
    <3> QED
      BY <1>1, <3>1, <3>2 DEF Shaped
  <2>3. admin' = [admin EXCEPT ![q] = r1]
    BY <1>3 DEF Ensures, AdminTyped, AdminRecord
  <2> QED
    BY <2>1, <2>2, <2>3, RecordTyped
<1>4. CASE ~(r.at < n)
  <2> DEFINE r1 == [r EXCEPT !.group = thing, !.step = "map"]
  <2>1. thing \in LeafGroups
    BY <1>1, <1>2, <1>4
  <2>2. r1 \in AdminRecord
    BY <1>1, <2>1 DEF AdminRecord, AdminSteps
  <2>3. r1.target = r.target /\ r1.at = r.at
    BY <1>1 DEF AdminRecord
  <2>4. Shaped(r1)
    BY <1>1, <2>3 DEF Shaped
  <2>5. admin' = [admin EXCEPT ![q] = r1]
    BY <1>4 DEF Ensures, AdminTyped, AdminRecord
  <2> QED
    BY <2>2, <2>4, <2>5, RecordTyped
<1> QED
  BY <1>3, <1>4

\* What an action of administration does to one request.
LEMMA AdminStepTyped ==
  ASSUME TypeInv, NEW q \in AdminRequests, AdminStep(q)
  PROVE  RealmTyped' /\ AdminTyped'
<1> USE DEF TypeInv
<1>0. admin[q] \in AdminRecord /\ Shaped(admin[q])
  BY DEF AdminTyped, EnsuringShape, Shaped
<1> DEFINE r == admin[q]
<1>n. ASSUME NEW s \in AdminSteps, Goes(q, s), s \notin {"user", "find", "create", "map"}
      PROVE  AdminTyped'
  <2>1. Shaped([admin[q] EXCEPT !.step = s])
    BY <1>0, <1>n DEF Shaped, AdminRecord
  <2> QED
    BY <1>n, <2>1, GoesTyped
<1>f. ASSUME NEW t \in AccessTargets, Acceptable(t)
      PROVE  1 \in 1..Len(Ensured(t))
  BY <1>f, EnsuredTyped
<1>1. CASE Provision(q)
  <2> PICK u \in Users, t \in Targets, on \in BOOLEAN :
        admin' = Acting(q, u, [IdleAdmin EXCEPT !.op = "provision", !.step = FirstStep(t),
                                                !.target = t, !.enabled = on])
    BY <1>1 DEF Provision
  <2> DEFINE r1 == [IdleAdmin EXCEPT !.op = "provision", !.step = FirstStep(t),
                                     !.target = t, !.enabled = on]
  <2>1. r1 \in AdminRecord
    BY IdleAdminTyped DEF AdminRecord, AdminOps, AdminSteps, Closed, FirstStep, AccessTargets
  <2>2. Shaped(r1)
    BY <1>f DEF Shaped, FirstStep, IdleAdmin, AccessTargets
  <2>3. AdminTyped'
    BY <2>1, <2>2, ActingTyped
  <2> QED
    BY <1>1, <2>3 DEF Provision, RealmTyped, keycloakVars
<1>2. CASE SetAccess(q)
  <2> PICK u \in Users, t \in Targets :
        admin' = Acting(q, u, [IdleAdmin EXCEPT !.op = "set_access", !.step = "user",
                                                !.target = t])
    BY <1>2 DEF SetAccess
  <2> DEFINE r1 == [IdleAdmin EXCEPT !.op = "set_access", !.step = "user", !.target = t]
  <2>1. r1 \in AdminRecord
    BY IdleAdminTyped DEF AdminRecord, AdminOps, AdminSteps, AccessTargets
  <2>2. Shaped(r1)
    BY DEF Shaped, IdleAdmin
  <2>3. AdminTyped'
    BY <2>1, <2>2, ActingTyped
  <2> QED
    BY <1>2, <2>3 DEF SetAccess, RealmTyped, keycloakVars
<1>3. CASE GetUser(q)
  <2>1. CASE (exists[r.account] /\ Acceptable(r.target))
    <3>1. Shaped([r EXCEPT !.step = "find"])
      BY <1>0, <1>3, <1>f, <2>1 DEF GetUser, AdminRecord, Shaped
    <3>2. Goes(q, "find")
      BY <1>3, <2>1 DEF GetUser, FirstStep
    <3> QED
      BY <1>3, <3>1, <3>2, GoesTyped DEF GetUser, RealmTyped, keycloakVars, AdminSteps
  <2>2. CASE ~(exists[r.account] /\ Acceptable(r.target))
    BY <1>3, <1>n, <2>2 DEF GetUser, FirstStep, RealmTyped, keycloakVars, AdminSteps, Closed
  <2> QED
    BY <2>1, <2>2
<1>e. ASSUME r.step \in {"find", "create", "map"}
      PROVE  /\ Ensuring(q) \in Things
             /\ r.at = Len(Ensured(r.target)) => Ensuring(q) \in LeafGroups
  BY <1>0, <1>e, EnsuredTyped, LeafGroupTyped DEF Ensuring, AdminRecord, Shaped
<1>4. CASE Find(q)
  <2>1. CASE Ensures(q, Ensuring(q))
    BY <1>4, <1>e, <2>1, EnsuresTyped DEF Find, RealmTyped, keycloakVars
  <2>2. CASE Ensures(q, FlatSuperAdmin)
    BY <1>4, <2>2, EnsuresTyped, FlatGroup DEF Find, RealmTyped, keycloakVars
  <2>3. CASE Goes(q, "create")
    <3>1. Shaped([r EXCEPT !.step = "create"])
      BY <1>0, <1>4 DEF Find, AdminRecord, Shaped
    <3> QED
      BY <1>4, <2>3, <3>1, GoesTyped DEF Find, RealmTyped, keycloakVars, AdminSteps
  <2> QED
    BY <1>4, <2>1, <2>2, <2>3 DEF Find
<1>5. CASE Create(q)
  <2>1. AdminTyped'
    BY <1>5, <1>e, EnsuresTyped DEF Create
  <2> QED
    BY <1>5, <1>e, <2>1 DEF Create, RealmTyped
<1>6. CASE MapRole(q)
  <2>1. AdminTyped'
    BY <1>6, <1>n DEF MapRole, AdminSteps
  <2>2. TargetRole(r.target) \in Roles /\ r.group \in LeafGroups
    BY <1>0, <1>6, TargetRoleTyped DEF MapRole, Shaped, AdminRecord
  <2> QED
    BY <1>6, <2>1, <2>2 DEF MapRole, RealmTyped
<1>7. CASE Lookup(q)
  BY <1>7, <1>n DEF Lookup, AdminSteps, RealmTyped, keycloakVars
<1>8. CASE Update(q)
  <2>1. AdminTyped'
    BY <1>8, <1>n DEF Update, AdminSteps
  <2> QED
    BY <1>0, <1>8, <2>1 DEF Update, RealmTyped, AdminRecord
<1>9. CASE Post(q)
  <2>1. CASE Taken(r.account) = {}
    <3>1. [r EXCEPT !.step = "locate", !.made = TRUE] \in AdminRecord
      BY <1>0 DEF AdminRecord, AdminSteps
    <3>2. Shaped([r EXCEPT !.step = "locate", !.made = TRUE])
      BY <1>0 DEF AdminRecord, Shaped
    <3>3. admin' = [admin EXCEPT ![q] = [r EXCEPT !.step = "locate", !.made = TRUE]]
      BY <1>9, <2>1 DEF Post, AdminTyped, AdminRecord
    <3>4. AdminTyped'
      BY <3>1, <3>2, <3>3, RecordTyped
    <3> QED
      BY <1>0, <1>9, <2>1, <3>4 DEF Post, RealmTyped, AdminRecord
  <2>2. CASE Taken(r.account) # {}
    BY <1>9, <1>n, <2>2 DEF Post, RealmTyped, AdminSteps
  <2> QED
    BY <2>1, <2>2
<1>10. CASE Locate(q)
  <2>1. CASE Goes(q, "error")
    BY <1>10, <1>n, <2>1 DEF Locate, RealmTyped, keycloakVars, AdminSteps, Closed
  <2>2. CASE \E v \in Users : admin' = Acting(q, v, [r EXCEPT !.step = "join"])
    <3>1. [r EXCEPT !.step = "join"] \in AdminRecord /\ Shaped([r EXCEPT !.step = "join"])
      BY <1>0 DEF AdminRecord, AdminSteps, Shaped
    <3> QED
      BY <1>10, <2>2, <3>1, ActingTyped DEF Locate, RealmTyped, keycloakVars
  <2>3. {r.account} \cup Taken(r.account) \subseteq Users
    BY <1>0 DEF AdminRecord, Taken
  <2> QED
    BY <1>10, <2>1, <2>2, <2>3 DEF Locate
<1>11. CASE Join(q)
  <2>1. AdminTyped'
    BY <1>11, <1>n DEF Join, AdminSteps
  <2> QED
    BY <1>0, <1>11, <2>1 DEF Join, RealmTyped, AdminRecord
<1>s. ASSUME NEW things \in SUBSET Things, NEW s \in {"leave", "strip"},
             admin' = [admin EXCEPT ![q].step = s, ![q].seen = things]
      PROVE  AdminTyped'
  <2> DEFINE r1 == [r EXCEPT !.step = s, !.seen = things]
  <2>1. r1 \in AdminRecord /\ Shaped(r1)
    BY <1>0 DEF AdminRecord, AdminSteps, Shaped
  <2>2. admin' = [admin EXCEPT ![q] = r1]
    BY <1>s DEF AdminTyped, AdminRecord
  <2> QED
    BY <2>1, <2>2, RecordTyped
<1>l. ASSUME NEW thing, admin' = [admin EXCEPT ![q].seen = @ \ {thing}], r.step \in {"leave", "strip"}
      PROVE  AdminTyped'
  <2> DEFINE r1 == [r EXCEPT !.seen = @ \ {thing}]
  <2>1. r1 \in AdminRecord /\ Shaped(r1)
    BY <1>0, <1>l DEF AdminRecord, AdminSteps, Shaped
  <2>2. admin' = [admin EXCEPT ![q] = r1]
    BY <1>l DEF AdminTyped, AdminRecord
  <2> QED
    BY <2>1, <2>2, RecordTyped
<1>12. CASE ListGroups(q)
  <2> DEFINE others == {g \in member[r.account] : /\ Path(g) # Path(r.group)
                                                  /\ _is_product_group_path(Path(g))}
  <2>1. others \subseteq Things
    <3>1. member[r.account] \subseteq LeafGroups \cup {<<"staff">>}
      BY <1>0 DEF RealmTyped, AdminRecord
    <3> QED
      BY <3>1 DEF Things
  <2> QED
    BY <1>12, <1>s, <2>1 DEF ListGroups, RealmTyped, keycloakVars
<1>13. CASE Leave(q)
  <2>1. AdminTyped'
    BY <1>13, <1>l DEF Leave
  <2> QED
    BY <1>0, <1>13, <2>1 DEF Leave, RealmTyped, AdminRecord
<1>14. CASE ListRoles(q)
  <2>1. {RealmRole(x) : x \in direct[r.account] \ DefaultRoles} \subseteq Things
    <3>1. direct[r.account] \subseteq Roles \cup DefaultRoles
      BY <1>0 DEF RealmTyped, AdminRecord
    <3> QED
      BY <3>1 DEF Things
  <2> QED
    BY <1>14, <1>s, <2>1 DEF ListRoles, RealmTyped, keycloakVars
<1>15. CASE Strip(q)
  <2>1. AdminTyped'
    BY <1>15, <1>l DEF Strip
  <2> QED
    BY <1>0, <1>15, <2>1 DEF Strip, RealmTyped, AdminRecord
<1>16. CASE Report(q)
  BY <1>16, <1>n DEF Report, RealmTyped, keycloakVars, AdminSteps, Closed
<1>17. CASE AdminFails(q)
  <2>1. AdminTyped'
    BY <1>17, <1>n DEF AdminFails, AdminSteps, Closed
  <2> QED
    BY <1>17, <2>1, FaultsAssumption DEF AdminFails, Fault, RealmTyped
<1> QED
  BY <1>1, <1>2, <1>3, <1>4, <1>5, <1>6, <1>7, <1>8, <1>9, <1>10, <1>11, <1>12, <1>13,
     <1>14, <1>15, <1>16, <1>17 DEF AdminStep

-----------------------------------------------------------------------------
(* Types of sign-in                                                        *)

LEMMA NoRowTyped == NoRow \in Row
BY OtpAssumption DEF NoRow, Row

LEMMA IdleSignInTyped == IdleSignIn \in SignRecord
<1>1. (CHOOSE u \in Users : TRUE) \in Users
  BY UsersAssumption
<1>2. NoPassword \in Secrets
  BY DEF Secrets
<1> QED
  BY <1>1, <1>2, NoRowTyped, NoTokenTyped, OtpAssumption
  DEF IdleSignIn, SignRecord, SignSteps, SignedOff

SignTyped ==
  /\ sign \in [SignIns -> SignRecord]
  /\ \A q \in SignIns : sign[q].at <= now

LEMMA SignRecordTyped ==
  ASSUME OtpTyped, now' = now, NEW q \in SignIns, NEW r \in SignRecord,
         r.at = sign[q].at, sign' = [sign EXCEPT ![q] = r]
  PROVE  SignTyped'
BY DEF OtpTyped, SignTyped

LEMMA MovesTyped ==
  ASSUME OtpTyped, now' = now, NEW q \in SignIns, NEW s \in SignSteps, Moves(q, s)
  PROVE  SignTyped'
<1> DEFINE r1 == [sign[q] EXCEPT !.step = s]
<1>1. r1 \in SignRecord /\ r1.at = sign[q].at
  BY DEF OtpTyped, SignRecord
<1>2. sign' = [sign EXCEPT ![q] = r1]
  BY DEF Moves
<1> QED
  BY <1>1, <1>2, SignRecordTyped

LEMMA BeginsTyped ==
  ASSUME OtpTyped, now' = now, NEW q \in SignIns, NEW u \in Users, NEW r \in SignRecord,
         Begins(q, u, r)
  PROVE  SignTyped'
<1> DEFINE a == IF SigningBeside(q, u) = {} THEN r.alone ELSE FALSE
           r1 == [r EXCEPT !.user = u, !.at = now, !.alone = a]
<1>1. a \in BOOLEAN
  BY DEF SignRecord
<1>2. r1 \in SignRecord /\ r1.at = now
  <2> HIDE DEF a
  <2> QED
    BY <1>1 DEF SignRecord, OtpTyped
<1>3. \A p \in SignIns \ {q} :
        sign'[p] = sign[p] \/ sign'[p] = [sign[p] EXCEPT !.alone = FALSE]
  BY DEF Begins
<1>4. sign'[q] = r1
  BY DEF Begins
<1>5. \A p \in SignIns : sign[p] \in SignRecord /\ sign[p].at <= now
  BY DEF OtpTyped
<1>6. \A p \in SignIns : sign'[p] \in SignRecord /\ sign'[p].at <= now
  <2> HIDE DEF r1
  <2> TAKE p \in SignIns
  <2>1. CASE p = q
    BY <1>2, <1>4, <2>1 DEF OtpTyped
  <2>2. CASE p # q
    <3>1. CASE sign'[p] = sign[p]
      BY <1>5, <3>1
    <3>2. CASE sign'[p] = [sign[p] EXCEPT !.alone = FALSE]
      BY <1>5, <3>2 DEF SignRecord
    <3> QED
      BY <1>3, <2>2, <3>1, <3>2
  <2> QED
    BY <2>1, <2>2
<1>7. sign' = [p \in SignIns |-> sign'[p]]
  BY DEF Begins
<1> QED
  BY <1>6, <1>7 DEF SignTyped

LEMMA SessionTyped ==
  ASSUME OtpTyped, now' = now, NEW q \in SignIns, NEW u \in Users,
         NEW op \in {"sso", "refresh"}, Session(q, u, op)
  PROVE  SignTyped'
<1> DEFINE fields == [IdleSignIn EXCEPT !.op = op]
           granted == [fields EXCEPT !.step = "ok", !.granted = TRUE, !.token = Claims(u)]
           refused == [fields EXCEPT !.step = "refused"]
<1>1. fields \in SignRecord
  BY IdleSignInTyped DEF SignRecord
<1>2. granted \in SignRecord /\ refused \in SignRecord
  <2> HIDE DEF fields
  <2> QED
    BY <1>1, ClaimsTyped DEF SignRecord, SignSteps, SignedOff
<1>3. Begins(q, u, granted) \/ Begins(q, u, refused)
  BY DEF Session
<1> QED
  BY <1>2, <1>3, BeginsTyped

LEMMA NewRowTyped ==
  ASSUME OtpTyped, NEW q \in SignIns, sign[q].code # Mistyped
  PROVE  NewRow(q) \in Row
<1>1. sign[q].at \in 0..MaxTime /\ sign[q].code \in SignIns \cup {NoCode}
  BY DEF OtpTyped, SignRecord
<1>2. sign[q].at + OTP_TTL_SECONDS \in 0..MaxTime + OTP_TTL_SECONDS /\ sign[q].at \in Nat
  BY <1>1, OtpAssumption
<1> QED
  BY <1>1, <1>2 DEF NewRow, Row

\* A code to be stored or mailed is the request's own, or nobody's.
OwnCode == \A q \in SignIns : sign[q].op = "send" => sign[q].code \in {q, NoCode}
SendSteps == {"lookup", "store", "mail"}
VerifySteps == {"drop", "count", "spend", "find", "rotate", "grant", "again"}
StepsOfOps ==
  \A q \in SignIns :
    /\ sign[q].step \in SendSteps => sign[q].op = "send"
    /\ sign[q].step \in VerifySteps => sign[q].op = "verify"
    /\ sign[q].step = "mail" => sign[q].code # NoCode

\* What an action of sign-in does to one request.
LEMMA SignInStepTyped ==
  ASSUME TypeInv, OwnCode, StepsOfOps, NEW q \in SignIns, SignInStep(q)
  PROVE  RealmTyped' /\ OtpTyped'
<1> USE DEF TypeInv
<1> DEFINE r == sign[q]
           u == sign[q].user
           Calm == UNCHANGED keycloakVars => RealmTyped'
<1>0. r \in SignRecord /\ u \in Users
  BY DEF OtpTyped, SignRecord
<1>t. Calm
  BY DEF RealmTyped, keycloakVars
<1>u. ASSUME SignTyped', UNCHANGED <<now, email_otps, inbox>>
      PROVE  OtpTyped'
  BY <1>u DEF OtpTyped, SignTyped
<1>f. ASSUME Fault, UNCHANGED <<realmVars, accountVars, password>>
      PROVE  RealmTyped'
  BY <1>f, FaultsAssumption DEF Fault, RealmTyped, realmVars, accountVars
<1>p. ASSUME NEW k \in {1, 2}, password' = [password EXCEPT ![u] = <<q, k>>],
             UNCHANGED <<realmVars, accountVars, faults>>
      PROVE  RealmTyped'
  BY <1>0, <1>p DEF RealmTyped, realmVars, accountVars, Secrets
<1>1. CASE RequestCode(q)
  <2> PICK v \in Users : Begins(q, v, [IdleSignIn EXCEPT !.step =
                            IF Cooling(email_otps[v]) THEN "ok" ELSE "lookup"])
    BY <1>1 DEF RequestCode
  <2>1. [IdleSignIn EXCEPT !.step = IF Cooling(email_otps[v]) THEN "ok" ELSE "lookup"]
          \in SignRecord
    BY IdleSignInTyped DEF SignRecord, SignSteps, SignedOff
  <2>2. SignTyped'
    BY <1>1, <2>1, BeginsTyped DEF RequestCode
  <2> QED
    BY <1>1, <1>t, <1>u, <2>2 DEF RequestCode
<1>2. CASE LookupUser(q)
  <2> DEFINE r1 == [r EXCEPT !.step = "store", !.code = IF exists[u] THEN q ELSE NoCode]
  <2>1. r1 \in SignRecord /\ r1.at = r.at
    BY <1>0 DEF SignRecord, SignSteps
  <2>2. sign' = [sign EXCEPT ![q] = r1]
    BY <1>2 DEF LookupUser, OtpTyped, SignRecord
  <2>3. SignTyped'
    BY <1>2, <2>1, <2>2, SignRecordTyped DEF LookupUser
  <2> QED
    BY <1>2, <1>t, <1>u, <2>3 DEF LookupUser
<1>3. CASE StoreCode(q)
  <2>1. r.code # Mistyped
    BY <1>3, CodesAssumption DEF StoreCode, StepsOfOps, OwnCode, SendSteps, NoCode, Mistyped
  <2>2. NewRow(q) \in Row
    BY <2>1, NewRowTyped
  <2>3. SignTyped'
    BY <1>3, MovesTyped DEF StoreCode, SignSteps, SignedOff
  <2>4. email_otps' \in [Users -> Row]
    BY <1>3, <2>2 DEF StoreCode, OtpTyped
  <2> QED
    BY <1>3, <1>t, <2>3, <2>4 DEF StoreCode, OtpTyped, SignTyped
<1>4. CASE Mail(q)
  <2>1. r.code \in SignIns
    BY <1>4 DEF Mail, StepsOfOps, OwnCode, SendSteps
  <2>2. SignTyped'
    BY <1>4, MovesTyped DEF Mail, SignSteps, SignedOff
  <2>3. inbox' \in [Users -> SUBSET SignIns]
    BY <1>4, <2>1 DEF Mail, OtpTyped
  <2> QED
    BY <1>4, <1>t, <2>2, <2>3 DEF Mail, OtpTyped, SignTyped
<1>5. CASE MailFails(q)
  BY <1>5, <1>f, <1>u, MovesTyped DEF MailFails, SignSteps, SignedOff
<1>6. CASE TypeCode(q)
  <2> PICK v \in Users : \E code \in inbox[v] \cup {Mistyped} :
        Begins(q, v, [IdleSignIn EXCEPT !.op = "verify", !.code = code,
                                        !.row = email_otps[v],
                                        !.step = Verdict(email_otps[v], code)])
    BY <1>6 DEF TypeCode
  <2> PICK code \in inbox[v] \cup {Mistyped} :
        Begins(q, v, [IdleSignIn EXCEPT !.op = "verify", !.code = code,
                                        !.row = email_otps[v],
                                        !.step = Verdict(email_otps[v], code)])
    OBVIOUS
  <2> DEFINE r1 == [IdleSignIn EXCEPT !.op = "verify", !.code = code, !.row = email_otps[v],
                                      !.step = Verdict(email_otps[v], code)]
  <2>1. /\ code \in SignIns \cup {NoCode, Mistyped}
        /\ email_otps[v] \in Row
    BY DEF OtpTyped
  <2>2. Verdict(email_otps[v], code) \in SignSteps
    BY DEF Verdict, SignSteps, SignedOff
  <2>3. r1 \in SignRecord
    BY <2>1, <2>2, IdleSignInTyped DEF SignRecord
  <2>4. SignTyped'
    BY <1>6, <2>3, BeginsTyped DEF TypeCode
  <2> QED
    BY <1>6, <1>t, <1>u, <2>4 DEF TypeCode
<1>7. CASE DropRow(q)
  <2>1. SignTyped'
    BY <1>7, MovesTyped DEF DropRow, SignSteps, SignedOff
  <2> QED
    BY <1>7, <1>t, <2>1, NoRowTyped DEF DropRow, OtpTyped, SignTyped
<1>8. CASE CountAttempt(q)
  <2>1. SignTyped'
    BY <1>8, MovesTyped DEF CountAttempt, SignSteps, SignedOff
  <2>2. email_otps[u] \in Row
    BY <1>0 DEF OtpTyped
  <2> DEFINE e == [email_otps[u] EXCEPT !.attempts = @ + 1]
  <2>3. e \in Row
    <3>1. email_otps[u].attempts + 1 \in Nat
      BY <2>2 DEF Row
    <3> QED
      BY <2>2, <3>1 DEF Row
  <2>4. email_otps' = [email_otps EXCEPT ![u] = e] \/ email_otps' = email_otps
    BY <1>8, <2>2 DEF CountAttempt, OtpTyped, Row
  <2>5. email_otps' \in [Users -> Row]
    <3> HIDE DEF e
    <3> QED
      BY <2>3, <2>4 DEF OtpTyped
  <2> QED
    BY <1>8, <1>t, <2>1, <2>5 DEF CountAttempt, OtpTyped, SignTyped
<1>9. CASE SpendCode(q)
  <2>1. SignTyped'
    BY <1>9, MovesTyped DEF SpendCode, SignSteps
  <2> QED
    BY <1>9, <1>t, <2>1, NoRowTyped DEF SpendCode, OtpTyped, SignTyped
<1>10. CASE FindUser(q)
  BY <1>10, <1>t, <1>u, MovesTyped DEF FindUser, SignSteps, SignedOff
<1>11. CASE Rotate(q)
  <2> DEFINE r1 == [r EXCEPT !.step = "grant", !.secret = <<q, 1>>]
  <2>1. r1 \in SignRecord /\ r1.at = r.at
    BY <1>0 DEF SignRecord, SignSteps, Secrets
  <2>2. sign' = [sign EXCEPT ![q] = r1]
    BY <1>11 DEF Rotate, OtpTyped, SignRecord
  <2>3. SignTyped'
    BY <1>11, <2>1, <2>2, SignRecordTyped DEF Rotate
  <2> QED
    BY <1>11, <1>p, <1>u, <2>3 DEF Rotate
<1>12. CASE Grant(q)
  <2> DEFINE token == IF Accepted(q) THEN Claims(u) ELSE NoToken
             r1 == [r EXCEPT !.step = "again", !.granted = Accepted(q), !.token = token]
  <2>1. token \in Tokens
    BY ClaimsTyped, NoTokenTyped
  <2>2. r1 \in SignRecord /\ r1.at = r.at
    <3> HIDE DEF token
    <3>1. Accepted(q) \in BOOLEAN
      BY DEF Accepted
    <3> QED
      BY <1>0, <2>1, <3>1 DEF SignRecord, SignSteps
  <2>3. sign' = [sign EXCEPT ![q] = r1]
    BY <1>12 DEF Grant, OtpTyped, SignRecord
  <2>4. SignTyped'
    BY <1>12, <2>2, <2>3, SignRecordTyped DEF Grant
  <2> QED
    BY <1>12, <1>t, <1>u, <2>4 DEF Grant
<1>13. CASE RotateAgain(q)
  <2>1. SignTyped'
    BY <1>13, MovesTyped DEF RotateAgain, Answered, SignSteps, SignedOff
  <2> QED
    BY <1>13, <1>p, <1>u, <2>1 DEF RotateAgain
<1>14. CASE RotationFails(q)
  BY <1>14, <1>f, <1>u, MovesTyped DEF RotationFails, Answered, SignSteps, SignedOff
<1>15. CASE SignInFails(q)
  BY <1>15, <1>f, <1>u, MovesTyped DEF SignInFails, SignSteps, SignedOff
<1>16. CASE ExchangeCode(q)
  BY <1>16, <1>t, <1>u, SessionTyped DEF ExchangeCode
<1>17. CASE Refresh(q)
  <2>1. \E v \in Users : Session(q, v, "refresh")
    BY <1>17 DEF Refresh, OtpTyped, SignRecord
  <2> QED
    BY <1>17, <1>t, <1>u, <2>1, SessionTyped DEF Refresh
<1> QED
  BY <1>1, <1>2, <1>3, <1>4, <1>5, <1>6, <1>7, <1>8, <1>9, <1>10, <1>11, <1>12, <1>13,
     <1>14, <1>15, <1>16, <1>17 DEF SignInStep

-----------------------------------------------------------------------------
(* What a step of sign-in does to codes                                    *)

ProvenSteps == {"spend", "find", "rotate", "grant", "again"}
PastSteps == ProvenSteps \ {"spend"}
Unissued == {"idle", "lookup", "store"}

\* A request begins.
Starting(q) ==
  /\ sign[q].step = "idle"
  /\ email_otps' = email_otps /\ inbox' = inbox
  /\ \A p \in SignIns \ {q} :
       sign'[p] = IF p \in SigningBeside(q, sign'[q].user) THEN [sign[p] EXCEPT !.alone = FALSE]
                  ELSE sign[p]
  /\ SigningBeside(q, sign'[q].user) # {} => ~sign'[q].alone
  /\ sign'[q].op = "send" => sign'[q].code = NoCode /\ sign'[q].step \in {"ok", "lookup"}
  /\ sign'[q].op = "verify" =>
       /\ ~sign'[q].granted
       /\ sign'[q].step \in {"refused", "drop", "count", "spend"}
       /\ sign'[q].step = "spend" =>
            /\ sign'[q].code = email_otps[sign'[q].user].code
            /\ sign'[q].code \in inbox[sign'[q].user] \cup {Mistyped}
  /\ sign'[q].op \in {"sso", "refresh"} => sign'[q].step \in SignedOff

\* A request goes on.
Going(q) ==
  /\ Signing(q)
  /\ \A p \in SignIns \ {q} : sign'[p] = sign[p]
  /\ sign'[q].op = sign[q].op /\ sign'[q].user = sign[q].user
  /\ sign'[q].alone = sign[q].alone
  /\ \/ sign'[q].code = sign[q].code
     \/ sign[q].step = "lookup" /\ sign'[q].code \in {q, NoCode}
  /\ sign'[q].step \notin {"idle", "lookup", "spend"}
  /\ sign'[q].step = "store" => sign[q].step = "lookup"
  /\ sign'[q].step = "mail" => sign[q].step = "store" /\ sign[q].code # NoCode
  /\ sign'[q].step \in VerifySteps => sign[q].step \in VerifySteps
  /\ sign'[q].step \in PastSteps /\ sign[q].step \notin PastSteps =>
       sign[q].step = "spend" /\ email_otps'[sign[q].user].code = NoCode
  /\ sign'[q].granted => sign[q].granted \/ sign[q].step = "grant"
  /\ \A u \in Users :
       \/ email_otps'[u].code \in {email_otps[u].code, NoCode}
       \/ /\ u = sign[q].user /\ sign[q].step = "store"
          /\ email_otps'[u].code = sign[q].code /\ sign'[q].step \notin Unissued
  /\ \A u \in Users : \A c \in inbox'[u] :
       c \in inbox[u] \/ (u = sign[q].user /\ sign[q].step = "mail" /\ c = sign[q].code)

LEMMA BeginsStarts ==
  ASSUME TypeInv, NEW q \in SignIns, NEW u \in Users, NEW r \in SignRecord, Begins(q, u, r),
         sign[q].step = "idle", UNCHANGED <<email_otps, inbox>>,
         r.op = "send" => r.code = NoCode /\ r.step \in {"ok", "lookup"},
         r.op = "verify" =>
           /\ ~r.granted
           /\ r.step \in {"refused", "drop", "count", "spend"}
           /\ r.step = "spend" =>
                r.code = email_otps[u].code /\ r.code \in inbox[u] \cup {Mistyped},
         r.op \in {"sso", "refresh"} => r.step \in SignedOff
  PROVE  Starting(q)
<1> DEFINE a == IF SigningBeside(q, u) = {} THEN r.alone ELSE FALSE
           r1 == [r EXCEPT !.user = u, !.at = now, !.alone = a]
<1>1. sign'[q] = r1
  BY DEF Begins
<1>2. /\ r1.user = u /\ r1.op = r.op /\ r1.code = r.code /\ r1.step = r.step
      /\ r1.granted = r.granted /\ r1.alone = a
  BY DEF SignRecord
<1>3. \A p \in SignIns \ {q} :
        sign'[p] = IF p \in SigningBeside(q, u) THEN [sign[p] EXCEPT !.alone = FALSE]
                   ELSE sign[p]
  BY DEF Begins
<1>4. SigningBeside(q, u) # {} => ~a
  OBVIOUS
<1> HIDE DEF a, r1
<1> QED
  BY <1>1, <1>2, <1>3, <1>4 DEF Starting

\* What every action that moves a request without its code has in common.
LEMMA MovesGoes ==
  ASSUME TypeInv, NEW q \in SignIns, NEW s \in SignSteps, Moves(q, s)
  PROVE  /\ \A p \in SignIns \ {q} : sign'[p] = sign[p]
         /\ sign'[q] = [sign[q] EXCEPT !.step = s]
         /\ sign'[q].op = sign[q].op /\ sign'[q].user = sign[q].user
         /\ sign'[q].alone = sign[q].alone /\ sign'[q].code = sign[q].code
         /\ sign'[q].granted = sign[q].granted /\ sign'[q].step = s
BY DEF TypeInv, OtpTyped, Moves, SignRecord

LEMMA StartOrGo ==
  ASSUME TypeInv, NEW q \in SignIns, SignInStep(q)
  PROVE  Starting(q) \/ Going(q)
<1> DEFINE r == sign[q]
           u == sign[q].user
<1> USE DEF SignedOff
<1>0. sign[q] \in SignRecord /\ u \in Users
  BY DEF TypeInv, OtpTyped, SignRecord
<1>m. ASSUME NEW s \in SignSteps, Moves(q, s), UNCHANGED <<email_otps, inbox>>, Signing(q),
             s \notin {"idle", "lookup", "store", "mail", "spend"},
             s \in VerifySteps => r.step \in VerifySteps,
             s \in PastSteps => r.step \in PastSteps
      PROVE  Going(q)
  BY <1>m, MovesGoes, ZenonT(60) DEF Going
<1>1. CASE RequestCode(q)
  <2> PICK v \in Users : Begins(q, v, [IdleSignIn EXCEPT !.step =
                            IF Cooling(email_otps[v]) THEN "ok" ELSE "lookup"])
    BY <1>1 DEF RequestCode
  <2> DEFINE r1 == [IdleSignIn EXCEPT !.step =
                      IF Cooling(email_otps[v]) THEN "ok" ELSE "lookup"]
  <2>1. /\ r1 \in SignRecord /\ r1.op = "send" /\ r1.code = NoCode
        /\ r1.step \in {"ok", "lookup"}
    BY IdleSignInTyped DEF SignRecord, SignSteps, IdleSignIn
  <2> HIDE DEF r1
  <2> QED
    BY <1>1, <2>1, BeginsStarts DEF RequestCode, r1
<1>2. CASE LookupUser(q)
  <2> DEFINE code == IF exists[u] THEN q ELSE NoCode
  <2>1. sign' = [sign EXCEPT ![q] = [r EXCEPT !.step = "store", !.code = code]]
    BY <1>2 DEF LookupUser, TypeInv, OtpTyped, SignRecord
  <2>2. code \in {q, NoCode}
    OBVIOUS
  <2> HIDE DEF code
  <2> QED
    BY <1>0, <1>2, <2>1, <2>2
    DEF LookupUser, Going, Signing, TypeInv, OtpTyped, SignRecord, VerifySteps, ProvenSteps, PastSteps
<1>3. CASE StoreCode(q)
  <2>1. \A v \in Users \ {u} : email_otps'[v] = email_otps[v]
    BY <1>3 DEF StoreCode, TypeInv, OtpTyped
  <2>2. email_otps'[u].code = r.code
    BY <1>0, <1>3 DEF StoreCode, NewRow, TypeInv, OtpTyped
  <2> DEFINE s == IF r.code = NoCode THEN "ok" ELSE "mail"
  <2>3. s \in SignSteps /\ Moves(q, s) /\ s \in {"ok", "mail"} /\ (s = "mail" => r.code # NoCode)
    BY <1>3 DEF StoreCode, SignSteps
  <2> HIDE DEF s
  <2> QED
    BY <1>3, <2>1, <2>2, <2>3, MovesGoes
    DEF StoreCode, Going, Signing, Unissued, VerifySteps, ProvenSteps, PastSteps
<1>4. CASE Mail(q)
  <2>1. "ok" \in SignSteps
    BY DEF SignSteps
  <2>2. \A v \in Users : \A c \in inbox'[v] : c \in inbox[v] \/ (v = u /\ c = r.code)
    BY <1>0, <1>4 DEF Mail, TypeInv, OtpTyped
  <2> QED
    BY <1>4, <2>1, <2>2, MovesGoes
    DEF Mail, Going, Signing, VerifySteps, ProvenSteps, PastSteps
<1>5. CASE MailFails(q)
  BY <1>5, <1>m DEF MailFails, Signing, SignSteps, VerifySteps, ProvenSteps, PastSteps
<1>6. CASE TypeCode(q)
  <2> PICK v \in Users : \E code \in inbox[v] \cup {Mistyped} :
        Begins(q, v, [IdleSignIn EXCEPT !.op = "verify", !.code = code,
                                        !.row = email_otps[v],
                                        !.step = Verdict(email_otps[v], code)])
    BY <1>6 DEF TypeCode
  <2> PICK code \in inbox[v] \cup {Mistyped} :
        Begins(q, v, [IdleSignIn EXCEPT !.op = "verify", !.code = code,
                                        !.row = email_otps[v],
                                        !.step = Verdict(email_otps[v], code)])
    OBVIOUS
  <2> DEFINE s == Verdict(email_otps[v], code)
             r1 == [IdleSignIn EXCEPT !.op = "verify", !.code = code, !.row = email_otps[v],
                                      !.step = s]
  <2>1. /\ code \in SignIns \cup {NoCode, Mistyped}
        /\ email_otps[v] \in Row
    BY DEF TypeInv, OtpTyped
  <2>2. /\ s \in {"refused", "drop", "count", "spend"}
        /\ s = "spend" => code = email_otps[v].code
    BY DEF Verdict
  <2> HIDE DEF s
  <2>3. r1 \in SignRecord
    BY <2>1, <2>2, IdleSignInTyped DEF SignRecord, SignSteps
  <2>4. r1.op = "verify" /\ r1.code = code /\ r1.step = s /\ ~r1.granted
    BY IdleSignInTyped DEF SignRecord, IdleSignIn
  <2>5. Begins(q, v, r1)
    BY DEF s
  <2> HIDE DEF r1
  <2> QED
    BY <1>6, <2>2, <2>3, <2>4, <2>5, BeginsStarts DEF TypeCode
<1>7. CASE DropRow(q)
  <2>1. \A v \in Users : email_otps'[v] = IF v = u THEN NoRow ELSE email_otps[v]
    BY <1>7 DEF DropRow, TypeInv, OtpTyped
  <2>2. "refused" \in SignSteps
    BY DEF SignSteps
  <2>3. \A v \in Users : email_otps'[v].code \in {email_otps[v].code, NoCode}
    BY <2>1 DEF NoRow
  <2> QED
    BY <1>7, <2>2, <2>3, MovesGoes
    DEF DropRow, Going, Signing, VerifySteps, ProvenSteps, PastSteps
<1>8. CASE CountAttempt(q)
  <2>1. \A v \in Users : email_otps'[v].code = email_otps[v].code
    BY <1>0, <1>8 DEF CountAttempt, TypeInv, OtpTyped, Row
  <2>2. "refused" \in SignSteps
    BY DEF SignSteps
  <2> QED
    BY <1>8, <2>1, <2>2, MovesGoes
    DEF CountAttempt, Going, Signing, VerifySteps, ProvenSteps, PastSteps
<1>9. CASE SpendCode(q)
  <2>1. \A v \in Users : email_otps'[v] = IF v = u THEN NoRow ELSE email_otps[v]
    BY <1>9 DEF SpendCode, TypeInv, OtpTyped
  <2>2. "find" \in SignSteps
    BY DEF SignSteps
  <2>3. /\ \A v \in Users : email_otps'[v].code \in {email_otps[v].code, NoCode}
        /\ email_otps'[u].code = NoCode
    BY <1>0, <2>1 DEF NoRow
  <2> QED
    BY <1>9, <2>2, <2>3, MovesGoes
    DEF SpendCode, Going, Signing, VerifySteps, ProvenSteps, PastSteps
<1>10. CASE FindUser(q)
  BY <1>10, <1>m DEF FindUser, Signing, SignSteps, VerifySteps, ProvenSteps, PastSteps
<1>11. CASE Rotate(q)
  <2>1. sign' = [sign EXCEPT ![q] = [r EXCEPT !.step = "grant", !.secret = <<q, 1>>]]
    BY <1>11 DEF Rotate, TypeInv, OtpTyped, SignRecord
  <2> QED
    BY <1>0, <1>11, <2>1
    DEF Rotate, Going, Signing, TypeInv, OtpTyped, SignRecord, VerifySteps, ProvenSteps, PastSteps
<1>12. CASE Grant(q)
  <2> DEFINE token == IF Accepted(q) THEN Claims(u) ELSE NoToken
  <2>1. sign' = [sign EXCEPT ![q] = [r EXCEPT !.step = "again", !.granted = Accepted(q),
                                              !.token = token]]
    BY <1>12 DEF Grant, TypeInv, OtpTyped, SignRecord
  <2> HIDE DEF token
  <2> QED
    BY <1>0, <1>12, <2>1
    DEF Grant, Going, Signing, TypeInv, OtpTyped, SignRecord, VerifySteps, ProvenSteps, PastSteps
<1>13. CASE RotateAgain(q)
  BY <1>13, <1>m
  DEF RotateAgain, Answered, Signing, SignSteps, VerifySteps, ProvenSteps, PastSteps
<1>14. CASE RotationFails(q)
  BY <1>14, <1>m
  DEF RotationFails, Answered, Signing, SignSteps, VerifySteps, ProvenSteps, PastSteps
<1>15. CASE SignInFails(q)
  BY <1>15, <1>m DEF SignInFails, Signing, SignSteps, VerifySteps, ProvenSteps, PastSteps
<1>s. ASSUME NEW v \in Users, NEW op \in {"sso", "refresh"}, Session(q, v, op),
             r.step = "idle", UNCHANGED <<email_otps, inbox>>
      PROVE  Starting(q)
  <2> DEFINE fields == [IdleSignIn EXCEPT !.op = op]
             granted == [fields EXCEPT !.step = "ok", !.granted = TRUE, !.token = Claims(v)]
             refused == [fields EXCEPT !.step = "refused"]
  <2>1. fields \in SignRecord /\ fields.op = op
    BY IdleSignInTyped DEF SignRecord
  <2>2. /\ granted \in SignRecord /\ granted.op = op /\ granted.step = "ok"
        /\ refused \in SignRecord /\ refused.op = op /\ refused.step = "refused"
    <3> HIDE DEF fields
    <3> QED
      BY <2>1, ClaimsTyped DEF SignRecord, SignSteps
  <2>3. Begins(q, v, granted) \/ Begins(q, v, refused)
    BY <1>s DEF Session
  <2> HIDE DEF granted, refused
  <2> QED
    BY <1>s, <2>2, <2>3, BeginsStarts
<1>16. CASE ExchangeCode(q)
  BY <1>16, <1>s DEF ExchangeCode
<1>17. CASE Refresh(q)
  <2>1. \E v \in Users : Session(q, v, "refresh")
    BY <1>17 DEF Refresh, TypeInv, OtpTyped, SignRecord
  <2> QED
    BY <1>17, <1>s, <2>1 DEF Refresh
<1> QED
  BY <1>1, <1>2, <1>3, <1>4, <1>5, <1>6, <1>7, <1>8, <1>9, <1>10, <1>11, <1>12, <1>13,
     <1>14, <1>15, <1>16, <1>17 DEF SignInStep

-----------------------------------------------------------------------------
(* A code signs in once                                                    *)

\* A code that is stored, or was.
Issued(c) == c \in SignIns /\ sign[c].op = "send" /\ sign[c].step \notin Unissued

InboxIssued == \A u \in Users : \A c \in inbox[u] : Issued(c) /\ sign[c].user = u
RowIssued ==
  \A u \in Users : email_otps[u].code \in SignIns =>
    Issued(email_otps[u].code) /\ sign[email_otps[u].code].user = u

\* A request that has read the row of its code, and one that has deleted it.
Proven(v) == sign[v].op = "verify" /\ (sign[v].step \in ProvenSteps \/ sign[v].granted)
Past(v) == sign[v].op = "verify" /\ (sign[v].step \in PastSteps \/ sign[v].granted)

ProvenIssued ==
  \A v \in SignIns : Proven(v) =>
    Issued(sign[v].code) /\ sign[sign[v].code].user = sign[v].user

SpentGone ==
  \A v \in SignIns : Past(v) => email_otps[sign[v].user].code # sign[v].code

NoneBeside ==
  \A v, w \in SignIns :
    v # w /\ Signing(v) /\ Signing(w) /\ sign[v].user = sign[w].user => ~sign[v].alone

OncePast ==
  \A v, w \in SignIns :
    v # w /\ Past(v) /\ Proven(w) /\ sign[v].code = sign[w].code =>
      ~(sign[v].alone /\ sign[w].alone)

CodeInv ==
  /\ OwnCode /\ StepsOfOps
  /\ InboxIssued /\ RowIssued /\ ProvenIssued
  /\ SpentGone /\ NoneBeside /\ OncePast

LEMMA CodesKept ==
  ASSUME CodeInv, UNCHANGED <<email_otps, inbox, sign>>
  PROVE  CodeInv'
BY DEF CodeInv, OwnCode, StepsOfOps, InboxIssued, RowIssued, ProvenIssued, SpentGone,
       NoneBeside, OncePast, Issued, Proven, Past, Signing

LEMMA StartingKeepsCodes ==
  ASSUME TypeInv, TypeInv', CodeInv, NEW q \in SignIns, Starting(q)
  PROVE  CodeInv'
<1> DEFINE u == sign'[q].user
           Stored(c) == c \in SignIns /\ sign'[c].op = "send" /\ sign'[c].step \notin Unissued
<1> USE DEF ProvenSteps, PastSteps, SendSteps, VerifySteps
<1>0. /\ u \in Users
      /\ sign'[q].op \in {"send", "verify", "sso", "refresh"}
      /\ \A v \in Users : email_otps[v].code \in SignIns \cup {NoCode}
      /\ NoCode \notin SignIns /\ Mistyped \notin SignIns /\ NoCode # Mistyped
  BY CodesAssumption DEF TypeInv, OtpTyped, SignRecord, Row, NoCode, Mistyped
<1>1. \A p \in SignIns \ {q} :
        /\ sign'[p].op = sign[p].op /\ sign'[p].user = sign[p].user
        /\ sign'[p].step = sign[p].step /\ sign'[p].code = sign[p].code
        /\ sign'[p].granted = sign[p].granted
        /\ sign'[p].alone => sign[p].alone
  BY DEF Starting, TypeInv, OtpTyped, SignRecord
<1>2. \A c : Issued(c) => Stored(c) /\ c # q /\ sign'[c].user = sign[c].user
  BY <1>1 DEF Issued, Starting, Unissued
<1>3. \A v \in SignIns \ {q} : (Past(v)' => Past(v)) /\ (Proven(v)' => Proven(v))
  BY <1>1 DEF Past, Proven
<1>4. ~Past(q)'
  BY DEF Past, Starting
<1>5. Proven(q)' => /\ sign'[q].code = email_otps[u].code
                    /\ Issued(sign'[q].code) /\ sign[sign'[q].code].user = u
  <2>1. Proven(q)' => /\ sign'[q].code = email_otps[u].code
                      /\ sign'[q].code \in inbox[u] \cup {Mistyped}
    BY DEF Proven, Starting
  <2>2. Proven(q)' => sign'[q].code \in inbox[u]
    BY <1>0, <2>1
  <2> QED
    BY <1>0, <2>1, <2>2 DEF CodeInv, InboxIssued
<1>6. OwnCode' /\ StepsOfOps'
  BY <1>0, <1>1 DEF CodeInv, OwnCode, StepsOfOps, Starting, SignedOff
<1>7. InboxIssued' /\ RowIssued'
  BY <1>2 DEF CodeInv, InboxIssued, RowIssued, Starting, Issued
<1>8. ProvenIssued'
  <2> SUFFICES ASSUME NEW v \in SignIns, Proven(v)'
               PROVE  Stored(sign'[v].code) /\ sign'[sign'[v].code].user = sign'[v].user
    BY DEF ProvenIssued, Issued
  <2>1. CASE v = q
    BY <1>2, <1>5, <2>1
  <2>2. CASE v # q
    BY <1>1, <1>2, <1>3, <2>2 DEF CodeInv, ProvenIssued
  <2> QED
    BY <2>1, <2>2
<1>9. SpentGone'
  BY <1>1, <1>3, <1>4 DEF CodeInv, SpentGone, Starting
<1>10. NoneBeside'
  <2> SUFFICES ASSUME NEW v \in SignIns, NEW w \in SignIns, v # w, Signing(v)', Signing(w)',
                      sign'[v].user = sign'[w].user
               PROVE  ~sign'[v].alone
    BY DEF NoneBeside
  <2>1. CASE v = q
    <3>1. w \in SigningBeside(q, u)
      BY <1>1, <2>1 DEF SigningBeside, Signing
    <3> QED
      BY <2>1, <3>1 DEF Starting
  <2>2. CASE w = q
    <3>1. v \in SigningBeside(q, u)
      BY <1>1, <2>2 DEF SigningBeside, Signing
    <3>2. sign'[v] = [sign[v] EXCEPT !.alone = FALSE]
      BY <2>2, <3>1 DEF Starting
    <3> QED
      BY <3>2 DEF TypeInv, OtpTyped, SignRecord
  <2>3. CASE v # q /\ w # q
    BY <1>1, <2>3 DEF CodeInv, NoneBeside, Signing
  <2> QED
    BY <2>1, <2>2, <2>3
<1>11. OncePast'
  <2> SUFFICES ASSUME NEW v \in SignIns, NEW w \in SignIns, v # w, Past(v)', Proven(w)',
                      sign'[v].code = sign'[w].code
               PROVE  ~(sign'[v].alone /\ sign'[w].alone)
    BY DEF OncePast
  <2>1. v # q /\ Past(v) /\ Proven(v)
    BY <1>3, <1>4 DEF Past, Proven
  <2>2. CASE w = q
    <3>1. sign[v].user = u
      BY <1>1, <1>5, <2>1, <2>2 DEF CodeInv, ProvenIssued
    <3> QED
      BY <1>1, <1>5, <2>1, <2>2, <3>1 DEF CodeInv, SpentGone
  <2>3. CASE w # q
    BY <1>1, <1>3, <2>1, <2>3 DEF CodeInv, OncePast
  <2> QED
    BY <2>2, <2>3
<1> QED
  BY <1>6, <1>7, <1>8, <1>9, <1>10, <1>11 DEF CodeInv

LEMMA GoingKeepsCodes ==
  ASSUME TypeInv, TypeInv', CodeInv, NEW q \in SignIns, Going(q)
  PROVE  CodeInv'
<1> DEFINE Stored(c) == c \in SignIns /\ sign'[c].op = "send" /\ sign'[c].step \notin Unissued
<1> USE DEF ProvenSteps, PastSteps, SendSteps, VerifySteps
<1>0. /\ sign[q].user \in Users
      /\ \A v \in SignIns : sign[v].user \in Users
      /\ NoCode \notin SignIns
      /\ sign'[q].step \in SignSteps
  BY CodesAssumption DEF TypeInv, OtpTyped, SignRecord
<1>1. \A c : Issued(c) => Stored(c) /\ sign'[c].user = sign[c].user
  BY DEF Issued, Going, Unissued
<1>2. sign[q].op = "send" => sign[q].code \in {q, NoCode} /\ sign'[q].code \in {q, NoCode}
  BY DEF CodeInv, OwnCode, Going
<1>3. Proven(q)' => Proven(q) /\ sign'[q].code = sign[q].code
  BY DEF Proven, Going, CodeInv, StepsOfOps
<1>4. Past(q)' => \/ Past(q)
                  \/ sign[q].step = "spend" /\ email_otps'[sign[q].user].code = NoCode
  BY DEF Past, Going
<1>5. \A v \in SignIns \ {q} : /\ sign'[v] = sign[v]
                              /\ (Past(v)' <=> Past(v)) /\ (Proven(v)' <=> Proven(v))
  BY DEF Going, Past, Proven
<1>6. OwnCode' /\ StepsOfOps'
  <2>1. OwnCode'
    BY <1>2, <1>5 DEF CodeInv, OwnCode, Going
  <2>2. sign'[q].step \in SendSteps => sign[q].op = "send"
    BY DEF Going, CodeInv, StepsOfOps
  <2>3. sign'[q].step = "mail" => sign'[q].code # NoCode
    BY DEF Going
  <2>4. sign'[q].step \in VerifySteps => sign[q].op = "verify"
    BY DEF Going, CodeInv, StepsOfOps
  <2> QED
    BY <1>5, <2>1, <2>2, <2>3, <2>4 DEF CodeInv, StepsOfOps, Going
<1>7. InboxIssued'
  <2> SUFFICES ASSUME NEW u \in Users, NEW c \in inbox'[u]
               PROVE  Stored(c) /\ sign'[c].user = u
    BY DEF InboxIssued, Issued
  <2>1. CASE c \in inbox[u]
    BY <1>1, <2>1 DEF CodeInv, InboxIssued
  <2>2. CASE u = sign[q].user /\ sign[q].step = "mail" /\ c = sign[q].code
    <3>1. sign[q].op = "send" /\ c = q
      BY <1>2, <2>2 DEF CodeInv, StepsOfOps
    <3>2. Issued(q)
      BY <2>2, <3>1 DEF Issued, Unissued
    <3> QED
      BY <1>1, <2>2, <3>1, <3>2
  <2> QED
    BY <2>1, <2>2 DEF Going
<1>8. RowIssued'
  <2> SUFFICES ASSUME NEW u \in Users, email_otps'[u].code \in SignIns
               PROVE  /\ Stored(email_otps'[u].code)
                      /\ sign'[email_otps'[u].code].user = u
    BY DEF RowIssued, Issued
  <2>1. CASE email_otps'[u].code = email_otps[u].code
    BY <1>1, <2>1 DEF CodeInv, RowIssued
  <2>2. CASE /\ u = sign[q].user /\ sign[q].step = "store"
             /\ email_otps'[u].code = sign[q].code /\ sign'[q].step \notin Unissued
    <3>1. sign[q].op = "send" /\ email_otps'[u].code = q
      BY <1>0, <1>2, <2>2 DEF CodeInv, StepsOfOps
    <3> QED
      BY <2>2, <3>1 DEF Going, Issued
  <2> QED
    BY <1>0, <2>1, <2>2 DEF Going
<1>9. ProvenIssued'
  <2> SUFFICES ASSUME NEW v \in SignIns, Proven(v)'
               PROVE  Stored(sign'[v].code) /\ sign'[sign'[v].code].user = sign'[v].user
    BY DEF ProvenIssued, Issued
  <2>1. Proven(v) /\ sign'[v].code = sign[v].code /\ sign'[v].user = sign[v].user
    BY <1>3, <1>5 DEF Going
  <2> QED
    BY <1>1, <2>1 DEF CodeInv, ProvenIssued
<1>10. SpentGone'
  <2> SUFFICES ASSUME NEW v \in SignIns, Past(v)'
               PROVE  email_otps'[sign'[v].user].code # sign'[v].code
    BY DEF SpentGone
  <2>1. Proven(v)' /\ Proven(v) /\ sign'[v].code = sign[v].code
    BY <1>3, <1>5 DEF Past, Proven
  <2>2. sign'[v].user = sign[v].user
    BY <1>5 DEF Going
  <2>3. Issued(sign[v].code)
    BY <2>1 DEF CodeInv, ProvenIssued
  <2>4. sign[v].code \in SignIns /\ sign[v].code # NoCode
    BY <1>0, <2>3 DEF Issued
  <2>5. CASE email_otps'[sign[v].user].code = NoCode
    BY <2>1, <2>2, <2>4, <2>5
  <2>6. CASE /\ email_otps'[sign[v].user].code = email_otps[sign[v].user].code
             /\ email_otps'[sign[v].user].code # NoCode
    <3>1. Past(v)
      BY <1>4, <1>5, <2>6
    <3> QED
      BY <2>1, <2>2, <2>6, <3>1 DEF CodeInv, SpentGone
  <2>7. CASE sign[q].step = "store" /\ email_otps'[sign[v].user].code = sign[q].code
    <3>1. sign[q].code \in {q, NoCode} /\ ~Issued(q)
      BY <1>2, <2>7 DEF CodeInv, StepsOfOps, Issued, Unissued
    <3> QED
      BY <2>1, <2>2, <2>3, <2>4, <2>7, <3>1
  <2> QED
    BY <1>0, <2>5, <2>6, <2>7 DEF Going
<1>11. NoneBeside'
  <2>1. \A v \in SignIns : /\ Signing(v)' => Signing(v)
                          /\ sign'[v].user = sign[v].user /\ sign'[v].alone = sign[v].alone
    BY <1>5 DEF Going, Signing
  <2> QED
    BY <2>1 DEF CodeInv, NoneBeside
<1>12. OncePast'
  <2> SUFFICES ASSUME NEW v \in SignIns, NEW w \in SignIns, v # w, Past(v)', Proven(w)',
                      sign'[v].code = sign'[w].code
               PROVE  ~(sign'[v].alone /\ sign'[w].alone)
    BY DEF OncePast
  <2>1. Proven(v) /\ Proven(w) /\ sign[v].code = sign[w].code
    BY <1>3, <1>5 DEF Past, Proven
  <2>2. sign'[v].alone = sign[v].alone /\ sign'[w].alone = sign[w].alone
    BY <1>5 DEF Going
  <2>3. CASE Past(v) \/ Past(w)
    BY <2>1, <2>2, <2>3 DEF CodeInv, OncePast
  <2>4. CASE ~Past(v) /\ ~Past(w)
    <3>1. sign[v].step = "spend" /\ sign[w].step = "spend"
      BY <2>1, <2>4 DEF Past, Proven
    <3>2. sign[v].user = sign[w].user
      BY <2>1 DEF CodeInv, ProvenIssued
    <3> QED
      BY <2>2, <3>1, <3>2 DEF CodeInv, NoneBeside, Signing, SignedOff
  <2> QED
    BY <2>3, <2>4
<1> QED
  BY <1>6, <1>7, <1>8, <1>9, <1>10, <1>11, <1>12 DEF CodeInv

-----------------------------------------------------------------------------
(* What a step of administration does to groups                            *)

\* Before it joins, a request knows that its group has its role.
ReadySteps == {"lookup", "update", "post", "locate", "join"}

AdminMove(q) ==
  LET r == admin[q]
      n == admin'[q]
  IN
  /\ \A p \in AdminRequests \ {q} :
       /\ admin'[p].step = admin[p].step /\ admin'[p].target = admin[p].target
       /\ admin'[p].group = admin[p].group /\ admin'[p].account = admin[p].account
       /\ admin'[p].seen = admin[p].seen
       /\ admin'[p].alone => admin[p].alone
  /\ realm \subseteq realm' /\ mapped \subseteq mapped'
  /\ n.step = "map" => n.group \in realm' /\ PathRole(Path(n.group)) = TargetRole(n.target)
  /\ n.step \in ReadySteps =>
       /\ n.group = r.group
       /\ r.step \in ReadySteps \/ (r.step = "map" /\ <<r.group, TargetRole(r.target)>> \in mapped')
  /\ \/ member' = member
     \/ r.step = "join" /\ member' = [member EXCEPT ![r.account] = @ \cup {r.group}]
     \/ r.step = "leave" /\ \E g \in r.seen : member' = [member EXCEPT ![r.account] = @ \ {g}]
  /\ n.step \in {"list", "leave"} =>
       /\ n.group = r.group /\ n.account = r.account /\ n.alone = r.alone
       /\ \/ r.step = "join" /\ n.step = "list" /\ r.group \in member'[r.account]
          \/ r.step = "list" /\ n.step = "leave" /\ member' = member
             /\ \A g \in n.seen : Path(g) # Path(r.group) /\ _is_product_group_path(Path(g))
          \/ r.step = "leave" /\ n.step = "leave" /\ n.seen \subseteq r.seen
  /\ InProgress(q)' =>
       \/ InProgress(q) /\ n.account = r.account /\ n.alone = r.alone
       \/ \A p \in Beside(q, n.account) : ~n.alone /\ ~admin'[p].alone

LEMMA ActingMoves ==
  ASSUME TypeInv, NEW q \in AdminRequests, NEW u \in Users, NEW r \in AdminRecord,
         admin' = Acting(q, u, r), UNCHANGED <<realm, mapped, member>>,
         r.step \notin {"map", "list", "leave"},
         r.step \in ReadySteps => r.group = admin[q].group /\ admin[q].step \in ReadySteps
  PROVE  AdminMove(q)
<1> DEFINE a == IF Beside(q, u) = {} THEN r.alone ELSE FALSE
           r1 == [r EXCEPT !.account = u, !.alone = a]
<1>1. admin'[q] = r1
  BY DEF Acting
<1>2. \A p \in AdminRequests \ {q} :
        admin'[p] = IF p \in Others(q, u) THEN [admin[p] EXCEPT !.alone = FALSE] ELSE admin[p]
  BY DEF Acting
<1>3. /\ r1.step = r.step /\ r1.account = u /\ r1.group = r.group /\ r1.alone = a
  BY DEF AdminRecord
<1>4. \A p \in AdminRequests \ {q} :
        /\ admin'[p].step = admin[p].step /\ admin'[p].target = admin[p].target
        /\ admin'[p].group = admin[p].group /\ admin'[p].account = admin[p].account
        /\ admin'[p].seen = admin[p].seen
        /\ admin'[p].alone => admin[p].alone
        /\ p \in Others(q, u) => ~admin'[p].alone
  BY <1>2, ZenonT(60) DEF TypeInv, AdminTyped, AdminRecord
<1>5. \A p \in Beside(q, u) : ~a /\ ~admin'[p].alone
  <2>1. \A p \in Beside(q, u) : p \in Others(q, u) /\ p \in AdminRequests \ {q}
    BY DEF Beside, Others
  <2> QED
    BY <1>4, <2>1
<1> HIDE DEF a, r1
<1> QED
  BY <1>1, <1>3, <1>4, <1>5 DEF AdminMove

LEMMA GoesMoves ==
  ASSUME TypeInv, NEW q \in AdminRequests, NEW s \in AdminSteps, Goes(q, s)
  PROVE  /\ \A p \in AdminRequests \ {q} : admin'[p] = admin[p]
         /\ admin'[q].step = s /\ admin'[q].group = admin[q].group
         /\ admin'[q].account = admin[q].account /\ admin'[q].alone = admin[q].alone
         /\ admin'[q].target = admin[q].target /\ admin'[q].seen = admin[q].seen
BY DEF TypeInv, AdminTyped, AdminRecord, Goes

LEMMA EnsuresMoves ==
  ASSUME TypeInv, NEW q \in AdminRequests, NEW thing, Ensures(q, thing),
         admin[q].step \in {"find", "create"}, UNCHANGED <<mapped, member>>,
         realm \subseteq realm', thing \in realm',
         admin[q].at = Len(Ensured(admin[q].target)) =>
           PathRole(Path(thing)) = TargetRole(admin[q].target)
  PROVE  AdminMove(q)
<1> DEFINE r == admin[q]
<1>1. /\ r \in AdminRecord /\ Acceptable(r.target)
      /\ r.at \in 1..Len(Ensured(r.target)) /\ Len(Ensured(r.target)) \in Nat
  BY EnsuredTyped DEF TypeInv, AdminTyped, EnsuringShape, Shaped, AdminRecord
<1>2. /\ \A p \in AdminRequests \ {q} : admin'[p] = admin[p]
      /\ admin'[q].account = r.account /\ admin'[q].alone = r.alone
      /\ admin'[q].target = r.target
      /\ \/ admin'[q].step = "find"
         \/ admin'[q].step = "map" /\ admin'[q].group = thing
             /\ PathRole(Path(thing)) = TargetRole(r.target)
  BY <1>1 DEF Ensures, TypeInv, AdminTyped, AdminRecord
<1> QED
  BY <1>2 DEF AdminMove, ReadySteps, InProgress, Closed

LEMMA AdminMoves ==
  ASSUME TypeInv, NEW q \in AdminRequests, AdminStep(q)
  PROVE  AdminMove(q)
<1> DEFINE r == admin[q]
<1> USE DEF ReadySteps, Closed, AdminSteps
<1>0. /\ r \in AdminRecord /\ r.account \in Users
      /\ r.step \in {"find", "create"} => /\ Acceptable(r.target)
                                         /\ r.at \in 1..Len(Ensured(r.target))
  BY DEF TypeInv, AdminTyped, EnsuringShape, Shaped, AdminRecord
<1>g. ASSUME NEW s \in AdminSteps, Goes(q, s), UNCHANGED <<realm, mapped, member>>,
             InProgress(q), s \notin {"map", "list", "leave"},
             s \in ReadySteps => r.step \in ReadySteps
      PROVE  AdminMove(q)
  BY <1>g, GoesMoves DEF AdminMove
<1>1. CASE Provision(q)
  <2> PICK u \in Users, t \in Targets, on \in BOOLEAN :
        admin' = Acting(q, u, [IdleAdmin EXCEPT !.op = "provision", !.step = FirstStep(t),
                                                !.target = t, !.enabled = on])
    BY <1>1 DEF Provision
  <2> DEFINE r1 == [IdleAdmin EXCEPT !.op = "provision", !.step = FirstStep(t),
                                     !.target = t, !.enabled = on]
  <2>1. r1 \in AdminRecord /\ r1.step \in {"find", "refused"}
    BY IdleAdminTyped DEF AdminRecord, AdminOps, FirstStep, AccessTargets
  <2> HIDE DEF r1
  <2> QED
    BY <1>1, <2>1, ActingMoves DEF Provision, keycloakVars, r1
<1>2. CASE SetAccess(q)
  <2> PICK u \in Users, t \in Targets :
        admin' = Acting(q, u, [IdleAdmin EXCEPT !.op = "set_access", !.step = "user",
                                                !.target = t])
    BY <1>2 DEF SetAccess
  <2> DEFINE r1 == [IdleAdmin EXCEPT !.op = "set_access", !.step = "user", !.target = t]
  <2>1. r1 \in AdminRecord /\ r1.step = "user"
    BY IdleAdminTyped DEF AdminRecord, AdminOps, AccessTargets
  <2> HIDE DEF r1
  <2> QED
    BY <1>2, <2>1, ActingMoves DEF SetAccess, keycloakVars, r1
<1>3. CASE GetUser(q)
  <2>1. \E s \in {"find", "refused"} : Goes(q, s)
    BY <1>3 DEF GetUser, FirstStep
  <2> QED
    BY <1>3, <1>g, <2>1 DEF GetUser, InProgress, keycloakVars
<1>e. ASSUME r.step \in {"find", "create"}, r.at = Len(Ensured(r.target))
      PROVE  /\ Ensuring(q) = LeafGroup(r.target)
             /\ PathRole(Path(Ensuring(q))) = TargetRole(r.target)
  BY <1>0, <1>e, EnsuredTyped, LeafGroupTyped DEF Ensuring, AdminRecord
<1>4. CASE Find(q)
  <2>1. CASE Ensuring(q) \in realm
    BY <1>4, <1>e, <2>1, EnsuresMoves DEF Find, keycloakVars
  <2>2. CASE /\ Ensuring(q) \notin realm
             /\ Ensuring(q) = Global("super-admin") /\ FlatSuperAdmin \in realm
    <3>1. r.at = Len(Ensured(r.target)) => PathRole(Path(FlatSuperAdmin)) = TargetRole(r.target)
      <4>1. Path(Global("super-admin")) = Global("super-admin")
        BY DEF Path, Global, FlatSuperAdmin
      <4> QED
        BY <1>4, <1>e, <2>2, <4>1, FlatGroup DEF Find
    <3> QED
      BY <1>4, <2>2, <3>1, EnsuresMoves DEF Find, keycloakVars
  <2>3. CASE Goes(q, "create")
    BY <1>4, <1>g, <2>3 DEF Find, InProgress, keycloakVars
  <2> QED
    BY <1>4, <2>1, <2>2, <2>3 DEF Find
<1>5. CASE Create(q)
  BY <1>5, <1>e, EnsuresMoves DEF Create
<1>6. CASE MapRole(q)
  <2> DEFINE s == IF r.op = "provision" THEN "lookup" ELSE "join"
  <2>1. s \in AdminSteps /\ Goes(q, s) /\ s \in {"lookup", "join"}
    BY <1>6 DEF MapRole
  <2> HIDE DEF s
  <2> QED
    BY <1>6, <2>1, GoesMoves DEF MapRole, AdminMove, InProgress
<1>7. CASE Lookup(q)
  <2>1. \E s \in {"update", "post"} : Goes(q, s)
    BY <1>7 DEF Lookup
  <2> QED
    BY <1>7, <1>g, <2>1 DEF Lookup, InProgress, keycloakVars
<1>8. CASE Update(q)
  BY <1>8, <1>g DEF Update, InProgress
<1>9. CASE Post(q)
  <2>1. CASE Goes(q, "locate")
    BY <1>9, <1>g, <2>1 DEF Post, InProgress
  <2>2. CASE admin' = [admin EXCEPT ![q].step = "locate", ![q].made = TRUE]
    <3>1. /\ \A p \in AdminRequests \ {q} : admin'[p] = admin[p]
          /\ admin'[q].step = "locate" /\ admin'[q].group = r.group
          /\ admin'[q].account = r.account /\ admin'[q].alone = r.alone
      BY <2>2 DEF TypeInv, AdminTyped, AdminRecord
    <3> QED
      BY <1>9, <3>1 DEF Post, AdminMove, InProgress
  <2> QED
    BY <1>9, <2>1, <2>2 DEF Post
<1>10. CASE Locate(q)
  <2>1. CASE Goes(q, "error")
    BY <1>10, <1>g, <2>1 DEF Locate, InProgress, keycloakVars
  <2>2. CASE \E v \in Users : admin' = Acting(q, v, [r EXCEPT !.step = "join"])
    <3> DEFINE r1 == [r EXCEPT !.step = "join"]
    <3>1. r1 \in AdminRecord /\ r1.step = "join" /\ r1.group = r.group
      BY <1>0 DEF AdminRecord
    <3> HIDE DEF r1
    <3> QED
      BY <1>10, <2>2, <3>1, ActingMoves DEF Locate, keycloakVars, r1
  <2>3. {r.account} \cup Taken(r.account) \subseteq Users
    BY <1>0 DEF Taken
  <2> QED
    BY <1>10, <2>1, <2>2, <2>3 DEF Locate
<1>11. CASE Join(q)
  <2> DEFINE s == IF r.op = "provision" THEN "report" ELSE "list"
  <2>1. s \in AdminSteps /\ Goes(q, s) /\ s \in {"report", "list"}
    BY <1>11 DEF Join
  <2>2. /\ member' = [member EXCEPT ![r.account] = @ \cup {r.group}]
        /\ r.group \in member'[r.account]
    BY <1>0, <1>11 DEF Join, TypeInv, RealmTyped
  <2> HIDE DEF s
  <2> QED
    BY <1>11, <2>1, <2>2, GoesMoves DEF Join, AdminMove, InProgress
<1>12. CASE ListGroups(q)
  <2> DEFINE others == {g \in member[r.account] : /\ Path(g) # Path(r.group)
                                                  /\ _is_product_group_path(Path(g))}
  <2>1. /\ \A p \in AdminRequests \ {q} : admin'[p] = admin[p]
        /\ admin'[q].step = "leave" /\ admin'[q].group = r.group
        /\ admin'[q].account = r.account /\ admin'[q].alone = r.alone
        /\ admin'[q].seen = others
    BY <1>12 DEF ListGroups, TypeInv, AdminTyped, AdminRecord
  <2>2. \A g \in others : Path(g) # Path(r.group) /\ _is_product_group_path(Path(g))
    OBVIOUS
  <2> HIDE DEF others
  <2> QED
    BY <1>12, <2>1, <2>2 DEF ListGroups, keycloakVars, AdminMove, InProgress
<1>13. CASE Leave(q)
  <2> PICK g \in r.seen : /\ member' = [member EXCEPT ![r.account] = @ \ {g}]
                          /\ admin' = [admin EXCEPT ![q].seen = @ \ {g}]
    BY <1>13 DEF Leave
  <2>1. /\ \A p \in AdminRequests \ {q} : admin'[p] = admin[p]
        /\ admin'[q].step = "leave" /\ admin'[q].group = r.group
        /\ admin'[q].account = r.account /\ admin'[q].alone = r.alone
        /\ admin'[q].seen \subseteq r.seen
    BY <1>13 DEF Leave, TypeInv, AdminTyped, AdminRecord
  <2> QED
    BY <1>13, <2>1 DEF Leave, AdminMove, InProgress
<1>14. CASE ListRoles(q)
  <2>1. /\ \A p \in AdminRequests \ {q} : admin'[p] = admin[p]
        /\ admin'[q].step = "strip"
        /\ admin'[q].account = r.account /\ admin'[q].alone = r.alone
    BY <1>14 DEF ListRoles, TypeInv, AdminTyped, AdminRecord
  <2> QED
    BY <1>14, <2>1 DEF ListRoles, keycloakVars, AdminMove, InProgress
<1>15. CASE Strip(q)
  <2>1. /\ \A p \in AdminRequests \ {q} : admin'[p] = admin[p]
        /\ admin'[q].step = "strip"
        /\ admin'[q].account = r.account /\ admin'[q].alone = r.alone
    BY <1>15 DEF Strip, TypeInv, AdminTyped, AdminRecord
  <2> QED
    BY <1>15, <2>1 DEF Strip, AdminMove, InProgress
<1>16. CASE Report(q)
  BY <1>16, <1>g DEF Report, InProgress, keycloakVars
<1>17. CASE AdminFails(q)
  BY <1>17, <1>g DEF AdminFails, accountVars, realmVars
<1> QED
  BY <1>1, <1>2, <1>3, <1>4, <1>5, <1>6, <1>7, <1>8, <1>9, <1>10, <1>11, <1>12, <1>13,
     <1>14, <1>15, <1>16, <1>17 DEF AdminStep

-----------------------------------------------------------------------------
(* Groups have their roles, and an access is never lost half way           *)

RoleOn(g) == g \in realm /\ <<g, PathRole(Path(g))>> \in mapped

GroupsReady ==
  \A q \in AdminRequests :
    /\ admin[q].step = "map" =>
         /\ admin[q].group \in realm
         /\ PathRole(Path(admin[q].group)) = TargetRole(admin[q].target)
    /\ admin[q].step \in ReadySteps => RoleOn(admin[q].group)

GroupInv == GroupsReady /\ GroupsAreComplete

LEMMA MovesKeepGroups ==
  ASSUME TypeInv, TypeInv', GroupInv, NEW q \in AdminRequests, AdminMove(q)
  PROVE  GroupInv'
<1>1. \A g : RoleOn(g) => RoleOn(g)'
  BY DEF RoleOn, AdminMove
<1>2. GroupsReady'
  <2> SUFFICES ASSUME NEW p \in AdminRequests
               PROVE  /\ admin'[p].step = "map" =>
                           /\ admin'[p].group \in realm'
                           /\ PathRole(Path(admin'[p].group)) = TargetRole(admin'[p].target)
                      /\ admin'[p].step \in ReadySteps =>
                           /\ admin'[p].group \in realm'
                           /\ <<admin'[p].group, PathRole(Path(admin'[p].group))>> \in mapped'
    BY DEF GroupsReady, RoleOn
  <2>1. CASE p = q
    <3>1. admin[q].step = "map" => /\ admin[q].group \in realm'
                                   /\ PathRole(Path(admin[q].group)) = TargetRole(admin[q].target)
      BY DEF GroupInv, GroupsReady, AdminMove
    <3>2. admin[q].step \in ReadySteps =>
            /\ admin[q].group \in realm'
            /\ <<admin[q].group, PathRole(Path(admin[q].group))>> \in mapped'
      BY <1>1 DEF GroupInv, GroupsReady, RoleOn
    <3> QED
      BY <2>1, <3>1, <3>2 DEF AdminMove
  <2>2. CASE p # q
    BY <1>1, <2>2 DEF GroupInv, GroupsReady, RoleOn, AdminMove
  <2> QED
    BY <2>1, <2>2
<1>3. GroupsAreComplete'
  <2> SUFFICES ASSUME NEW u \in Users, NEW g \in member'[u], g \in LeafGroups
               PROVE  RoleOn(g)'
    BY DEF GroupsAreComplete, RoleOn
  <2>1. CASE g \in member[u]
    BY <1>1, <2>1 DEF GroupInv, GroupsAreComplete, RoleOn
  <2>2. CASE g \notin member[u]
    <3>1. admin[q].step = "join" /\ g = admin[q].group
      BY <2>2 DEF AdminMove, TypeInv, RealmTyped, AdminTyped, AdminRecord
    <3> QED
      BY <1>1, <3>1 DEF GroupInv, GroupsReady, ReadySteps
  <2> QED
    BY <2>1, <2>2
<1> QED
  BY <1>2, <1>3 DEF GroupInv

\* A change of access that nobody disturbs is in its group from the join on,
\* and leaves only others.
NoneActing ==
  \A p, q \in AdminRequests :
    p # q /\ InProgress(p) /\ InProgress(q) /\ admin[p].account = admin[q].account =>
      ~admin[p].alone

Moving ==
  \A q \in AdminRequests :
    /\ admin[q].step \in {"list", "leave"} /\ admin[q].alone =>
         admin[q].group \in member[admin[q].account]
    /\ admin[q].step = "leave" =>
         \A g \in admin[q].seen : /\ Path(g) # Path(admin[q].group)
                                  /\ _is_product_group_path(Path(g))

AccessInv == NoneActing /\ Moving

LEMMA MovesKeepAccess ==
  ASSUME TypeInv, TypeInv', AccessInv, NEW q \in AdminRequests, AdminMove(q)
  PROVE  AccessInv'
<1>1. NoneActing'
  <2> DEFINE B == {x \in AdminRequests : InProgress(x)}
             B2 == {x \in AdminRequests : admin'[x].step \notin Closed \cup {"idle"}}
             L == {x \in AdminRequests : admin[x].alone}
             L2 == {x \in AdminRequests : admin'[x].alone}
             c == [x \in AdminRequests |-> admin[x].account]
             c2 == [x \in AdminRequests |-> admin'[x].account]
  <2>1. \A x \in AdminRequests \ {q} : /\ x \in B2 => x \in B
                                       /\ x \in L2 => x \in L
                                       /\ c2[x] = c[x]
    BY DEF AdminMove, InProgress
  <2>2. \A x, y \in AdminRequests :
          x # y /\ x \in B /\ y \in B /\ c[x] = c[y] => x \notin L
    BY DEF AccessInv, NoneActing
  <2>3. \/ q \notin B2
        \/ q \in B /\ c2[q] = c[q] /\ (q \in L2 => q \in L)
        \/ \A x \in AdminRequests \ {q} : x \in B /\ c[x] = c2[q] => q \notin L2 /\ x \notin L2
    <3>1. CASE q \notin B2
      BY <3>1
    <3>2. CASE /\ InProgress(q) /\ admin'[q].account = admin[q].account
               /\ admin'[q].alone = admin[q].alone
      BY <3>2
    <3>3. CASE \A p \in Beside(q, admin'[q].account) : ~admin'[q].alone /\ ~admin'[p].alone
      <4>1. \A x \in AdminRequests \ {q} :
              InProgress(x) /\ admin[x].account = admin'[q].account =>
                x \in Beside(q, admin'[q].account)
        BY DEF Beside, Others, InProgress
      <4> QED
        BY <3>3, <4>1
    <3> QED
      BY <3>1, <3>2, <3>3 DEF AdminMove, InProgress
  <2>4. \A x, y \in AdminRequests :
          x # y /\ x \in B2 /\ y \in B2 /\ c2[x] = c2[y] => x \notin L2
    <3> HIDE DEF B, B2, L, L2, c, c2
    <3> SUFFICES ASSUME NEW x \in AdminRequests, NEW y \in AdminRequests,
                        x # y, x \in B2, y \in B2, c2[x] = c2[y]
                 PROVE  x \notin L2
      OBVIOUS
    <3>1. CASE x # q /\ y # q
      BY <2>1, <2>2, <3>1
    <3>2. CASE x = q
      BY <2>1, <2>2, <2>3, <3>2
    <3>3. CASE y = q
      BY <2>1, <2>2, <2>3, <3>3
    <3> QED
      BY <3>1, <3>2, <3>3
  <2> QED
    BY <2>4 DEF NoneActing, InProgress
<1>2. Moving'
  <2> SUFFICES ASSUME NEW p \in AdminRequests
               PROVE  /\ admin'[p].step \in {"list", "leave"} /\ admin'[p].alone =>
                           admin'[p].group \in member'[admin'[p].account]
                      /\ admin'[p].step = "leave" =>
                           \A g \in admin'[p].seen :
                             /\ Path(g) # Path(admin'[p].group)
                             /\ _is_product_group_path(Path(g))
    BY DEF Moving
  <2>0. /\ admin[q] \in AdminRecord /\ admin[q].account \in Users
        /\ admin[p].account \in Users
    BY DEF TypeInv, AdminTyped, AdminRecord
  <2>1. CASE p = q
    <3>1. admin'[q].step = "leave" =>
            \A g \in admin'[q].seen : /\ Path(g) # Path(admin'[q].group)
                                      /\ _is_product_group_path(Path(g))
      BY DEF AdminMove, AccessInv, Moving
    <3>2. ASSUME admin'[q].step \in {"list", "leave"}, admin'[q].alone
          PROVE  admin'[q].group \in member'[admin'[q].account]
      <4>1. CASE admin[q].step = "join"
        BY <3>2, <4>1 DEF AdminMove
      <4>2. CASE admin[q].step \in {"list", "leave"}
        <5>1. admin[q].group \in member[admin[q].account]
          BY <3>2, <4>2 DEF AdminMove, AccessInv, Moving
        <5>2. \A g \in admin[q].seen : admin[q].step = "leave" => g # admin[q].group
          BY DEF AccessInv, Moving
        <5>3. admin[q].group \in member'[admin[q].account]
          BY <2>0, <4>2, <5>1, <5>2 DEF AdminMove, TypeInv, RealmTyped
        <5> QED
          BY <3>2, <5>3 DEF AdminMove
      <4> QED
        BY <3>2, <4>1, <4>2 DEF AdminMove
    <3> QED
      BY <2>1, <3>1, <3>2
  <2>2. CASE p # q
    <3>1. /\ admin'[p].step = admin[p].step /\ admin'[p].group = admin[p].group
          /\ admin'[p].account = admin[p].account /\ admin'[p].seen = admin[p].seen
          /\ admin'[p].alone => admin[p].alone
      BY <2>2 DEF AdminMove
    <3>2. ASSUME admin[p].step \in {"list", "leave"}, admin[p].alone
          PROVE  admin[p].group \in member'[admin[p].account]
      <4>1. admin[p].group \in member[admin[p].account]
        BY <3>2 DEF AccessInv, Moving
      <4>2. ~(admin[q].step = "leave" /\ admin[q].account = admin[p].account)
        BY <2>2, <3>2 DEF AccessInv, NoneActing, InProgress, Closed
      <4> QED
        BY <2>0, <4>1, <4>2 DEF AdminMove, TypeInv, RealmTyped
    <3> QED
      BY <3>1, <3>2 DEF AccessInv, Moving
  <2> QED
    BY <2>1, <2>2
<1> QED
  BY <1>1, <1>2 DEF AccessInv

\* All leaf groups give an access.
LEMMA LeafGroupsAreProducts ==
  \A g \in LeafGroups : _is_product_group_path(Path(g))
<1> SUFFICES ASSUME NEW g \in LeafGroups
             PROVE  _is_product_group_path(Path(g))
  OBVIOUS
<1>1. CASE g = FlatSuperAdmin
  BY <1>1, FlatGroup DEF _is_product_group_path
<1>2. CASE g # FlatSuperAdmin /\ g \in {Global("super-admin"), Global("bh-viewer")}
  BY <1>2, FlatGroup DEF _is_product_group_path
<1>3. CASE g # FlatSuperAdmin /\ \E s \in States, r \in StateRoles :
             g = <<"states", s, group_leaf_for_role(r)>>
  BY <1>3, FlatGroup DEF _is_product_group_path
<1> QED
  BY <1>1, <1>2, <1>3 DEF LeafGroups

LEMMA MovesLeaveAnAccess ==
  ASSUME TypeInv, AccessInv, NEW q \in AdminRequests, AdminMove(q), NEW u \in Users
  PROVE  /\ \A g \in member[u] \ member'[u] : _is_product_group_path(Path(g))
         /\ Products(u) # {} /\ Products(u)' = {} =>
              \E p \in AdminRequests :
                InProgress(p) /\ admin[p].account = u /\ ~admin[p].alone
<1>0. admin[q].account \in Users /\ admin[q].group \in LeafGroups
  BY DEF TypeInv, AdminTyped, AdminRecord
<1>1. CASE member[u] \subseteq member'[u]
  BY <1>1 DEF Products
<1>2. CASE /\ admin[q].step = "leave" /\ u = admin[q].account
           /\ \E g \in admin[q].seen : member' = [member EXCEPT ![u] = @ \ {g}]
  <2> PICK g \in admin[q].seen : member' = [member EXCEPT ![u] = @ \ {g}]
    BY <1>2
  <2>1. member'[u] = member[u] \ {g}
    BY DEF TypeInv, RealmTyped
  <2>2. _is_product_group_path(Path(g)) /\ g # admin[q].group
    BY <1>2 DEF AccessInv, Moving
  <2>3. InProgress(q)
    BY <1>2 DEF InProgress, Closed
  <2>4. CASE admin[q].alone
    <3>1. admin[q].group \in member'[u]
      BY <1>2, <2>1, <2>2, <2>4 DEF AccessInv, Moving
    <3>2. admin[q].group \in Products(u)'
      BY <1>0, <3>1, LeafGroupsAreProducts DEF Products
    <3> QED
      BY <2>1, <2>2, <3>2
  <2>5. CASE ~admin[q].alone
    BY <1>2, <2>1, <2>2, <2>3, <2>5
  <2> QED
    BY <2>4, <2>5
<1> QED
  BY <1>0, <1>1, <1>2 DEF AdminMove, TypeInv, RealmTyped
-----------------------------------------------------------------------------
(* No used password stays                                                  *)

\* While no call has failed, the password for a grant is on the account for as
\* long as its request is at the grant or at the rotation after it.
PasswordInv ==
  /\ faults = 0 =>
       \A u \in Users : \A q \in SignIns : password[u] = <<q, 1>> =>
         sign[q].user = u /\ sign[q].step \in {"grant", "again"}
  /\ spent \subseteq SignIns \X {1}
  /\ \A q \in SignIns : sign[q].step = "grant" => sign[q].secret = <<q, 1>>

\* What an action of sign-in does to passwords.
Rotating(q) ==
  LET u == sign[q].user IN
  /\ \A p \in SignIns \ {q} :
       /\ sign'[p].step = sign[p].step /\ sign'[p].user = sign[p].user
       /\ sign'[p].secret = sign[p].secret
  /\ faults' = 0 => faults = 0
  /\ sign[q].step \in {"grant", "again"} => sign'[q].user = u
  /\ \/ /\ password' = password /\ spent' = spent /\ sign'[q].step # "grant"
        /\ faults' # 0 \/ sign[q].step \notin {"grant", "again"}
     \/ /\ sign[q].step = "rotate" /\ sign'[q].step = "grant" /\ sign'[q].user = u
        /\ password' = [password EXCEPT ![u] = <<q, 1>>] /\ sign'[q].secret = <<q, 1>>
        /\ spent' = spent
     \/ /\ sign[q].step = "grant" /\ sign'[q].step = "again" /\ password' = password
        /\ spent' = spent \cup {sign[q].secret}
     \/ /\ sign[q].step = "again" /\ sign'[q].step # "grant"
        /\ password' = [password EXCEPT ![u] = <<q, 2>>] /\ spent' = spent

LEMMA OthersSecrets ==
  ASSUME TypeInv, NEW q \in SignIns, Starting(q) \/ Going(q)
  PROVE  \A p \in SignIns \ {q} :
           /\ sign'[p].step = sign[p].step /\ sign'[p].user = sign[p].user
           /\ sign'[p].secret = sign[p].secret
<1>1. CASE Starting(q)
  <2>1. \A p \in SignIns \ {q} : sign[p] \in SignRecord
    BY DEF TypeInv, OtpTyped
  <2>2. \A p \in SignIns \ {q} : sign'[p] = sign[p] \/ sign'[p] = [sign[p] EXCEPT !.alone = FALSE]
    BY <1>1 DEF Starting
  <2> QED
    BY <2>1, <2>2 DEF SignRecord
<1>2. CASE Going(q)
  BY <1>2 DEF Going
<1> QED
  BY <1>1, <1>2

LEMMA SignInRotates ==
  ASSUME TypeInv, TypeInv', NEW q \in SignIns, SignInStep(q)
  PROVE  Rotating(q)
<1> DEFINE u == sign[q].user
<1>0. /\ sign[q] \in SignRecord /\ sign'[q].op \in {"send", "verify", "sso", "refresh"}
      /\ faults \in Nat /\ faults' \in Nat
  BY FaultsAssumption DEF TypeInv, OtpTyped, RealmTyped, SignRecord
<1>1. Starting(q) \/ Going(q)
  BY StartOrGo
<1>2. \A p \in SignIns \ {q} :
        /\ sign'[p].step = sign[p].step /\ sign'[p].user = sign[p].user
        /\ sign'[p].secret = sign[p].secret
  BY <1>1, OthersSecrets
<1>3. sign[q].step \in {"grant", "again"} => sign'[q].user = u
  BY <1>1 DEF Starting, Going
<1>f. Fault => faults' # 0
  BY <1>0 DEF Fault
<1>a. ASSUME UNCHANGED <<password, spent, faults>>, sign'[q].step # "grant",
             sign[q].step \notin {"grant", "again"}
      PROVE  Rotating(q)
  BY <1>2, <1>3, <1>a DEF Rotating
<1>b. ASSUME Fault, UNCHANGED <<password, spent>>, sign'[q].step # "grant"
      PROVE  Rotating(q)
  BY <1>2, <1>3, <1>b, <1>f DEF Rotating
<1>s. ASSUME sign[q].step = "idle", UNCHANGED <<password, spent, faults>>
      PROVE  Rotating(q)
  BY <1>0, <1>1, <1>s, <1>a DEF Starting, Going, Signing, SignedOff
<1>m. ASSUME NEW s, Moves(q, s)
      PROVE  sign'[q].step = s
  BY <1>m DEF Moves, TypeInv, OtpTyped, SignRecord
<1> USE DEF keycloakVars
<1>4. CASE RequestCode(q) \/ TypeCode(q) \/ ExchangeCode(q) \/ Refresh(q)
  BY <1>4, <1>s DEF RequestCode, TypeCode, ExchangeCode, Refresh
<1>5. CASE LookupUser(q)
  <2>1. sign'[q].step = "store"
    BY <1>5 DEF LookupUser, TypeInv, OtpTyped, SignRecord
  <2> QED
    BY <1>5, <1>a, <2>1 DEF LookupUser
<1>6. CASE StoreCode(q) \/ Mail(q) \/ DropRow(q) \/ CountAttempt(q) \/ SpendCode(q) \/ FindUser(q)
  <2>1. sign'[q].step # "grant"
    BY <1>6, <1>m DEF StoreCode, Mail, DropRow, CountAttempt, SpendCode, FindUser
  <2> QED
    BY <1>6, <1>a, <2>1 DEF StoreCode, Mail, DropRow, CountAttempt, SpendCode, FindUser
<1>7. CASE MailFails(q) \/ RotationFails(q) \/ SignInFails(q)
  BY <1>7, <1>b, <1>m DEF MailFails, RotationFails, SignInFails, Answered
<1>8. CASE Rotate(q)
  <2>1. sign'[q].step = "grant" /\ sign'[q].secret = <<q, 1>> /\ sign'[q].user = u
    BY <1>8 DEF Rotate, TypeInv, OtpTyped, SignRecord
  <2> QED
    BY <1>2, <1>3, <1>8, <2>1 DEF Rotate, Rotating
<1>9. CASE Grant(q)
  <2>1. sign'[q].step = "again"
    BY <1>9 DEF Grant, TypeInv, OtpTyped, SignRecord
  <2> QED
    BY <1>2, <1>3, <1>9, <2>1 DEF Grant, Rotating
<1>10. CASE RotateAgain(q)
  <2>1. sign'[q].step # "grant"
    BY <1>10, <1>m DEF RotateAgain, Answered
  <2> QED
    BY <1>2, <1>3, <1>10, <2>1 DEF RotateAgain, Rotating
<1> QED
  BY <1>4, <1>5, <1>6, <1>7, <1>8, <1>9, <1>10 DEF SignInStep

LEMMA RotatingKeepsPasswords ==
  ASSUME TypeInv, PasswordInv, NEW q \in SignIns, Rotating(q)
  PROVE  PasswordInv'
<1> DEFINE u == sign[q].user
<1>0. password \in [Users -> Secrets]
  BY DEF TypeInv, RealmTyped
<1>1. ASSUME faults' = 0, NEW v \in Users, NEW p \in SignIns, password'[v] = <<p, 1>>
      PROVE  sign'[p].user = v /\ sign'[p].step \in {"grant", "again"}
  <2>1. faults = 0
    BY <1>1 DEF Rotating
  <2>2. CASE password'[v] = password[v]
    <3>1. sign[p].user = v /\ sign[p].step \in {"grant", "again"}
      BY <1>1, <2>1, <2>2 DEF PasswordInv
    <3>2. CASE p # q
      BY <3>1, <3>2 DEF Rotating
    <3>3. CASE p = q
      <4>1. sign'[q].user = v
        BY <3>1, <3>3 DEF Rotating
      <4>2. CASE sign'[q].step = "again"
        BY <3>3, <4>1, <4>2
      <4>3. CASE password' = [password EXCEPT ![u] = <<q, 2>>]
        <5>1. password'[v] = <<q, 2>>
          BY <1>0, <3>1, <3>3, <4>3
        <5> QED
          BY <1>1, <3>3, <5>1
      <4> QED
        BY <1>1, <3>1, <3>3, <4>1, <4>2, <4>3 DEF Rotating
    <3> QED
      BY <3>2, <3>3
  <2>3. CASE password'[v] # password[v]
    <3>1. v = u /\ (password'[v] = <<q, 1>> \/ password'[v] = <<q, 2>>)
      BY <1>0, <2>3 DEF Rotating
    <3>2. password'[v] = <<q, 1>> /\ p = q
      BY <1>1, <3>1
    <3>3. sign'[q].step = "grant" /\ sign'[q].user = u
      BY <1>0, <2>3, <3>2 DEF Rotating
    <3> QED
      BY <3>1, <3>2, <3>3
  <2> QED
    BY <2>2, <2>3
<1>2. spent' \subseteq SignIns \X {1}
  <2>1. spent \subseteq SignIns \X {1}
    BY DEF PasswordInv
  <2>2. CASE spent' = spent
    BY <2>1, <2>2
  <2>3. CASE sign[q].step = "grant" /\ spent' = spent \cup {sign[q].secret}
    <3>1. sign[q].secret = <<q, 1>>
      BY <2>3 DEF PasswordInv
    <3>2. <<q, 1>> \in SignIns \X {1}
      OBVIOUS
    <3> QED
      BY <2>1, <2>3, <3>1, <3>2
  <2> QED
    BY <2>2, <2>3 DEF Rotating
<1>3. ASSUME NEW p \in SignIns, sign'[p].step = "grant"
      PROVE  sign'[p].secret = <<p, 1>>
  <2>1. CASE p = q
    BY <1>3, <2>1 DEF Rotating
  <2>2. CASE p # q
    BY <1>3, <2>2 DEF Rotating, PasswordInv
  <2> QED
    BY <2>1, <2>2
<1> QED
  BY <1>1, <1>2, <1>3 DEF PasswordInv

LEMMA PasswordsKept ==
  ASSUME PasswordInv, faults' = 0 => faults = 0, UNCHANGED <<password, spent, sign>>
  PROVE  PasswordInv'
BY DEF PasswordInv

LEMMA SpentPasswords ==
  ASSUME TypeInv, PasswordInv
  PROVE  SpentPasswordIsDead
<1> SUFFICES ASSUME faults = 0, NEW u \in Users, password[u] \in spent
             PROVE  \E q \in SignIns : sign[q].user = u /\ Signing(q)
  BY DEF SpentPasswordIsDead
<1>1. PICK q \in SignIns : password[u] = <<q, 1>>
  BY DEF PasswordInv
<1>2. sign[q].user = u /\ sign[q].step \in {"grant", "again"}
  BY <1>1 DEF PasswordInv
<1> QED
  BY <1>2 DEF Signing, SignedOff
-----------------------------------------------------------------------------
(* The specification                                                       *)

IInv == TypeInv /\ CodeInv /\ GroupInv /\ AccessInv /\ PasswordInv

LEMMA LeafRole ==
  ASSUME NEW g \in LeafGroups
  PROVE  PathRole(Path(g)) \in Roles
<1>1. CASE g = FlatSuperAdmin
  BY <1>1, FlatGroup DEF PathRole, Global, normalize_role, Roles
<1>2. CASE g # FlatSuperAdmin /\ g \in {Global("super-admin"), Global("bh-viewer")}
  BY <1>2, FlatGroup DEF PathRole, Global, normalize_role, Roles
<1>3. CASE g # FlatSuperAdmin /\ \E s \in States, r \in StateRoles :
             g = <<"states", s, group_leaf_for_role(r)>>
  <2> PICK s \in States, r \in StateRoles : g = <<"states", s, group_leaf_for_role(r)>>
    BY <1>3
  <2>1. Path(g) = <<"states", s, group_leaf_for_role(r)>>
    BY <1>3, FlatGroup
  <2>2. PathRole(Path(g)) = normalize_role(group_leaf_for_role(r))
    BY <2>1 DEF PathRole
  <2>3. normalize_role(group_leaf_for_role(r)) \in Roles
    BY DEF group_leaf_for_role, normalize_role, StateRoles, Roles
  <2> QED
    BY <2>2, <2>3
<1> QED
  BY <1>1, <1>2, <1>3 DEF LeafGroups

LEMMA InitTyped ==
  ASSUME Init
  PROVE  TypeInv
<1>1. /\ scene.realm \subseteq Things
      /\ scene.groups \subseteq scene.realm \cap (LeafGroups \cup {<<"staff">>})
      /\ scene.roles \subseteq Roles \cup DefaultRoles
  BY ScenesAssumption DEF Init
<1>2. RealmTyped
  <2>1. mapped \subseteq (LeafGroups \X Roles)
    BY LeafRole DEF Init
  <2>2. exists \in [Users -> BOOLEAN] /\ enabled \in [Users -> BOOLEAN]
    BY DEF Init
  <2>3. member \in [Users -> SUBSET (LeafGroups \cup {<<"staff">>})]
    BY <1>1 DEF Init
  <2>4. direct \in [Users -> SUBSET (Roles \cup DefaultRoles)]
    BY <1>1 DEF Init
  <2>5. password \in [Users -> Secrets]
    BY DEF Init, Secrets
  <2>6. realm \subseteq Things /\ faults \in 0..MaxFaults
    BY <1>1, FaultsAssumption DEF Init
  <2> QED
    BY <2>1, <2>2, <2>3, <2>4, <2>5, <2>6 DEF RealmTyped
<1>3. AdminTyped
  <2>1. IdleAdmin.step = "idle"
    BY DEF IdleAdmin
  <2> QED
    BY <2>1, IdleAdminTyped DEF Init, AdminInit, AdminTyped, EnsuringShape, Shaped
<1>4. OtpTyped
  <2>1. IdleSignIn.at = 0
    BY DEF IdleSignIn
  <2> QED
    BY <2>1, IdleSignInTyped, NoRowTyped, OtpAssumption DEF Init, OtpInit, OtpTyped
<1> QED
  BY <1>2, <1>3, <1>4 DEF TypeInv

LEMMA InitIInv ==
  ASSUME Init
  PROVE  IInv
<1>1. TypeInv
  BY InitTyped
<1>2. \A q \in SignIns : /\ sign[q].op = "send" /\ sign[q].code = NoCode
                         /\ sign[q].step = "idle" /\ ~sign[q].granted
  BY DEF Init, OtpInit, IdleSignIn
<1>3. \A q \in AdminRequests : admin[q].step = "idle"
  BY DEF Init, AdminInit, IdleAdmin
<1>4. CodeInv
  <2>1. \A u \in Users : inbox[u] = {} /\ email_otps[u].code \notin SignIns
    BY CodesAssumption DEF Init, OtpInit, NoRow
  <2> QED
    BY <1>2, <2>1
    DEF CodeInv, OwnCode, StepsOfOps, SendSteps, VerifySteps, InboxIssued, RowIssued,
        ProvenIssued, SpentGone, NoneBeside, OncePast, Proven, Past, Signing
<1>5. GroupInv
  <2>1. GroupsReady
    BY <1>3 DEF GroupsReady, ReadySteps
  <2>2. GroupsAreComplete
    <3> SUFFICES ASSUME NEW u \in Users, NEW g \in member[u], g \in LeafGroups
                 PROVE  g \in realm /\ <<g, PathRole(Path(g))>> \in mapped
      BY DEF GroupsAreComplete
    <3>1. g \in scene.groups
      BY DEF Init
    <3>2. g \in scene.realm
      BY <3>1, ScenesAssumption DEF Init
    <3> QED
      BY <3>2 DEF Init
  <2> QED
    BY <2>1, <2>2 DEF GroupInv
<1>6. AccessInv
  BY <1>3 DEF AccessInv, NoneActing, Moving, InProgress
<1>7. PasswordInv
  <2>1. \A u \in Users, q \in SignIns : password[u] # <<q, 1>>
    BY DEF Init, NoPassword
  <2>2. spent = {}
    BY DEF Init, OtpInit
  <2> QED
    BY <1>2, <2>1, <2>2 DEF PasswordInv
<1> QED
  BY <1>1, <1>4, <1>5, <1>6, <1>7 DEF IInv

LEMMA GroupsKept ==
  ASSUME GroupInv, AccessInv, UNCHANGED <<realm, mapped, member, admin>>
  PROVE  GroupInv' /\ AccessInv'
BY DEF GroupInv, GroupsReady, GroupsAreComplete, RoleOn, AccessInv, NoneActing, Moving,
       InProgress

\* Sign-in touches passwords and counts failed calls, nothing else of the realm.
LEMMA SignInLeavesGroups ==
  ASSUME NEW q \in SignIns, SignInStep(q)
  PROVE  UNCHANGED <<realm, mapped, member>>
BY DEF SignInStep, RequestCode, LookupUser, StoreCode, Mail, MailFails, TypeCode, DropRow,
       CountAttempt, SpendCode, FindUser, Rotate, Grant, RotateAgain, RotationFails,
       SignInFails, ExchangeCode, Refresh, keycloakVars, realmVars, accountVars

\* Administration leaves passwords alone.
LEMMA AdminLeavesPasswords ==
  ASSUME TypeInv, NEW q \in AdminRequests, AdminStep(q)
  PROVE  password' = password /\ (faults' = 0 => faults = 0)
<1>1. CASE AdminFails(q)
  <2>1. faults \in Nat
    BY FaultsAssumption DEF TypeInv, RealmTyped
  <2> QED
    BY <1>1, <2>1 DEF AdminFails, Fault
<1>2. CASE Provision(q) \/ SetAccess(q) \/ GetUser(q) \/ Find(q) \/ Lookup(q) \/ Locate(q)
  BY <1>2 DEF Provision, SetAccess, GetUser, Find, Lookup, Locate, keycloakVars
<1>3. CASE ListGroups(q) \/ ListRoles(q) \/ Report(q)
  BY <1>3 DEF ListGroups, ListRoles, Report, keycloakVars
<1>4. CASE Create(q) \/ MapRole(q) \/ Update(q) \/ Post(q) \/ Join(q) \/ Leave(q) \/ Strip(q)
  BY <1>4 DEF Create, MapRole, Update, Post, Join, Leave, Strip
<1> QED
  BY <1>1, <1>2, <1>3, <1>4 DEF AdminStep

LEMMA NextTyped ==
  ASSUME IInv, [Next]_vars
  PROVE  TypeInv'
<1> USE DEF IInv
<1>1. CASE \E q \in AdminRequests : AdminStep(q) /\ UNCHANGED otpVars
  <2>1. RealmTyped' /\ AdminTyped'
    BY <1>1, AdminStepTyped
  <2>2. OtpTyped'
    BY <1>1 DEF TypeInv, OtpTyped, otpVars
  <2> QED
    BY <2>1, <2>2 DEF TypeInv
<1>2. CASE \E q \in SignIns : SignInStep(q) /\ UNCHANGED admin
  <2>1. RealmTyped' /\ OtpTyped'
    BY <1>2, SignInStepTyped DEF CodeInv
  <2>2. AdminTyped'
    BY <1>2 DEF TypeInv, AdminTyped, EnsuringShape, Shaped
  <2> QED
    BY <2>1, <2>2 DEF TypeInv
<1>3. CASE Tick /\ UNCHANGED admin
  <2>1. now' \in 0..MaxTime /\ now <= now'
    BY <1>3, OtpAssumption DEF Tick, TypeInv, OtpTyped
  <2>2. OtpTyped'
    <3>1. \A q \in SignIns : sign[q].at \in Nat /\ now \in Nat /\ now' \in Nat
      BY <2>1, OtpAssumption DEF TypeInv, OtpTyped, SignRecord
    <3>2. \A q \in SignIns : sign'[q].at <= now'
      BY <1>3, <2>1, <3>1 DEF Tick, TypeInv, OtpTyped
    <3> QED
      BY <1>3, <2>1, <3>2 DEF Tick, TypeInv, OtpTyped
  <2>3. RealmTyped' /\ AdminTyped'
    BY <1>3 DEF Tick, keycloakVars, TypeInv, RealmTyped, AdminTyped, EnsuringShape, Shaped
  <2> QED
    BY <2>2, <2>3 DEF TypeInv
<1>4. CASE UNCHANGED vars
  BY <1>4
  DEF vars, keycloakVars, otpVars, TypeInv, RealmTyped, AdminTyped, EnsuringShape, Shaped,
      OtpTyped
<1> QED
  BY <1>1, <1>2, <1>3, <1>4 DEF Next

LEMMA NextIInv ==
  ASSUME IInv, [Next]_vars
  PROVE  IInv'
<1> USE DEF IInv
<1>0. TypeInv'
  BY NextTyped
<1>1. ASSUME NEW q \in AdminRequests, AdminStep(q), UNCHANGED otpVars
      PROVE  IInv'
  <2>1. AdminMove(q)
    BY <1>1, AdminMoves
  <2>2. CodeInv'
    BY <1>1, CodesKept DEF otpVars
  <2>3. GroupInv' /\ AccessInv'
    BY <1>0, <2>1, MovesKeepGroups, MovesKeepAccess
  <2>4. PasswordInv'
    BY <1>1, AdminLeavesPasswords, PasswordsKept DEF otpVars
  <2> QED
    BY <1>0, <2>2, <2>3, <2>4
<1>2. ASSUME NEW q \in SignIns, SignInStep(q), UNCHANGED admin
      PROVE  IInv'
  <2>1. CodeInv'
    BY <1>0, <1>2, StartOrGo, StartingKeepsCodes, GoingKeepsCodes
  <2>2. GroupInv' /\ AccessInv'
    BY <1>2, SignInLeavesGroups, GroupsKept
  <2>3. PasswordInv'
    BY <1>0, <1>2, SignInRotates, RotatingKeepsPasswords
  <2> QED
    BY <1>0, <2>1, <2>2, <2>3
<1>3. ASSUME UNCHANGED <<email_otps, inbox, sign, spent, keycloakVars, admin>>
      PROVE  IInv'
  <2>1. CodeInv'
    BY <1>3, CodesKept
  <2>2. GroupInv' /\ AccessInv'
    BY <1>3, GroupsKept DEF keycloakVars
  <2>3. PasswordInv'
    BY <1>3, PasswordsKept DEF keycloakVars
  <2> QED
    BY <1>0, <2>1, <2>2, <2>3
<1> QED
  BY <1>1, <1>2, <1>3 DEF Next, Tick, vars, otpVars

LEMMA Invariance == Spec => []IInv
<1>1. Init => IInv
  BY InitIInv
<1>2. IInv /\ [Next]_vars => IInv'
  BY NextIInv
<1> QED
  BY <1>1, <1>2, PTL DEF Spec

\* Every part of the state keeps its type: a request that looks for or creates
\* something is at a part of an access the code accepts, and a session that was
\* granted has roles of the six (keycloak_admin.py, email_otp.py).
THEOREM AccountsTypeCorrect == Spec => []TypeOK
<1>1. IInv => TypeOK
  <2> SUFFICES ASSUME IInv
               PROVE  TypeOK
    OBVIOUS
  <2> USE DEF IInv, TypeInv
  <2>1. AdminTypeOK
    <3>1. \A q \in AdminRequests : admin[q] \in AdminRecord /\ Shaped(admin[q])
      BY DEF AdminTyped, EnsuringShape
    <3>2. \A q \in AdminRequests :
            /\ admin[q].op \in AdminOps
            /\ admin[q].account \in Users
            /\ admin[q].group \in LeafGroups
            /\ admin[q].seen \subseteq Things
            /\ {admin[q].enabled, admin[q].made, admin[q].alone} \subseteq BOOLEAN
            /\ admin[q].step \in {"find", "create", "map"} =>
                 admin[q].at \in 1..Len(Ensured(admin[q].target))
      BY <3>1 DEF AdminRecord, Shaped
    <3> QED
      BY <3>2 DEF AdminTypeOK, RealmTyped
  <2>2. OtpTypeOK
    <3>1. \A u \in Users :
            /\ email_otps[u].attempts \in Nat
            /\ email_otps[u].expires \in 0..MaxTime + OTP_TTL_SECONDS
            /\ inbox[u] \subseteq SignIns
            /\ password[u] \in {NoPassword} \cup (SignIns \X {1, 2})
      BY DEF OtpTyped, RealmTyped, Row, Secrets
    <3>2. \A q \in SignIns :
            /\ sign[q].user \in Users
            /\ sign[q].at \in 0..now
            /\ sign[q].granted => sign[q].token.roles \subseteq Roles
      BY OtpAssumption DEF OtpTyped, SignRecord, Tokens
    <3> QED
      BY <3>1, <3>2 DEF OtpTypeOK, OtpTyped
  <2> QED
    BY <2>1, <2>2 DEF TypeOK
<1> QED
  BY <1>1, Invariance, PTL

\* Whatever the order of the calls of any number of requests, and whichever of
\* them fail: nobody is in a group whose role does not exist or is not on it
\* (ensure_access_group).
THEOREM GroupsHaveTheirRoles == Spec => []GroupsAreComplete
<1>1. IInv => GroupsAreComplete
  BY DEF IInv, GroupInv
<1> QED
  BY <1>1, Invariance, PTL

\* Two sessions never come of one code, unless the two requests were beside
\* each other (verify_otp reads the row once and deletes it later).
THEOREM CodesSignInOnce == Spec => []CodeSignsInOnce
<1>1. IInv => CodeSignsInOnce
  BY DEF IInv, CodeInv, OncePast, Past, Proven, CodeSignsInOnce
<1> QED
  BY <1>1, Invariance, PTL

\* When nobody is signing in to an account, its password is none a grant was
\* asked with, unless a call failed (_mint_tokens_for_verified_email).
THEOREM NoUsedPasswordStays == Spec => []SpentPasswordIsDead
<1>1. IInv => SpentPasswordIsDead
  BY SpentPasswords DEF IInv
<1> QED
  BY <1>1, Invariance, PTL

\* A step that takes the last access of an account takes two requests that act
\* on it at once, and no step takes a group that gives no access
\* (set_user_access joins before it leaves).
THEOREM NobodyIsLeftWithout == Spec => NeverWithoutAccess
<1> DEFINE Kept ==
      \A u \in Users :
        /\ \A g \in member[u] \ member'[u] : _is_product_group_path(Path(g))
        /\ Products(u) # {} /\ Products(u)' = {} =>
             \E q \in AdminRequests :
               InProgress(q) /\ admin[q].account = u /\ ~admin[q].alone
<1>1. IInv /\ [Next]_vars => [Kept]_<<keycloakVars, admin>>
  <2> SUFFICES ASSUME IInv, [Next]_vars
               PROVE  [Kept]_<<keycloakVars, admin>>
    OBVIOUS
  <2>1. ASSUME NEW q \in AdminRequests, AdminStep(q)
        PROVE  Kept
    BY <2>1, AdminMoves, MovesLeaveAnAccess DEF IInv
  <2>2. ASSUME member' = member
        PROVE  Kept
    BY <2>2 DEF Products
  <2>3. ASSUME NEW q \in SignIns, SignInStep(q)
        PROVE  Kept
    BY <2>2, <2>3, SignInLeavesGroups
  <2> HIDE DEF Kept
  <2> QED
    BY <2>1, <2>2, <2>3 DEF Next, Tick, vars, keycloakVars
<1> QED
  BY <1>1, Invariance, PTL DEF Spec, NeverWithoutAccess

-----------------------------------------------------------------------------
(* What a step of administration does to accounts                          *)

\* What a step of request q leaves to the others.
AccountMove(q) ==
  LET r == admin[q]
      n == admin'[q]
  IN
  /\ \A p \in AdminRequests \ {q} :
       /\ admin'[p].step = admin[p].step /\ admin'[p].target = admin[p].target
       /\ admin'[p].group = admin[p].group /\ admin'[p].account = admin[p].account
       /\ admin'[p].seen = admin[p].seen /\ admin'[p].op = admin[p].op
       /\ admin'[p].made = admin[p].made
       /\ admin'[p].alone => admin[p].alone
  /\ \/ InProgress(q) /\ n.account = r.account /\ n.alone = r.alone
     \/ /\ \A p \in Others(q, n.account) : ~admin'[p].alone
        /\ Beside(q, n.account) # {} => ~n.alone
  /\ \A u \in Users :
       /\ exists[u] => exists'[u]
       /\ \/ member'[u] = member[u] /\ direct'[u] = direct[u]
          \/ u = r.account /\ r.step \in {"join", "leave", "strip"}
  /\ \/ mapped' = mapped
     \/ r.step = "map" /\ mapped' = mapped \cup {<<r.group, TargetRole(r.target)>>}

\* A request that begins, or turns to another account.
LEMMA ActingAccounts ==
  ASSUME TypeInv, NEW q \in AdminRequests, NEW u \in Users, NEW r \in AdminRecord,
         admin' = Acting(q, u, r), UNCHANGED <<mapped, exists, member, direct>>
  PROVE  /\ AccountMove(q)
         /\ admin'[q].step = r.step /\ admin'[q].op = r.op /\ admin'[q].made = r.made
         /\ admin'[q].target = r.target /\ admin'[q].group = r.group
         /\ admin'[q].seen = r.seen /\ admin'[q].account = u
         /\ admin'[q].alone => r.alone
<1> DEFINE a == IF Beside(q, u) = {} THEN r.alone ELSE FALSE
           r1 == [r EXCEPT !.account = u, !.alone = a]
<1>1. admin'[q] = r1
  BY DEF Acting
<1>2. \A p \in AdminRequests \ {q} :
        admin'[p] = IF p \in Others(q, u) THEN [admin[p] EXCEPT !.alone = FALSE] ELSE admin[p]
  BY DEF Acting
<1>3. /\ r1.step = r.step /\ r1.account = u /\ r1.group = r.group /\ r1.alone = a
      /\ r1.op = r.op /\ r1.made = r.made /\ r1.target = r.target /\ r1.seen = r.seen
  BY DEF AdminRecord
<1>4. \A p \in AdminRequests \ {q} :
        /\ admin'[p].step = admin[p].step /\ admin'[p].target = admin[p].target
        /\ admin'[p].group = admin[p].group /\ admin'[p].account = admin[p].account
        /\ admin'[p].seen = admin[p].seen /\ admin'[p].op = admin[p].op
        /\ admin'[p].made = admin[p].made
        /\ admin'[p].alone => admin[p].alone
        /\ p \in Others(q, u) => ~admin'[p].alone
  BY <1>2, ZenonT(60) DEF TypeInv, AdminTyped, AdminRecord
<1>5. \A p \in Others(q, u) : ~admin'[p].alone
  BY <1>4 DEF Others
<1>6. (Beside(q, u) # {} => ~a) /\ (a => r.alone)
  OBVIOUS
<1> HIDE DEF a, r1
<1> QED
  BY <1>1, <1>3, <1>4, <1>5, <1>6 DEF AccountMove

\* Any other step changes its own request and keeps its account.
LEMMA OwnStepAccounts ==
  ASSUME TypeInv, NEW q \in AdminRequests, InProgress(q),
         \A p \in AdminRequests \ {q} : admin'[p] = admin[p],
         admin'[q].account = admin[q].account, admin'[q].alone = admin[q].alone,
         \A u \in Users :
           /\ exists[u] => exists'[u]
           /\ \/ member'[u] = member[u] /\ direct'[u] = direct[u]
              \/ u = admin[q].account /\ admin[q].step \in {"join", "leave", "strip"},
         \/ mapped' = mapped
         \/ /\ admin[q].step = "map"
            /\ mapped' = mapped \cup {<<admin[q].group, TargetRole(admin[q].target)>>}
  PROVE  AccountMove(q)
BY DEF AccountMove

LEMMA GoesFields ==
  ASSUME TypeInv, NEW q \in AdminRequests, NEW s, Goes(q, s)
  PROVE  /\ \A p \in AdminRequests \ {q} : admin'[p] = admin[p]
         /\ admin'[q].step = s /\ admin'[q].group = admin[q].group
         /\ admin'[q].account = admin[q].account /\ admin'[q].alone = admin[q].alone
         /\ admin'[q].target = admin[q].target /\ admin'[q].seen = admin[q].seen
         /\ admin'[q].op = admin[q].op /\ admin'[q].made = admin[q].made
BY DEF TypeInv, AdminTyped, AdminRecord, Goes

Course(q) == Aimed(q) /\ OnItsWay(q) /\ Placed(q) /\ Settled(q)

\* What holds of a request and what it has done; a call may fail, nothing else does.
OwnCourse(q) ==
  /\ AccountMove(q)
  /\ Course(q)'
  /\ admin'[q].step = "error" => faults' # 0

\* A request that moves on with nothing but its step.
LEMMA GoesOn ==
  ASSUME TypeInv, NEW q \in AdminRequests, NEW s \in AdminSteps, Goes(q, s), InProgress(q),
         UNCHANGED <<mapped, exists, member, direct>>, Course(q),
         s = "error" => faults' # 0,
         s \in {"map", "lookup", "update", "post", "locate", "join", "list", "leave",
                "strip", "report", "ok"} =>
           admin[q].step \in {"map", "lookup", "update", "post", "locate", "join", "list", "leave",
                "strip", "report", "ok"},
         s \in {"lookup", "update", "post", "locate", "report"} => admin[q].op = "provision",
         s \in {"user", "list", "leave", "strip"} => admin[q].op = "set_access",
         admin[q].made => s \in {"report"} \cup Closed,
         s \in {"update", "join", "report", "list", "leave", "strip"} =>
           exists[admin[q].account],
         admin[q].op = "set_access" /\ s \in {"find", "create", "map"} =>
           exists[admin[q].account],
         s = "locate" => Taken(admin[q].account) # {},
         s \in {"list", "leave"} => FALSE,
         s = "ok" => /\ admin[q].made => admin[q].step = "report"
                     /\ admin[q].op = "set_access" =>
                          admin[q].step = "strip" /\ admin[q].seen = {},
         s \in {"strip", "report"} => FALSE
  PROVE  OwnCourse(q)
<1> DEFINE r == admin[q]
<1>1. /\ \A p \in AdminRequests \ {q} : admin'[p] = admin[p]
      /\ admin'[q].step = s /\ admin'[q].group = r.group
      /\ admin'[q].account = r.account /\ admin'[q].alone = r.alone
      /\ admin'[q].target = r.target /\ admin'[q].seen = r.seen
      /\ admin'[q].op = r.op /\ admin'[q].made = r.made
  BY GoesFields
<1>2. AccountMove(q)
  BY <1>1, OwnStepAccounts
<1>3. Aimed(q)'
  BY <1>1 DEF Course, Aimed
<1>4. OnItsWay(q)'
  BY <1>1 DEF Course, OnItsWay
<1>5. Placed(q)'
  BY <1>1 DEF Course, Placed, Taken
<1>6. Settled(q)'
  <2>1. OtherGroups(q)' = OtherGroups(q)
    BY <1>1 DEF OtherGroups
  <2> SUFFICES ASSUME r.alone
               PROVE  /\ r.op = "set_access" =>
                          /\ s \in {"list", "leave", "strip", "ok"} => r.group \in member[r.account]
                          /\ s = "leave" => OtherGroups(q) \subseteq r.seen
                          /\ s \in {"strip", "ok"} => OtherGroups(q) = {}
                          /\ s = "strip" => {RealmRole(x) : x \in direct[r.account] \ DefaultRoles} \subseteq r.seen
                          /\ s = "ok" => direct[r.account] \subseteq DefaultRoles
                      /\ r.made =>
                          /\ direct[r.account] = {}
                          /\ s \in {"locate", "join"} => member[r.account] = {}
                          /\ s \in {"report", "ok"} => member[r.account] = {r.group}
    BY <1>1, <2>1 DEF Settled
  <2>2. r.op = "set_access" /\ s = "ok" =>
          /\ r.group \in member[r.account] /\ OtherGroups(q) = {}
          /\ direct[r.account] \subseteq DefaultRoles
    <3> SUFFICES ASSUME r.op = "set_access", s = "ok"
                 PROVE  /\ r.group \in member[r.account] /\ OtherGroups(q) = {}
                        /\ direct[r.account] \subseteq DefaultRoles
      OBVIOUS
    <3>1. r.step = "strip" /\ r.seen = {}
      OBVIOUS
    <3>2. {RealmRole(x) : x \in direct[r.account] \ DefaultRoles} \subseteq {}
      BY <3>1 DEF Course, Settled
    <3>3. \A x \in direct[r.account] \ DefaultRoles :
            RealmRole(x) \in {RealmRole(y) : y \in direct[r.account] \ DefaultRoles}
      OBVIOUS
    <3> QED
      BY <3>1, <3>2, <3>3 DEF Course, Settled
  <2>3. r.made => /\ direct[r.account] = {}
                  /\ s = "ok" => member[r.account] = {r.group}
    BY DEF Course, Settled
  <2> QED
    BY <2>2, <2>3 DEF Closed
<1> QED
  BY <1>1, <1>2, <1>3, <1>4, <1>5, <1>6 DEF OwnCourse, Course

\* A request that comes in.
LEMMA BeginsCourse ==
  ASSUME TypeInv, NEW q \in AdminRequests, NEW u \in Users, NEW r \in AdminRecord,
         admin' = Acting(q, u, r), UNCHANGED <<mapped, exists, member, direct>>,
         ~r.made,
         \/ r.op = "set_access" /\ r.step = "user"
         \/ r.op = "provision" /\ r.step \in {"find", "refused"}
  PROVE  OwnCourse(q)
<1>1. /\ AccountMove(q)
      /\ admin'[q].step = r.step /\ admin'[q].op = r.op /\ admin'[q].made = r.made
  BY ActingAccounts
<1>2. Aimed(q)' /\ OnItsWay(q)' /\ Placed(q)' /\ Settled(q)'
  BY <1>1 DEF Aimed, OnItsWay, Placed, Settled
<1> QED
  BY <1>1, <1>2 DEF OwnCourse, Course

\* On to the next thing to look for, or to the mapping on the last one.
LEMMA EnsuresCourse ==
  ASSUME TypeInv, NEW q \in AdminRequests, NEW thing, Ensures(q, thing), Course(q),
         admin[q].step \in {"find", "create"}, UNCHANGED <<mapped, exists, member, direct>>,
         admin[q].at = Len(Ensured(admin[q].target)) =>
           Path(thing) = LeafGroup(admin[q].target)
  PROVE  OwnCourse(q)
<1> DEFINE r == admin[q]
<1>1. /\ r \in AdminRecord /\ Acceptable(r.target)
      /\ r.at \in 1..Len(Ensured(r.target)) /\ Len(Ensured(r.target)) \in Nat
  BY EnsuredTyped DEF TypeInv, AdminTyped, EnsuringShape, Shaped, AdminRecord
<1>2. /\ \A p \in AdminRequests \ {q} : admin'[p] = admin[p]
      /\ admin'[q].account = r.account /\ admin'[q].alone = r.alone
      /\ admin'[q].target = r.target /\ admin'[q].op = r.op /\ admin'[q].made = r.made
      /\ \/ admin'[q].step = "find"
         \/ admin'[q].step = "map" /\ admin'[q].group = thing
             /\ Path(thing) = LeafGroup(r.target)
  BY <1>1 DEF Ensures, TypeInv, AdminTyped, AdminRecord
<1>3. AccountMove(q)
  BY <1>2, OwnStepAccounts DEF InProgress, Closed
<1>4. ~r.made
  BY DEF Course, OnItsWay, Closed
<1>5. Aimed(q)' /\ OnItsWay(q)' /\ Settled(q)'
  BY <1>1, <1>2, <1>4 DEF Aimed, OnItsWay, Settled
<1>6. Placed(q)'
  BY <1>2, <1>4 DEF Placed, Course
<1> QED
  BY <1>2, <1>3, <1>5, <1>6 DEF OwnCourse, Course

LEMMA StepsOnCourse ==
  ASSUME TypeInv, NEW q \in AdminRequests, AdminStep(q), Course(q),
         \A u \in Users : ~exists[u] => member[u] = {} /\ direct[u] = {},
         AccessInv, faults' \in Nat
  PROVE  OwnCourse(q)
<1> DEFINE r == admin[q]
           u == admin[q].account
<1> USE DEF Closed, AdminSteps
<1>0. /\ r \in AdminRecord /\ u \in Users /\ r.op \in AdminOps
      /\ r.step \in {"find", "create"} => /\ Acceptable(r.target)
                                         /\ r.at \in 1..Len(Ensured(r.target))
      /\ exists \in [Users -> BOOLEAN]
  BY DEF TypeInv, AdminTyped, EnsuringShape, Shaped, AdminRecord, RealmTyped
<1>e. ASSUME r.step \in {"find", "create"}, r.at = Len(Ensured(r.target))
      PROVE  /\ Ensuring(q) = LeafGroup(r.target)
             /\ Path(Ensuring(q)) = LeafGroup(r.target)
  <2>1. Ensuring(q) = LeafGroup(r.target)
    BY <1>0, <1>e, EnsuredTyped DEF Ensuring, AdminRecord
  <2>2. LeafGroup(r.target) # FlatSuperAdmin
    <3>1. CASE r.target.type = "state"
      <4>1. LeafGroup(r.target) =
              <<"states", r.target.state, group_leaf_for_role(TargetRole(r.target))>>
        BY <3>1 DEF LeafGroup
      <4> QED
        BY <4>1 DEF FlatSuperAdmin
    <3>2. CASE r.target.type # "state"
      BY <3>2 DEF LeafGroup, Global, FlatSuperAdmin
    <3> QED
      BY <3>1, <3>2
  <2> QED
    BY <2>1, <2>2, FlatGroup
<1>1. CASE Provision(q)
  <2> PICK v \in Users, t \in Targets, on \in BOOLEAN :
        admin' = Acting(q, v, [IdleAdmin EXCEPT !.op = "provision", !.step = FirstStep(t),
                                                !.target = t, !.enabled = on])
    BY <1>1 DEF Provision
  <2> DEFINE r1 == [IdleAdmin EXCEPT !.op = "provision", !.step = FirstStep(t),
                                     !.target = t, !.enabled = on]
  <2>1. /\ r1 \in AdminRecord /\ r1.step \in {"find", "refused"} /\ r1.op = "provision"
        /\ ~r1.made
    BY IdleAdminTyped DEF AdminRecord, AdminOps, FirstStep, AccessTargets, IdleAdmin
  <2> HIDE DEF r1
  <2> QED
    BY <1>1, <2>1, BeginsCourse DEF Provision, keycloakVars, r1
<1>2. CASE SetAccess(q)
  <2> PICK v \in Users, t \in Targets :
        admin' = Acting(q, v, [IdleAdmin EXCEPT !.op = "set_access", !.step = "user",
                                                !.target = t])
    BY <1>2 DEF SetAccess
  <2> DEFINE r1 == [IdleAdmin EXCEPT !.op = "set_access", !.step = "user", !.target = t]
  <2>1. r1 \in AdminRecord /\ r1.step = "user" /\ r1.op = "set_access" /\ ~r1.made
    BY IdleAdminTyped DEF AdminRecord, AdminOps, AccessTargets, IdleAdmin
  <2> HIDE DEF r1
  <2> QED
    BY <1>2, <2>1, BeginsCourse DEF SetAccess, keycloakVars, r1
<1>3. CASE GetUser(q)
  <2>1. r.op = "set_access" /\ ~r.made
    BY <1>3 DEF GetUser, Course, OnItsWay
  <2>2. \/ Goes(q, "find") /\ exists[u]
        \/ Goes(q, "refused")
    BY <1>3 DEF GetUser, FirstStep
  <2> QED
    BY <1>3, <2>1, <2>2, GoesOn DEF GetUser, InProgress, keycloakVars
<1>4. CASE Find(q)
  <2>1. CASE Ensuring(q) \in realm
    BY <1>4, <1>e, <2>1, EnsuresCourse DEF Find, keycloakVars
  <2>2. CASE /\ Ensuring(q) \notin realm
             /\ Ensuring(q) = Global("super-admin") /\ FlatSuperAdmin \in realm
    BY <1>4, <1>e, <2>2, EnsuresCourse, FlatGroup DEF Find, keycloakVars
  <2>3. CASE Goes(q, "create")
    <3>1. ~r.made /\ (r.op = "set_access" => exists[u])
      BY <1>4 DEF Find, Course, OnItsWay, Placed
    <3> QED
      BY <1>4, <2>3, <3>1, GoesOn DEF Find, InProgress, keycloakVars
  <2> QED
    BY <1>4, <2>1, <2>2, <2>3 DEF Find
<1>5. CASE Create(q)
  BY <1>5, <1>e, EnsuresCourse DEF Create
<1>6. CASE MapRole(q)
  <2>1. ~r.made /\ (r.op = "set_access" => exists[u])
    BY <1>6 DEF MapRole, Course, OnItsWay, Placed
  <2>2. /\ \A p \in AdminRequests \ {q} : admin'[p] = admin[p]
        /\ admin'[q].group = r.group /\ admin'[q].account = u
        /\ admin'[q].alone = r.alone /\ admin'[q].target = r.target
        /\ admin'[q].op = r.op /\ admin'[q].made = r.made
        /\ \/ admin'[q].step = "lookup" /\ r.op = "provision"
           \/ admin'[q].step = "join" /\ r.op = "set_access"
    BY <1>0, <1>6, GoesFields DEF MapRole, AdminOps
  <2>3. AccountMove(q)
    BY <1>6, <2>2, OwnStepAccounts DEF MapRole, InProgress
  <2>4. Aimed(q)' /\ OnItsWay(q)' /\ Placed(q)' /\ Settled(q)'
    BY <1>6, <2>1, <2>2 DEF MapRole, Course, Aimed, OnItsWay, Placed, Settled
  <2> QED
    BY <2>2, <2>3, <2>4 DEF OwnCourse, Course
<1>7. CASE Lookup(q)
  <2>1. r.op = "provision" /\ ~r.made
    BY <1>7 DEF Lookup, Course, OnItsWay
  <2>2. \/ Goes(q, "update") /\ exists[u]
        \/ Goes(q, "post")
    BY <1>7 DEF Lookup
  <2> QED
    BY <1>7, <2>1, <2>2, GoesOn DEF Lookup, InProgress, keycloakVars
<1>8. CASE Update(q)
  <2>1. r.op = "provision" /\ ~r.made /\ exists[u]
    BY <1>8 DEF Update, Course, OnItsWay, Placed
  <2> QED
    BY <1>8, <2>1, GoesOn DEF Update, InProgress

<1>9. CASE Post(q)
  <2>1. r.op = "provision" /\ ~r.made
    BY <1>9 DEF Post, Course, OnItsWay
  <2>2. CASE Taken(u) = {}
    <3>1. ~exists[u]
      BY <1>0, <2>2 DEF Taken
    <3>2. exists' = [exists EXCEPT ![u] = TRUE] /\ exists'[u]
      BY <1>0, <1>9, <2>2 DEF Post
    <3>3. /\ \A p \in AdminRequests \ {q} : admin'[p] = admin[p]
          /\ admin'[q].step = "locate" /\ admin'[q].made
          /\ admin'[q].account = u /\ admin'[q].alone = r.alone
          /\ admin'[q].target = r.target /\ admin'[q].op = r.op /\ admin'[q].group = r.group
      BY <1>9, <2>2 DEF Post, TypeInv, AdminTyped, AdminRecord
    <3>4. AccountMove(q)
      BY <1>0, <1>9, <3>2, <3>3, OwnStepAccounts DEF Post, InProgress
    <3>5. Aimed(q)' /\ OnItsWay(q)'
      BY <1>9, <2>1, <3>3 DEF Post, Course, Aimed, OnItsWay
    <3>6. Placed(q)'
      BY <1>0, <3>2, <3>3, <2>1 DEF Placed, Taken
    <3>7. Settled(q)'
      <4>1. member'[u] = {} /\ direct'[u] = {}
        BY <1>0, <1>9, <3>1 DEF Post
      <4> QED
        BY <2>1, <3>3, <4>1 DEF Settled
    <3> QED
      BY <3>3, <3>4, <3>5, <3>6, <3>7 DEF OwnCourse, Course
  <2>3. CASE Taken(u) # {}
    BY <1>9, <2>1, <2>3, GoesOn DEF Post, InProgress
  <2> QED
    BY <2>2, <2>3
<1>10. CASE Locate(q)
  <2> DEFINE found == IF exists[u] THEN {u} ELSE Taken(u)
  <2>1. r.op = "provision" /\ Taken(u) # {}
    BY <1>10 DEF Locate, Course, OnItsWay, Placed
  <2>2. \A v \in found : v \in Users /\ exists[v] /\ (r.made => v = u)
    BY <1>0 DEF Taken, Course, Placed
  <2>3. PICK v \in found : admin' = Acting(q, v, [r EXCEPT !.step = "join"])
    BY <1>10, <2>1 DEF Locate
  <2> DEFINE r1 == [r EXCEPT !.step = "join"]
  <2>4. /\ r1 \in AdminRecord /\ r1.step = "join" /\ r1.op = r.op /\ r1.made = r.made
        /\ r1.target = r.target /\ r1.group = r.group /\ r1.alone = r.alone
    BY <1>0 DEF AdminRecord
  <2>5. UNCHANGED <<mapped, exists, member, direct>>
    BY <1>10 DEF Locate, keycloakVars
  <2>6. /\ AccountMove(q)
        /\ admin'[q].step = "join" /\ admin'[q].op = r.op /\ admin'[q].made = r.made
        /\ admin'[q].target = r.target /\ admin'[q].group = r.group
        /\ admin'[q].account = v /\ (admin'[q].alone => r.alone)
    <3> HIDE DEF r1, found
    <3>1. admin' = Acting(q, v, r1)
      BY <2>3 DEF r1
    <3> QED
      BY <2>2, <2>4, <2>5, <3>1, ActingAccounts
  <2>7. Aimed(q)' /\ OnItsWay(q)'
    BY <1>10, <2>1, <2>6 DEF Locate, Course, Aimed, OnItsWay
  <2>8. Placed(q)'
    BY <2>1, <2>2, <2>5, <2>6 DEF Placed
  <2>9. Settled(q)'
    BY <1>10, <2>1, <2>2, <2>5, <2>6 DEF Locate, Course, Settled
  <2> QED
    BY <2>6, <2>7, <2>8, <2>9 DEF OwnCourse, Course
<1>11. CASE Join(q)
  <2>1. exists[u]
    BY <1>11 DEF Join, Course, Placed
  <2>2. /\ member' = [member EXCEPT ![u] = @ \cup {r.group}]
        /\ member'[u] = member[u] \cup {r.group}
    BY <1>0, <1>11 DEF Join, TypeInv, RealmTyped
  <2>3. /\ \A p \in AdminRequests \ {q} : admin'[p] = admin[p]
        /\ admin'[q].group = r.group /\ admin'[q].account = u
        /\ admin'[q].alone = r.alone /\ admin'[q].target = r.target
        /\ admin'[q].op = r.op /\ admin'[q].made = r.made
        /\ \/ admin'[q].step = "report" /\ r.op = "provision"
           \/ admin'[q].step = "list" /\ r.op = "set_access"
    BY <1>0, <1>11, GoesFields DEF Join, AdminOps
  <2>4. AccountMove(q)
    <3>1. \A v \in Users : v # u => member'[v] = member[v]
      BY <2>2 DEF TypeInv, RealmTyped
    <3> QED
      BY <1>11, <2>3, <3>1, OwnStepAccounts DEF Join, InProgress
  <2>5. Aimed(q)' /\ OnItsWay(q)'
    BY <1>11, <2>3 DEF Join, Course, Aimed, OnItsWay
  <2>6. Placed(q)'
    BY <1>11, <2>1, <2>3 DEF Join, Placed
  <2>7. Settled(q)'
    <3>1. admin'[q].alone /\ admin'[q].made =>
            direct'[u] = {} /\ member'[u] = {r.group} /\ admin'[q].step # "join"
      BY <1>11, <2>2, <2>3 DEF Join, Course, Settled
    <3>2. r.group \in member'[u]
      BY <2>2
    <3> QED
      BY <2>3, <3>1, <3>2 DEF Settled
  <2> QED
    BY <2>3, <2>4, <2>5, <2>6, <2>7 DEF OwnCourse, Course
<1>12. CASE ListGroups(q)
  <2>1. r.op = "set_access" /\ ~r.made /\ exists[u]
    BY <1>12 DEF ListGroups, Course, OnItsWay, Placed
  <2>2. /\ \A p \in AdminRequests \ {q} : admin'[p] = admin[p]
        /\ admin'[q].step = "leave" /\ admin'[q].group = r.group
        /\ admin'[q].account = u /\ admin'[q].alone = r.alone
        /\ admin'[q].target = r.target /\ admin'[q].op = r.op /\ admin'[q].made = r.made
        /\ admin'[q].seen = OtherGroups(q)
    BY <1>12 DEF ListGroups, OtherGroups, TypeInv, AdminTyped, AdminRecord
  <2>3. UNCHANGED <<mapped, exists, member, direct>>
    BY <1>12 DEF ListGroups, keycloakVars
  <2>4. AccountMove(q)
    BY <1>12, <2>2, <2>3, OwnStepAccounts DEF ListGroups, InProgress
  <2>5. Aimed(q)' /\ OnItsWay(q)' /\ Placed(q)'
    BY <1>12, <2>1, <2>2, <2>3 DEF ListGroups, Course, Aimed, OnItsWay, Placed
  <2>6. OtherGroups(q)' = OtherGroups(q)
    BY <2>2, <2>3 DEF OtherGroups
  <2>7. Settled(q)'
    BY <1>12, <2>1, <2>2, <2>3, <2>6, ZenonT(60) DEF ListGroups, Course, Settled
  <2> QED
    BY <2>2, <2>4, <2>5, <2>7 DEF OwnCourse, Course
<1>13. CASE Leave(q)
  <2> PICK g \in r.seen : /\ member' = [member EXCEPT ![u] = @ \ {g}]
                          /\ admin' = [admin EXCEPT ![q].seen = @ \ {g}]
    BY <1>13 DEF Leave
  <2>1. r.op = "set_access" /\ ~r.made /\ exists[u] /\ r.step = "leave"
    BY <1>13 DEF Leave, Course, OnItsWay, Placed
  <2>2. /\ \A p \in AdminRequests \ {q} : admin'[p] = admin[p]
        /\ admin'[q].step = "leave" /\ admin'[q].group = r.group
        /\ admin'[q].account = u /\ admin'[q].alone = r.alone
        /\ admin'[q].target = r.target /\ admin'[q].op = r.op /\ admin'[q].made = r.made
        /\ admin'[q].seen = r.seen \ {g}
    BY <1>13 DEF Leave, TypeInv, AdminTyped, AdminRecord
  <2>3. UNCHANGED <<mapped, exists, direct>>
    BY <1>13 DEF Leave
  <2>4. /\ \A v \in Users : v # u => member'[v] = member[v]
        /\ member'[u] = member[u] \ {g}
    BY <1>0 DEF TypeInv, RealmTyped
  <2>5. AccountMove(q)
    BY <2>1, <2>2, <2>3, <2>4, OwnStepAccounts DEF InProgress
  <2>6. Aimed(q)' /\ OnItsWay(q)' /\ Placed(q)'
    BY <2>1, <2>2, <2>3 DEF Course, Aimed, OnItsWay, Placed
  <2>7. OtherGroups(q)' = OtherGroups(q) \ {g}
    BY <2>2, <2>4 DEF OtherGroups
  <2>8. g # r.group
    BY <2>1 DEF AccessInv, Moving
  <2>9. Settled(q)'
    BY <2>1, <2>2, <2>3, <2>4, <2>7, <2>8 DEF Course, Settled
  <2> QED
    BY <2>1, <2>2, <2>5, <2>6, <2>9 DEF OwnCourse, Course
<1>14. CASE ListRoles(q)
  <2>1. r.op = "set_access" /\ ~r.made /\ exists[u] /\ r.step = "leave" /\ r.seen = {}
    BY <1>14 DEF ListRoles, Course, OnItsWay, Placed
  <2>2. /\ \A p \in AdminRequests \ {q} : admin'[p] = admin[p]
        /\ admin'[q].step = "strip" /\ admin'[q].group = r.group
        /\ admin'[q].account = u /\ admin'[q].alone = r.alone
        /\ admin'[q].target = r.target /\ admin'[q].op = r.op /\ admin'[q].made = r.made
        /\ admin'[q].seen = {RealmRole(x) : x \in direct[u] \ DefaultRoles}
    BY <1>14 DEF ListRoles, TypeInv, AdminTyped, AdminRecord
  <2>3. UNCHANGED <<mapped, exists, member, direct>>
    BY <1>14 DEF ListRoles, keycloakVars
  <2>4. AccountMove(q)
    BY <2>1, <2>2, <2>3, OwnStepAccounts DEF InProgress
  <2>5. Aimed(q)' /\ OnItsWay(q)' /\ Placed(q)'
    BY <2>1, <2>2, <2>3 DEF Course, Aimed, OnItsWay, Placed
  <2>6. OtherGroups(q)' = OtherGroups(q)
    BY <2>2, <2>3 DEF OtherGroups
  <2>7. r.alone => OtherGroups(q) = {} /\ r.group \in member[u]
    BY <2>1 DEF Course, Settled
  <2>8. Settled(q)'
    BY <2>1, <2>2, <2>3, <2>6, <2>7 DEF Settled
  <2> QED
    BY <2>2, <2>4, <2>5, <2>8 DEF OwnCourse, Course
<1>15. CASE Strip(q)
  <2> PICK x \in r.seen : /\ direct' = [direct EXCEPT ![u] = @ \ {x[2]}]
                          /\ admin' = [admin EXCEPT ![q].seen = @ \ {x}]
    BY <1>15 DEF Strip
  <2>1. r.op = "set_access" /\ ~r.made /\ exists[u] /\ r.step = "strip"
    BY <1>15 DEF Strip, Course, OnItsWay, Placed
  <2>2. /\ \A p \in AdminRequests \ {q} : admin'[p] = admin[p]
        /\ admin'[q].step = "strip" /\ admin'[q].group = r.group
        /\ admin'[q].account = u /\ admin'[q].alone = r.alone
        /\ admin'[q].target = r.target /\ admin'[q].op = r.op /\ admin'[q].made = r.made
        /\ admin'[q].seen = r.seen \ {x}
    BY <1>15 DEF Strip, TypeInv, AdminTyped, AdminRecord
  <2>3. UNCHANGED <<mapped, exists, member>>
    BY <1>15 DEF Strip
  <2>4. /\ \A v \in Users : v # u => direct'[v] = direct[v]
        /\ direct'[u] = direct[u] \ {x[2]}
    BY <1>0 DEF TypeInv, RealmTyped
  <2>5. AccountMove(q)
    BY <2>1, <2>2, <2>3, <2>4, OwnStepAccounts DEF InProgress
  <2>6. Aimed(q)' /\ OnItsWay(q)' /\ Placed(q)'
    BY <2>1, <2>2, <2>3 DEF Course, Aimed, OnItsWay, Placed
  <2>7. OtherGroups(q)' = OtherGroups(q)
    BY <2>2, <2>3 DEF OtherGroups
  <2>8. {RealmRole(y) : y \in direct[u] \ DefaultRoles} \subseteq r.seen =>
          {RealmRole(y) : y \in direct'[u] \ DefaultRoles} \subseteq r.seen \ {x}
    <3>1. \A y : RealmRole(y)[2] = y
      BY DEF RealmRole
    <3>2. \A y \in direct'[u] : y \in direct[u] /\ RealmRole(y) # x
      BY <2>4, <3>1
    <3> QED
      BY <3>2
  <2>9. Settled(q)'
    BY <2>1, <2>2, <2>3, <2>7, <2>8 DEF Course, Settled
  <2> QED
    BY <2>1, <2>2, <2>5, <2>6, <2>9 DEF OwnCourse, Course
<1>16. CASE Report(q)
  <2>1. /\ r.step = "strip" => r.op = "set_access" /\ ~r.made
        /\ r.step = "report" => r.op = "provision"
    BY DEF Course, OnItsWay
  <2> QED
    BY <1>16, <2>1, GoesOn DEF Report, InProgress, keycloakVars
<1>17. CASE AdminFails(q)
  <2>1. faults' # 0
    BY <1>17, FaultsAssumption DEF AdminFails, Fault, TypeInv, RealmTyped
  <2> QED
    BY <1>17, <2>1, GoesOn DEF AdminFails
<1> QED
  BY <1>1, <1>2, <1>3, <1>4, <1>5, <1>6, <1>7, <1>8, <1>9, <1>10, <1>11, <1>12, <1>13,
     <1>14, <1>15, <1>16, <1>17 DEF AdminStep

\* The others keep their course: nobody who is disturbed counts.
LEMMA OthersOnCourse ==
  ASSUME TypeInv, TypeInv', Undisturbed, NEW q \in AdminRequests, AccountMove(q),
         InProgress(q) \/ (admin[q].step \notin {"join", "leave", "strip"}),
         NEW p \in AdminRequests, p # q, Course(p)
  PROVE  Course(p)'
<1> DEFINE r == admin[p]
           u == admin[p].account
<1>0. u \in Users /\ exists \in [Users -> BOOLEAN] /\ exists' \in [Users -> BOOLEAN]
  BY DEF TypeInv, AdminTyped, AdminRecord, RealmTyped
<1>1. /\ admin'[p].step = r.step /\ admin'[p].target = r.target
      /\ admin'[p].group = r.group /\ admin'[p].account = u
      /\ admin'[p].seen = r.seen /\ admin'[p].op = r.op /\ admin'[p].made = r.made
      /\ admin'[p].alone => r.alone
  BY DEF AccountMove
<1>2. Aimed(p)' /\ OnItsWay(p)'
  BY <1>1 DEF Course, Aimed, OnItsWay
<1>3. Placed(p)'
  <2>1. exists[u] => exists'[u]
    BY <1>0 DEF AccountMove
  <2>2. Taken(u) # {} => Taken(u)' # {}
    BY DEF Taken, AccountMove
  <2> QED
    BY <1>1, <2>1, <2>2 DEF Course, Placed
<1>4. Settled(p)'
  <2>1. CASE r.step = "idle"
    BY <1>1, <2>1 DEF Settled, Course, OnItsWay, Closed
  <2>2. CASE r.step # "idle" /\ member'[u] = member[u] /\ direct'[u] = direct[u]
    <3>1. OtherGroups(p)' = OtherGroups(p)
      BY <1>1, <2>2 DEF OtherGroups
    <3> QED
      BY <1>1, <2>2, <3>1 DEF Course, Settled
  <2>3. CASE r.step # "idle" /\ u = admin[q].account /\ admin[q].step \in {"join", "leave", "strip"}
    <3>1. ~r.alone
      BY <2>3 DEF Undisturbed
    <3> QED
      BY <1>1, <3>1 DEF Settled
  <2> QED
    BY <1>0, <2>1, <2>2, <2>3 DEF AccountMove
<1> QED
  BY <1>2, <1>3, <1>4 DEF Course

LEMMA MovesKeepUndisturbed ==
  ASSUME TypeInv, Undisturbed, NEW q \in AdminRequests, AccountMove(q)
  PROVE  Undisturbed'
<1> SUFFICES ASSUME NEW p \in AdminRequests, NEW o \in AdminRequests, p # o,
                    InProgress(p)', admin'[o].step # "idle",
                    admin'[p].account = admin'[o].account
             PROVE  ~admin'[o].alone
  BY DEF Undisturbed
<1>1. CASE p # q /\ o # q
  BY <1>1 DEF AccountMove, Undisturbed, InProgress
<1>2. CASE p = q
  <2>1. CASE InProgress(q) /\ admin'[q].account = admin[q].account
    BY <1>2, <2>1 DEF AccountMove, Undisturbed
  <2>2. CASE \A x \in Others(q, admin'[q].account) : ~admin'[x].alone
    <3>1. o \in Others(q, admin'[q].account)
      BY <1>2 DEF Others, AccountMove
    <3> QED
      BY <2>2, <3>1
  <2> QED
    BY <2>1, <2>2 DEF AccountMove
<1>3. CASE o = q
  <2>1. InProgress(p) /\ admin[p].account = admin'[q].account
    BY <1>3 DEF AccountMove, InProgress
  <2>2. CASE InProgress(q) /\ admin'[q].account = admin[q].account /\ admin'[q].alone = admin[q].alone
    <3>1. admin[q].step # "idle"
      BY <2>2 DEF InProgress
    <3> QED
      BY <1>3, <2>1, <2>2, <3>1 DEF Undisturbed
  <2>3. CASE Beside(q, admin'[q].account) # {} => ~admin'[q].alone
    <3>1. p \in Beside(q, admin'[q].account)
      BY <1>3, <2>1 DEF Beside, Others, InProgress
    <3> QED
      BY <1>3, <2>3, <3>1
  <2> QED
    BY <2>2, <2>3 DEF AccountMove
<1> QED
  BY <1>1, <1>2, <1>3

LEMMA StepsKeepGiven ==
  ASSUME IInv, TypeInv', GivenInv, NEW q \in AdminRequests, AdminStep(q)
  PROVE  GivenInv'
<1> USE DEF IInv
<1>0. \A p \in AdminRequests : Course(p)
  BY DEF GivenInv, Course
<1>1. OwnCourse(q)
  <2>1. faults' \in Nat
    BY FaultsAssumption DEF TypeInv, RealmTyped
  <2> QED
    BY <1>0, <2>1, StepsOnCourse DEF GivenInv
<1>2. AccountMove(q)
  BY <1>1 DEF OwnCourse
<1>3. \A m \in mapped' : m[2] = PathRole(Path(m[1]))
  <2>1. admin[q].step = "map" =>
          PathRole(Path(admin[q].group)) = TargetRole(admin[q].target)
    BY DEF GroupInv, GroupsReady
  <2>2. \A m \in mapped' \ mapped :
          admin[q].step = "map" /\ m = <<admin[q].group, TargetRole(admin[q].target)>>
    BY <1>2 DEF AccountMove
  <2> QED
    BY <2>1, <2>2 DEF GivenInv
<1>4. \A u \in Users : ~exists'[u] => member'[u] = {} /\ direct'[u] = {}
  <2> SUFFICES ASSUME NEW u \in Users, ~exists'[u]
               PROVE  member'[u] = {} /\ direct'[u] = {}
    OBVIOUS
  <2>1. ~exists[u]
    BY <1>2 DEF AccountMove
  <2>2. ~(u = admin[q].account /\ admin[q].step \in {"join", "leave", "strip"})
    BY <1>0, <2>1 DEF Course, Placed
  <2> QED
    BY <1>2, <2>1, <2>2 DEF AccountMove, GivenInv
<1>5. Undisturbed'
  BY <1>2, MovesKeepUndisturbed DEF GivenInv
<1>6. FailsOnlyByFault'
  <2> SUFFICES ASSUME faults' = 0, NEW p \in AdminRequests
               PROVE  admin'[p].step # "error"
    BY DEF FailsOnlyByFault
  <2>1. faults = 0
    BY AdminLeavesPasswords
  <2>2. CASE p = q
    BY <1>1, <2>2 DEF OwnCourse
  <2>3. CASE p # q
    BY <1>2, <2>1, <2>3 DEF AccountMove, GivenInv, FailsOnlyByFault
  <2> QED
    BY <2>2, <2>3
<1>7. \A p \in AdminRequests : Course(p)'
  <2> SUFFICES ASSUME NEW p \in AdminRequests
               PROVE  Course(p)'
    OBVIOUS
  <2>1. CASE p = q
    BY <1>1, <2>1 DEF OwnCourse
  <2>2. CASE p # q
    BY <1>0, <1>2, <2>2, OthersOnCourse DEF GivenInv, InProgress, Closed
  <2> QED
    BY <2>1, <2>2
<1> QED
  BY <1>3, <1>4, <1>5, <1>6, <1>7 DEF GivenInv, Course

\* Sign-in leaves everything of it alone but the count of failed calls.
LEMMA GivenKept ==
  ASSUME GivenInv, UNCHANGED <<mapped, exists, member, direct, admin>>, faults' = 0 => faults = 0
  PROVE  GivenInv'
<1>1. \A q \in AdminRequests : Aimed(q)' /\ OnItsWay(q)'
  BY DEF GivenInv, Aimed, OnItsWay
<1>2. \A q \in AdminRequests : Placed(q)'
  BY DEF GivenInv, Placed, Taken
<1>3. \A q \in AdminRequests : Settled(q)'
  BY DEF GivenInv, Settled, OtherGroups
<1>4. Undisturbed' /\ FailsOnlyByFault'
  BY DEF GivenInv, Undisturbed, InProgress, FailsOnlyByFault
<1> QED
  BY <1>1, <1>2, <1>3, <1>4 DEF GivenInv

LEMMA SignInLeavesAccounts ==
  ASSUME TypeInv, NEW q \in SignIns, SignInStep(q)
  PROVE  UNCHANGED <<mapped, exists, enabled, member, direct>> /\ (faults' = 0 => faults = 0)
<1> USE DEF keycloakVars, realmVars, accountVars
<1>1. Fault => faults' # 0
  BY FaultsAssumption DEF Fault, TypeInv, RealmTyped
<1>2. CASE RequestCode(q) \/ LookupUser(q) \/ StoreCode(q) \/ Mail(q) \/ TypeCode(q)
           \/ DropRow(q) \/ CountAttempt(q) \/ SpendCode(q) \/ FindUser(q)
  BY <1>2 DEF RequestCode, LookupUser, StoreCode, Mail, TypeCode, DropRow, CountAttempt,
              SpendCode, FindUser
<1>3. CASE Rotate(q) \/ Grant(q) \/ RotateAgain(q) \/ ExchangeCode(q) \/ Refresh(q)
  BY <1>3 DEF Rotate, Grant, RotateAgain, ExchangeCode, Refresh
<1>4. CASE MailFails(q) \/ RotationFails(q) \/ SignInFails(q)
  BY <1>1, <1>4 DEF MailFails, RotationFails, SignInFails
<1> QED
  BY <1>2, <1>3, <1>4 DEF SignInStep

LEMMA InitGiven ==
  ASSUME Init
  PROVE  GivenInv
<1>1. \A q \in AdminRequests : admin[q].step = "idle" /\ ~admin[q].made
                               /\ admin[q].op = "set_access"
  BY DEF Init, AdminInit, IdleAdmin
<1>2. \A q \in AdminRequests : Aimed(q) /\ OnItsWay(q) /\ Placed(q) /\ Settled(q)
  BY <1>1 DEF Aimed, OnItsWay, Placed, Settled
<1>3. Undisturbed /\ FailsOnlyByFault
  BY <1>1 DEF Undisturbed, FailsOnlyByFault
<1>4. \A m \in mapped : m[2] = PathRole(Path(m[1]))
  BY DEF Init
<1>5. \A u \in Users : ~exists[u] => member[u] = {} /\ direct[u] = {}
  BY DEF Init
<1> QED
  BY <1>2, <1>3, <1>4, <1>5 DEF GivenInv

LEMMA NextGiven ==
  ASSUME IInv, IInv', GivenInv, [Next]_vars
  PROVE  GivenInv'
<1>1. ASSUME NEW q \in AdminRequests, AdminStep(q)
      PROVE  GivenInv'
  BY <1>1, StepsKeepGiven DEF IInv
<1>2. ASSUME NEW q \in SignIns, SignInStep(q), UNCHANGED admin
      PROVE  GivenInv'
  BY <1>2, SignInLeavesAccounts, GivenKept DEF IInv
<1>3. CASE UNCHANGED <<keycloakVars, admin>>
  BY <1>3, GivenKept DEF keycloakVars
<1> QED
  BY <1>1, <1>2, <1>3 DEF Next, Tick, vars, otpVars

-----------------------------------------------------------------------------
(* What a token grants                                                     *)

LEMMA StaffPath ==
  /\ Path(<<"staff">>) = <<"staff">> /\ PathRole(<<"staff">>) = NoRole
  /\ ~_is_product_group_path(<<"staff">>) /\ <<"staff">>[1] # "states"
BY DEF Path, FlatSuperAdmin, PathRole, Global, _is_product_group_path

LEMMA NormalRoles ==
  /\ \A role \in Roles : normalize_role(role) = role
  /\ normalize_role("offline_access") = NoRole
  /\ NoRole \notin Roles
BY DEF Roles, StateRoles, normalize_role, NoRole

\* What a group's path says.
LEMMA LeafShape ==
  ASSUME NEW leaf \in LeafGroups, leaf # FlatSuperAdmin
  PROVE  /\ Path(leaf) = leaf /\ PathRole(leaf) \in Roles
         /\ \/ /\ leaf[1] = "states" /\ Len(leaf) = 3 /\ leaf[2] \in States
               /\ PathRole(leaf) \in StateRoles
               /\ normalize_role(leaf[3]) = PathRole(leaf)
               /\ leaf[3] \notin {"super-admin", "bh-viewer"}
            \/ /\ leaf = Global("super-admin") /\ leaf[1] # "states" /\ Len(leaf) = 2
               /\ leaf[2] = "super-admin" /\ PathRole(leaf) = "super_admin"
            \/ /\ leaf = Global("bh-viewer") /\ leaf[1] # "states" /\ Len(leaf) = 2
               /\ leaf[2] = "bh-viewer" /\ PathRole(leaf) = "bh_viewer"
<1>1. Path(leaf) = leaf /\ PathRole(leaf) \in Roles
  BY FlatGroup, LeafRole
<1>2. CASE leaf = Global("super-admin")
  BY <1>1, <1>2 DEF Global, PathRole, normalize_role
<1>3. CASE leaf = Global("bh-viewer")
  BY <1>1, <1>3 DEF Global, PathRole, normalize_role
<1>4. CASE \E s \in States, r \in StateRoles : leaf = <<"states", s, group_leaf_for_role(r)>>
  <2> PICK s \in States, r \in StateRoles : leaf = <<"states", s, group_leaf_for_role(r)>>
    BY <1>4
  <2>1. /\ leaf[1] = "states" /\ Len(leaf) = 3 /\ leaf[2] = s
        /\ leaf[3] = group_leaf_for_role(r)
    OBVIOUS
  <2>2. PathRole(leaf) = normalize_role(leaf[3])
    BY <2>1 DEF PathRole
  <2>3. /\ normalize_role(group_leaf_for_role(r)) \in StateRoles
        /\ group_leaf_for_role(r) \notin {"super-admin", "bh-viewer"}
    BY DEF group_leaf_for_role, normalize_role, StateRoles
  <2> QED
    BY <1>1, <2>1, <2>2, <2>3
<1> QED
  BY <1>2, <1>3, <1>4 DEF LeafGroups

\* A token with one group, and roles that go with it, has the role of the
\* group, in its state if it has one.
LEMMA OneGroupToken ==
  ASSUME NEW leaf \in LeafGroups, leaf # FlatSuperAdmin, NEW paths, NEW roles,
         leaf \in paths, paths \subseteq {leaf, <<"staff">>},
         roles \subseteq DefaultRoles \cup {PathRole(leaf)},
         NEW user, user = claims_to_user(paths, roles, {})
  PROVE  /\ user.roles = {PathRole(leaf)}
         /\ user.permissions = permissions_for_roles({PathRole(leaf)})
         /\ leaf[1] = "states" => /\ user.instances = {leaf[2]}
                                  /\ DOMAIN user.state_roles = {leaf[2]}
                                  /\ user.state_roles[leaf[2]] = PathRole(leaf)
         /\ leaf[1] # "states" => user.instances = {} /\ DOMAIN user.state_roles = {}
<1> DEFINE role == PathRole(leaf)
           own == parse_group_paths(paths)
<1>1. role \in Roles
  BY LeafShape
<1>2. {normalize_role(r) : r \in roles} \ {NoRole} \subseteq {role}
  BY <1>1, NormalRoles DEF DefaultRoles
<1>3. {PathRole(p) : p \in paths} \subseteq {role, NoRole} /\ role \in {PathRole(p) : p \in paths}
  BY <1>1, StaffPath
<1>4. CASE leaf[1] = "states"
  <2>1. leaf[2] \in States /\ role \in StateRoles
    BY <1>4, LeafShape
  <2>2. \A s \in States : PathRoles(paths, s) = IF s = leaf[2] THEN {role} ELSE {}
    <3> SUFFICES ASSUME NEW s \in States
                 PROVE  PathRoles(paths, s) = IF s = leaf[2] THEN {role} ELSE {}
      OBVIOUS
    <3> DEFINE named == {p \in paths : p[1] = "states" /\ p[2] = s}
    <3>1. named = IF s = leaf[2] THEN {leaf} ELSE {}
      BY <1>4, StaffPath
    <3>2. {PathRole(p) : p \in named} = IF s = leaf[2] THEN {role} ELSE {}
      <4> HIDE DEF named
      <4> QED
        BY <3>1
    <3> QED
      BY <2>1, <3>2 DEF PathRoles
  <2>3. DOMAIN own = {leaf[2]} /\ own[leaf[2]] = role
    <3>1. {s \in States : PathRoles(paths, s) # {}} = {leaf[2]}
      BY <2>1, <2>2
    <3>2. prefer_role({role}) = role
      BY <2>1, PreferredRole
    <3> QED
      BY <2>1, <2>2, <3>1, <3>2 DEF parse_group_paths
  <2>4. GlobalRoles(paths) = {}
    BY <1>3, <2>1 DEF GlobalRoles, StateRoles, NoRole
  <2> HIDE DEF own, role
  <2>5. {own[s] : s \in DOMAIN own} = {role}
    BY <2>3
  <2>6. user.roles = {role}
    BY <1>2, <2>4, <2>5 DEF claims_to_user, own
  <2>7. user.state_roles = own
    BY DEF claims_to_user, own
  <2>8. user.instances = {leaf[2]}
    BY <2>3, <2>4 DEF claims_to_user, own
  <2>9. user.permissions = permissions_for_roles(user.roles)
    BY DEF claims_to_user
  <2> QED
    BY <1>4, <2>3, <2>6, <2>7, <2>8, <2>9 DEF role
<1>5. CASE leaf[1] # "states"
  <2>1. role \in {"super_admin", "bh_viewer"}
    BY <1>5, LeafShape
  <2>2. \A s \in States : PathRoles(paths, s) = {}
    BY <1>5, StaffPath DEF PathRoles
  <2>3. DOMAIN own = {}
    BY <2>2 DEF parse_group_paths
  <2>4. GlobalRoles(paths) = {role}
    BY <1>3, <2>1 DEF GlobalRoles, NoRole
  <2> HIDE DEF own, role
  <2>5. {own[s] : s \in DOMAIN own} = {}
    BY <2>3
  <2>6. user.roles = {role}
    BY <1>2, <2>4, <2>5 DEF claims_to_user, own
  <2>7. user.state_roles = own /\ user.instances = {}
    BY <2>3 DEF claims_to_user, own
  <2>8. user.permissions = permissions_for_roles(user.roles)
    BY DEF claims_to_user
  <2> QED
    BY <1>5, <2>3, <2>6, <2>7, <2>8 DEF role
<1> QED
  BY <1>4, <1>5

\* A token with the one group of an access grants the access and nothing else.
LEMMA OneGroupGrants ==
  ASSUME NEW t \in AccessTargets, Acceptable(t), NEW user,
         user.roles = {TargetRole(t)},
         user.permissions = permissions_for_roles({TargetRole(t)}),
         t.type = "state" => /\ user.instances = {t.state}
                             /\ DOMAIN user.state_roles = {t.state}
                             /\ user.state_roles[t.state] = TargetRole(t),
         t.type # "state" => DOMAIN user.state_roles = {}
  PROVE  Grants(user, t)
<1> DEFINE role == TargetRole(t)
<1>1. role \in Roles /\ (t.type = "state" => t.state \in States /\ role \in StateRoles)
  BY TargetRoleTyped
<1>2. CASE t.type = "state"
  <2>1. ~is_superadmin(user) /\ ~is_bh_viewer(user)
    BY <1>1, <1>2 DEF is_superadmin, is_bh_viewer, StateRoles
  <2>2. resolve_create_instance(user) = {t.state}
    <3>1. Cardinality({t.state}) = 1
      BY FS_Singleton
    <3> QED
      BY <1>2, <2>1, <3>1 DEF resolve_create_instance, unrestricted
  <2>3. ASSUME NEW i \in Instances
        PROVE  Rights(user, i) = Given(t, i)
    <3>1. user_can_access_instance(user, i) <=> i = t.state
      BY <1>2, <2>1 DEF user_can_access_instance, unrestricted
    <3>2. CASE i # t.state
      BY <1>2, <3>1, <3>2 DEF Rights, Given
    <3>3. CASE i = t.state
      <4>1. role_for_instance(user, i) = role /\ role # NoRole
        BY <1>1, <1>2, <2>1, <3>3, NormalRoles DEF role_for_instance
      <4>2. permissions_for_roles({role}) = RolePermissions(role)
        BY <1>1, <1>2 DEF permissions_for_roles, RolePermissions, StateRoles, Permissions
      <4>3. \A p \in Permissions :
              has_permission_for_instance(user, p, i) <=> p \in RolePermissions(role)
        BY <1>2, <2>1, <4>1, <4>2 DEF has_permission_for_instance
      <4>4. RolePermissions(role) \subseteq Permissions
        BY DEF RolePermissions, Permissions
      <4> QED
        BY <1>2, <3>1, <3>3, <4>3, <4>4 DEF Rights, Given
    <3> QED
      BY <3>2, <3>3
  <2> QED
    BY <2>2, <2>3 DEF Grants
<1>3. CASE t.type # "state"
  <2>1. role = t.type /\ t.type \in {"super_admin", "bh_viewer"}
    BY <1>3, TargetsAssumption DEF AccessTargets, Targeted, TargetRole
  <2>2. ASSUME NEW i \in Instances
        PROVE  Rights(user, i) = Given(t, i)
    <3>1. CASE t.type = "super_admin"
      BY <2>1, <3>1
      DEF Rights, Given, user_can_access_instance, unrestricted, is_superadmin,
          has_permission_for_instance
    <3>2. CASE t.type = "bh_viewer"
      <4>1. is_bh_viewer(user) /\ ~is_superadmin(user)
        BY <2>1, <3>2 DEF is_bh_viewer, is_superadmin
      <4>2. user.permissions = {"search"}
        BY <2>1, <3>2 DEF permissions_for_roles, RolePermissions
      <4>3. \A p \in Permissions : has_permission_for_instance(user, p, i) <=> p = "search"
        BY <1>3, <4>1, <4>2 DEF has_permission_for_instance
      <4> QED
        BY <3>2, <4>1, <4>3
        DEF Rights, Given, user_can_access_instance, unrestricted, Permissions
    <3> QED
      BY <2>1, <3>1, <3>2
  <2> QED
    BY <1>3, <2>2 DEF Grants
<1> QED
  BY <1>2, <1>3

\* What an account has when its access is done: the group and nothing else
\* that a token says.
LEMMA DoneGrants ==
  ASSUME IInv, GivenInv, NEW q \in AdminRequests, admin[q].step = "ok", admin[q].alone,
         admin[q].op = "set_access" \/ admin[q].made
  PROVE  Grants(Claims(admin[q].account), admin[q].target)
<1> DEFINE r == admin[q]
           u == admin[q].account
           t == admin[q].target
           leaf == LeafGroup(t)
           paths == {Path(g) : g \in member[u]}
           roles == direct[u] \cup {m[2] : m \in {m \in mapped : m[1] \in member[u]}}
<1>1. /\ u \in Users /\ t \in AccessTargets /\ r.group \in LeafGroups
      /\ member[u] \subseteq LeafGroups \cup {<<"staff">>}
      /\ mapped \subseteq LeafGroups \X Roles
  BY DEF IInv, TypeInv, AdminTyped, AdminRecord, RealmTyped
<1>2. Acceptable(t) /\ Path(r.group) = leaf
  BY DEF GivenInv, Aimed
<1>3. /\ r.group \in member[u] /\ direct[u] \subseteq DefaultRoles
      /\ \A g \in member[u] : _is_product_group_path(Path(g)) => Path(g) = leaf
  <2>1. CASE r.op = "set_access"
    BY <1>2, <2>1 DEF GivenInv, Settled, OtherGroups
  <2>2. CASE r.made
    BY <1>2, <2>2 DEF GivenInv, Settled
  <2> QED
    BY <2>1, <2>2
<1>4. \A g \in member[u] : \/ g = <<"staff">>
                           \/ g \in LeafGroups /\ Path(g) = leaf
  BY <1>1, <1>3, LeafGroupsAreProducts
<1>5. leaf \in paths /\ paths \subseteq {leaf, <<"staff">>}
  BY <1>2, <1>3, <1>4, StaffPath
<1>6. /\ leaf \in LeafGroups /\ leaf # FlatSuperAdmin /\ PathRole(leaf) = TargetRole(t)
      /\ t.type = "state" <=> leaf[1] = "states"
      /\ t.type = "state" => leaf[2] = t.state
  <2>1. PathRole(Path(leaf)) = TargetRole(t) /\ leaf \in LeafGroups
    BY <1>1, <1>2, LeafGroupTyped
  <2>2. leaf # FlatSuperAdmin
    BY <1>2, FlatGroup DEF Global, FlatSuperAdmin
  <2>3. /\ t.type = "state" => leaf[1] = "states" /\ leaf[2] = t.state
        /\ t.type # "state" => leaf[1] # "states"
    BY DEF LeafGroup, Global
  <2> QED
    BY <2>1, <2>2, <2>3, FlatGroup
<1>7. roles \subseteq DefaultRoles \cup {PathRole(leaf)}
  <2>1. ASSUME NEW m \in mapped, m[1] \in member[u]
        PROVE  m[2] = PathRole(leaf)
    <3>1. m[1] \in LeafGroups /\ m[2] = PathRole(Path(m[1]))
      BY <1>1 DEF GivenInv
    <3>2. <<"staff">> \notin LeafGroups
      BY StaffPath, LeafGroupsAreProducts
    <3> QED
      BY <1>4, <2>1, <3>1, <3>2
  <2> QED
    BY <1>3, <2>1
<1> DEFINE user == Claims(u)
<1>8. user = claims_to_user(paths, roles, {})
  BY DEF Claims
<1> HIDE DEF paths, roles, t, user, leaf
<1>9. /\ user.roles = {PathRole(leaf)}
      /\ user.permissions = permissions_for_roles({PathRole(leaf)})
      /\ leaf[1] = "states" => /\ user.instances = {leaf[2]}
                               /\ DOMAIN user.state_roles = {leaf[2]}
                               /\ user.state_roles[leaf[2]] = PathRole(leaf)
      /\ leaf[1] # "states" => user.instances = {} /\ DOMAIN user.state_roles = {}
  BY <1>5, <1>6, <1>7, <1>8, OneGroupToken
<1>10. Grants(user, t)
  BY <1>1, <1>2, <1>6, <1>9, OneGroupGrants
<1> QED
  BY <1>10 DEF user, t

-----------------------------------------------------------------------------
(* What sessions carry                                                     *)

InformedTyped == informed \in [SignIns -> SUBSET AdminRequests]

\* A session's token is what the account's groups said when it was made.
LEMMA TokensAreClaims ==
  ASSUME TypeInv, NEW q \in SignIns, SignInStep(q)
  PROVE  /\ \A p \in SignIns \ {q} :
              /\ sign'[p].user = sign[p].user /\ sign'[p].granted = sign[p].granted
              /\ sign'[p].token = sign[p].token
         /\ sign'[q].granted =>
              \/ sign'[q].token = Claims(sign'[q].user)
              \/ /\ sign[q].step # "idle" /\ sign[q].granted
                 /\ sign'[q].token = sign[q].token /\ sign'[q].user = sign[q].user
<1> DEFINE r == sign[q]
<1>0. r \in SignRecord /\ \A p \in SignIns : sign[p] \in SignRecord
  BY DEF TypeInv, OtpTyped
<1>b. ASSUME NEW u \in Users, NEW x \in SignRecord, Begins(q, u, x),
             x.granted => x.token = Claims(u)
      PROVE  /\ \A p \in SignIns \ {q} :
                  /\ sign'[p].user = sign[p].user /\ sign'[p].granted = sign[p].granted
                  /\ sign'[p].token = sign[p].token
             /\ sign'[q].granted => sign'[q].token = Claims(sign'[q].user)
  <2> DEFINE a == IF SigningBeside(q, u) = {} THEN x.alone ELSE FALSE
             r1 == [x EXCEPT !.user = u, !.at = now, !.alone = a]
  <2>1. sign'[q] = r1
    BY <1>b DEF Begins
  <2>2. r1.user = u /\ r1.granted = x.granted /\ r1.token = x.token
    BY DEF SignRecord
  <2>3. \A p \in SignIns \ {q} :
          sign'[p] = sign[p] \/ sign'[p] = [sign[p] EXCEPT !.alone = FALSE]
    BY <1>b DEF Begins
  <2>4. ASSUME NEW p \in SignIns \ {q}
        PROVE  /\ sign'[p].user = sign[p].user /\ sign'[p].granted = sign[p].granted
               /\ sign'[p].token = sign[p].token
    <3>1. CASE sign'[p] = sign[p]
      BY <3>1
    <3>2. CASE sign'[p] = [sign[p] EXCEPT !.alone = FALSE]
      BY <1>0, <3>2 DEF SignRecord
    <3> QED
      BY <2>3, <3>1, <3>2
  <2> HIDE DEF r1
  <2> QED
    BY <1>b, <2>1, <2>2, <2>4
<1>m. ASSUME NEW s, Moves(q, s), r.step # "idle"
      PROVE  /\ \A p \in SignIns \ {q} : sign'[p] = sign[p]
             /\ sign'[q].token = r.token /\ sign'[q].user = r.user
             /\ sign'[q].granted = r.granted
  BY <1>m DEF Moves, TypeInv, OtpTyped, SignRecord
<1>i. IdleSignIn \in SignRecord /\ ~IdleSignIn.granted
  BY IdleSignInTyped DEF IdleSignIn
<1>1. CASE RequestCode(q)
  <2> PICK v \in Users : Begins(q, v, [IdleSignIn EXCEPT !.step =
                            IF Cooling(email_otps[v]) THEN "ok" ELSE "lookup"])
    BY <1>1 DEF RequestCode
  <2> DEFINE r1 == [IdleSignIn EXCEPT !.step =
                      IF Cooling(email_otps[v]) THEN "ok" ELSE "lookup"]
  <2>1. r1 \in SignRecord /\ ~r1.granted
    BY <1>i DEF SignRecord, SignSteps, SignedOff
  <2> HIDE DEF r1
  <2>2. Begins(q, v, r1)
    BY DEF r1
  <2> QED
    BY <1>b, <2>1, <2>2
<1>2. CASE TypeCode(q)
  <2> PICK v \in Users : \E code \in inbox[v] \cup {Mistyped} :
         Begins(q, v, [IdleSignIn EXCEPT !.op = "verify", !.code = code,
                                         !.row = email_otps[v],
                                         !.step = Verdict(email_otps[v], code)])
    BY <1>2 DEF TypeCode
  <2> PICK code \in inbox[v] \cup {Mistyped} :
         Begins(q, v, [IdleSignIn EXCEPT !.op = "verify", !.code = code,
                                         !.row = email_otps[v],
                                         !.step = Verdict(email_otps[v], code)])
    OBVIOUS
  <2> DEFINE r1 == [IdleSignIn EXCEPT !.op = "verify", !.code = code, !.row = email_otps[v],
                                      !.step = Verdict(email_otps[v], code)]
  <2>1. code \in SignIns \cup {NoCode, Mistyped} /\ email_otps[v] \in Row
    BY DEF TypeInv, OtpTyped
  <2>2. Verdict(email_otps[v], code) \in SignSteps
    BY DEF Verdict, SignSteps, SignedOff
  <2>3. r1 \in SignRecord /\ ~r1.granted
    BY <1>i, <2>1, <2>2 DEF SignRecord
  <2> HIDE DEF r1
  <2>4. Begins(q, v, r1)
    BY DEF r1
  <2> QED
    BY <1>b, <2>3, <2>4
<1>s. ASSUME NEW u \in Users, NEW op \in {"sso", "refresh"}, Session(q, u, op)
      PROVE  /\ \A p \in SignIns \ {q} :
                  /\ sign'[p].user = sign[p].user /\ sign'[p].granted = sign[p].granted
                  /\ sign'[p].token = sign[p].token
             /\ sign'[q].granted => sign'[q].token = Claims(sign'[q].user)
  <2> DEFINE fields == [IdleSignIn EXCEPT !.op = op]
             yes == [fields EXCEPT !.step = "ok", !.granted = TRUE, !.token = Claims(u)]
             no == [fields EXCEPT !.step = "refused"]
  <2>1. fields \in SignRecord /\ ~fields.granted
    BY <1>i DEF SignRecord
  <2>2. yes \in SignRecord /\ no \in SignRecord /\ yes.token = Claims(u) /\ ~no.granted
    <3> HIDE DEF fields
    <3> QED
      BY <2>1, ClaimsTyped DEF SignRecord, SignSteps, SignedOff
  <2>3. Begins(q, u, yes) \/ Begins(q, u, no)
    BY <1>s DEF Session
  <2> HIDE DEF fields, yes, no
  <2> QED
    BY <1>b, <2>2, <2>3
<1>3. CASE ExchangeCode(q)
  BY <1>3, <1>s DEF ExchangeCode
<1>4. CASE Refresh(q)
  BY <1>0, <1>4, <1>s DEF Refresh, SignRecord
<1>5. CASE LookupUser(q)
  <2>1. /\ \A p \in SignIns \ {q} : sign'[p] = sign[p]
        /\ sign'[q].token = r.token /\ sign'[q].user = r.user
        /\ sign'[q].granted = r.granted
    BY <1>5 DEF LookupUser, TypeInv, OtpTyped, SignRecord
  <2> QED
    BY <1>5, <2>1 DEF LookupUser
<1>6. CASE Rotate(q)
  <2>1. /\ \A p \in SignIns \ {q} : sign'[p] = sign[p]
        /\ sign'[q].token = r.token /\ sign'[q].user = r.user
        /\ sign'[q].granted = r.granted
    BY <1>6 DEF Rotate, TypeInv, OtpTyped, SignRecord
  <2> QED
    BY <1>6, <2>1 DEF Rotate
<1>7. CASE Grant(q)
  <2>1. /\ \A p \in SignIns \ {q} : sign'[p] = sign[p]
        /\ sign'[q].user = r.user /\ sign'[q].granted = Accepted(q)
        /\ Accepted(q) => sign'[q].token = Claims(r.user)
    BY <1>7 DEF Grant, TypeInv, OtpTyped, SignRecord
  <2> QED
    BY <2>1
<1>8. CASE StoreCode(q) \/ Mail(q) \/ MailFails(q) \/ DropRow(q) \/ CountAttempt(q)
           \/ SpendCode(q) \/ FindUser(q)
  <2>1. r.step # "idle" /\ \E s \in SignSteps : Moves(q, s)
    BY <1>8 DEF StoreCode, Mail, MailFails, DropRow, CountAttempt, SpendCode, FindUser,
                SignSteps, SignedOff
  <2> QED
    BY <1>m, <2>1
<1>9. CASE RotateAgain(q) \/ RotationFails(q) \/ SignInFails(q)
  <2>1. r.step # "idle" /\ \E s \in SignSteps : Moves(q, s)
    BY <1>9 DEF RotateAgain, RotationFails, SignInFails, Answered, SignSteps, SignedOff
  <2> QED
    BY <1>m, <2>1
<1> QED
  BY <1>1, <1>2, <1>3, <1>4, <1>5, <1>6, <1>7, <1>8, <1>9 DEF SignInStep

\* An answered request does nothing more.
LEMMA AnsweredIsDone ==
  ASSUME NEW q \in AdminRequests, AdminStep(q)
  PROVE  admin[q].step \notin Closed
BY DEF AdminStep, Provision, SetAccess, GetUser, Find, Create, MapRole, Lookup, Update, Post,
       Locate, Join, ListGroups, Leave, ListRoles, Strip, Report, AdminFails, InProgress, Closed

LEMMA NextInformed ==
  ASSUME IInv, GivenInv, InformedTyped, InformedInv, [Next]_vars
  PROVE  InformedTyped' /\ InformedInv'
<1> USE DEF IInv
<1>0. Changed \subseteq AdminRequests
  BY DEF Changed
<1>1. ASSUME NEW q \in AdminRequests, AdminStep(q), UNCHANGED <<otpVars, informed>>
      PROVE  InformedTyped' /\ InformedInv'
  <2>1. AccountMove(q)
    <3>1. Course(q)
      BY DEF GivenInv, Course
    <3>2. faults' \in Nat
      BY <1>1, AdminStepTyped, FaultsAssumption DEF RealmTyped
    <3> QED
      BY <1>1, <3>1, <3>2, StepsOnCourse DEF GivenInv, OwnCourse
  <2>2. admin[q].step # "ok"
    BY <1>1, AnsweredIsDone DEF Closed
  <2>3. \A r \in Changed : r # q /\ r \in Changed'
    BY <2>1, <2>2 DEF Changed, AccountMove
  <2>4. \A r \in Changed : /\ admin'[r].target = admin[r].target
                           /\ admin'[r].account = admin[r].account
                           /\ admin'[r].alone => admin[r].alone
    BY <1>0, <2>1, <2>3 DEF AccountMove
  <2>5. \A p \in SignIns : informed[p] \subseteq Changed
    BY DEF InformedInv
  <2>6. InformedInv'
    BY <1>1, <2>3, <2>4, <2>5 DEF InformedInv, otpVars
  <2> QED
    BY <1>1, <2>6 DEF InformedTyped
<1>2. ASSUME NEW q \in SignIns, SignInStep(q), UNCHANGED admin,
             informed' = IF sign[q].step = "idle" THEN [informed EXCEPT ![q] = Changed]
                         ELSE informed
      PROVE  InformedTyped' /\ InformedInv'
  <2>1. InformedTyped'
    BY <1>0, <1>2 DEF InformedTyped
  <2>2. Changed' = Changed
    BY <1>2 DEF Changed
  <2>3. \A p \in SignIns : /\ informed'[p] \subseteq Changed
                           /\ p # q \/ sign[q].step # "idle" => informed'[p] = informed[p]
    BY <1>2 DEF InformedInv, InformedTyped
  <2>4. \A r \in Changed : admin[r].alone => Grants(Claims(admin[r].account), admin[r].target)
    BY DoneGrants DEF Changed
  <2>5. /\ \A p \in SignIns \ {q} :
             /\ sign'[p].user = sign[p].user /\ sign'[p].granted = sign[p].granted
             /\ sign'[p].token = sign[p].token
        /\ sign'[q].granted =>
             \/ sign'[q].token = Claims(sign'[q].user)
             \/ /\ sign[q].step # "idle" /\ sign[q].granted
                /\ sign'[q].token = sign[q].token /\ sign'[q].user = sign[q].user
    BY <1>2, TokensAreClaims
  <2>6. ASSUME NEW p \in SignIns, sign'[p].granted, NEW r \in informed'[p],
               admin[r].alone, admin[r].account = sign'[p].user
        PROVE  Grants(sign'[p].token, admin[r].target)
    <3>1. CASE p # q
      BY <2>3, <2>5, <2>6, <3>1 DEF InformedInv
    <3>2. CASE p = q /\ sign'[q].token = Claims(sign'[q].user)
      BY <2>3, <2>4, <2>6, <3>2
    <3>3. CASE p = q /\ /\ sign[q].step # "idle" /\ sign[q].granted
                        /\ sign'[q].token = sign[q].token /\ sign'[q].user = sign[q].user
      BY <2>3, <2>6, <3>3 DEF InformedInv
    <3> QED
      BY <2>5, <2>6, <3>1, <3>2, <3>3
  <2>7. InformedInv'
    BY <1>2, <2>2, <2>3, <2>6 DEF InformedInv
  <2> QED
    BY <2>1, <2>7
<1>3. CASE UNCHANGED <<sign, admin, informed>>
  BY <1>3 DEF InformedTyped, InformedInv, Changed
<1> QED
  BY <1>1, <1>2, <1>3 DEF Next, Tick, vars, otpVars

LEMMA InitInformed ==
  ASSUME Init
  PROVE  InformedTyped /\ InformedInv
BY DEF Init, InformedTyped, InformedInv, OtpInit, IdleSignIn

LEMMA GivenInvariance == Spec => [](IInv /\ GivenInv /\ InformedTyped /\ InformedInv)
<1> DEFINE J == GivenInv /\ InformedTyped /\ InformedInv
<1>1. Init => J
  BY InitGiven, InitInformed
<1>2. IInv /\ IInv' /\ J /\ [Next]_vars => J'
  BY NextGiven, NextInformed
<1>3. Spec => []J
  <2> HIDE DEF J
  <2> QED
    BY <1>1, <1>2, Invariance, PTL DEF Spec
<1> QED
  BY <1>3, Invariance, PTL

-----------------------------------------------------------------------------
(* The label of an account                                                 *)

\* What the paths of an account's groups look like.
LEMMA PathsOfGroups ==
  ASSUME TypeInv, NEW u \in Users, NEW p \in {Path(g) : g \in member[u]}
  PROVE  \/ p = <<"staff">> /\ Len(p) = 1
         \/ p \in LeafGroups /\ p # FlatSuperAdmin
<1>1. PICK g \in member[u] : p = Path(g)
  OBVIOUS
<1>2. g \in LeafGroups \cup {<<"staff">>}
  BY DEF TypeInv, RealmTyped
<1>3. CASE g = <<"staff">>
  BY <1>1, <1>3, StaffPath
<1>4. CASE g = FlatSuperAdmin
  BY <1>1, <1>4, FlatGroup DEF LeafGroups, Global, FlatSuperAdmin
<1>5. CASE g \in LeafGroups /\ g # FlatSuperAdmin
  BY <1>1, <1>5, FlatGroup
<1> QED
  BY <1>2, <1>3, <1>4, <1>5

\* The role of each group is in the token.
LEMMA GroupRolesInToken ==
  ASSUME TypeInv, GroupsAreComplete, NEW u \in Users,
         NEW p \in {Path(g) : g \in member[u]}, p # <<"staff">>
  PROVE  PathRole(p) \in Claims(u).roles
<1>1. PICK g \in member[u] : p = Path(g)
  OBVIOUS
<1>2. g \in LeafGroups
  BY <1>1, StaffPath DEF TypeInv, RealmTyped
<1>3. <<g, PathRole(p)>> \in mapped /\ PathRole(p) \in Roles
  BY <1>1, <1>2, LeafRole DEF GroupsAreComplete
<1> DEFINE roles == direct[u] \cup {m[2] : m \in {m \in mapped : m[1] \in member[u]}}
<1>4. PathRole(p) \in roles
  BY <1>3
<1>5. PathRole(p) \in {normalize_role(r) : r \in roles} \ {NoRole}
  <2> HIDE DEF roles
  <2> QED
    BY <1>3, <1>4, NormalRoles
<1>6. {normalize_role(r) : r \in roles} \ {NoRole} \subseteq Claims(u).roles
  BY DEF Claims, claims_to_user
<1> QED
  BY <1>5, <1>6

LEMMA LabelInToken ==
  ASSUME TypeInv, GroupsAreComplete, NEW u \in Users
  PROVE  _access_summary_from_groups({Path(g) : g \in member[u]}).roles \subseteq Claims(u).roles
<1> DEFINE paths == {Path(g) : g \in member[u]}
           own == {p \in paths : Len(p) = 3 /\ p[1] = "states"}
           Named(leaf) == \E p \in paths : Len(p) > 1 /\ p[Len(p)] = leaf
           label == _access_summary_from_groups(paths)
<1>1. \A p \in paths :
        \/ p = <<"staff">> /\ Len(p) = 1
        \/ p \in LeafGroups /\ p # FlatSuperAdmin /\ PathRole(p) \in Claims(u).roles
  BY PathsOfGroups, GroupRolesInToken
<1> HIDE DEF paths
<1>2. CASE Named("super-admin")
  <2>1. PICK p \in paths : Len(p) > 1 /\ p[Len(p)] = "super-admin"
    BY <1>2
  <2>2. p \in LeafGroups /\ p # FlatSuperAdmin /\ PathRole(p) \in Claims(u).roles
    BY <1>1, <2>1
  <2>3. PathRole(p) = "super_admin"
    BY <2>1, <2>2, LeafShape
  <2>4. label.roles = {"super_admin"}
    BY <1>2 DEF _access_summary_from_groups, Summary
  <2> QED
    BY <2>2, <2>3, <2>4 DEF paths
<1>3. CASE ~Named("super-admin") /\ Named("bh-viewer")
  <2>1. PICK p \in paths : Len(p) > 1 /\ p[Len(p)] = "bh-viewer"
    BY <1>3
  <2>2. p \in LeafGroups /\ p # FlatSuperAdmin /\ PathRole(p) \in Claims(u).roles
    BY <1>1, <2>1
  <2>3. PathRole(p) = "bh_viewer"
    BY <2>1, <2>2, LeafShape
  <2>4. label.roles = {"bh_viewer"}
    BY <1>3 DEF _access_summary_from_groups, Summary
  <2> QED
    BY <2>2, <2>3, <2>4 DEF paths
<1>4. CASE ~Named("super-admin") /\ ~Named("bh-viewer")
  <2>1. label.roles = {normalize_role(p[3]) : p \in own}
    BY <1>4 DEF _access_summary_from_groups, Summary
  <2>2. \A p \in own : normalize_role(p[3]) = PathRole(p) /\ PathRole(p) \in Claims(u).roles
    BY <1>1 DEF PathRole
  <2> QED
    BY <2>1, <2>2 DEF paths
<1> QED
  BY <1>2, <1>3, <1>4

LEMMA LabelIsToken ==
  ASSUME TypeInv, GivenInv, NEW u \in Users,
         \A g, h \in Products(u) : g = h, direct[u] \subseteq DefaultRoles
  PROVE  LET label == _access_summary_from_groups({Path(g) : g \in member[u]})
         IN  label.roles = Claims(u).roles /\ label.states = Claims(u).instances
<1> DEFINE paths == {Path(g) : g \in member[u]}
           roles == direct[u] \cup {m[2] : m \in {m \in mapped : m[1] \in member[u]}}
           own == {p \in paths : Len(p) = 3 /\ p[1] = "states"}
           Named(leaf) == \E p \in paths : Len(p) > 1 /\ p[Len(p)] = leaf
           label == _access_summary_from_groups(paths)
           user == Claims(u)
<1>0. /\ member[u] \subseteq LeafGroups \cup {<<"staff">>}
      /\ \A m \in mapped : m[1] \in LeafGroups /\ m[2] = PathRole(Path(m[1]))
      /\ user = claims_to_user(paths, roles, {})
      /\ <<"staff">> \notin LeafGroups
  BY StaffPath, LeafGroupsAreProducts DEF TypeInv, RealmTyped, GivenInv, Claims
<1>1. CASE Products(u) = {}
  <2>1. member[u] \subseteq {<<"staff">>}
    BY <1>0, <1>1, LeafGroupsAreProducts DEF Products
  <2>2. paths \subseteq {<<"staff">>} /\ roles \subseteq DefaultRoles
    BY <1>0, <2>1, StaffPath
  <2> HIDE DEF paths, roles
  <2>3. own = {} /\ ~Named("super-admin") /\ ~Named("bh-viewer")
    BY <2>2, StaffPath
  <2>4. label.roles = {} /\ label.states = {}
    BY <2>3 DEF _access_summary_from_groups, Summary
  <2>5. \A s \in States : PathRoles(paths, s) = {}
    BY <2>2, StaffPath DEF PathRoles
  <2>6. DOMAIN parse_group_paths(paths) = {}
    BY <2>5 DEF parse_group_paths
  <2>7. GlobalRoles(paths) = {}
    BY <2>2, StaffPath DEF GlobalRoles, NoRole
  <2>8. {normalize_role(r) : r \in roles} \ {NoRole} = {}
    BY <2>2, NormalRoles DEF DefaultRoles
  <2>9. {parse_group_paths(paths)[s] : s \in DOMAIN parse_group_paths(paths)} = {}
    BY <2>6
  <2>10. user.roles = {} /\ user.instances = {}
    BY <1>0, <2>6, <2>7, <2>8, <2>9 DEF claims_to_user
  <2> QED
    BY <2>4, <2>10 DEF paths
<1>2. ASSUME NEW g \in Products(u)
      PROVE  label.roles = user.roles /\ label.states = user.instances
  <2> DEFINE leaf == Path(g)
  <2>1. g \in member[u] /\ g \in LeafGroups
    BY <1>0, <1>2, StaffPath DEF Products
  <2>2. \A h \in member[u] : h = g \/ h = <<"staff">>
    BY <1>0, <1>2, LeafGroupsAreProducts DEF Products
  <2>3. leaf \in paths /\ paths \subseteq {leaf, <<"staff">>}
    BY <2>1, <2>2, StaffPath
  <2>4. leaf \in LeafGroups /\ leaf # FlatSuperAdmin
    <3>1. \/ leaf = <<"staff">>
          \/ leaf \in LeafGroups /\ leaf # FlatSuperAdmin
      BY <2>3, PathsOfGroups
    <3> QED
      BY <2>1, <3>1, LeafGroupsAreProducts, StaffPath
  <2>5. roles \subseteq DefaultRoles \cup {PathRole(leaf)}
    BY <1>0, <2>2
  <2>c. user = claims_to_user(paths, roles, {})
    BY <1>0
  <2> HIDE DEF paths, roles, leaf, user
  <2>6. /\ user.roles = {PathRole(leaf)}
        /\ leaf[1] = "states" => user.instances = {leaf[2]}
        /\ leaf[1] # "states" => user.instances = {}
    <3>1. /\ user.roles = {PathRole(leaf)}
          /\ user.permissions = permissions_for_roles({PathRole(leaf)})
          /\ leaf[1] = "states" => /\ user.instances = {leaf[2]}
                                   /\ DOMAIN user.state_roles = {leaf[2]}
                                   /\ user.state_roles[leaf[2]] = PathRole(leaf)
          /\ leaf[1] # "states" => user.instances = {} /\ DOMAIN user.state_roles = {}
      BY <2>3, <2>4, <2>5, <2>c, OneGroupToken
    <3> QED
      BY <3>1
  <2>7. <<"staff">>[1] # "states" /\ Len(<<"staff">>) = 1
    BY StaffPath
  <2>8. CASE leaf[1] = "states"
    <3>1. Len(leaf) = 3 /\ normalize_role(leaf[3]) = PathRole(leaf)
          /\ leaf[3] \notin {"super-admin", "bh-viewer"}
      BY <2>4, <2>8, LeafShape
    <3>2. own = {leaf} /\ ~Named("super-admin") /\ ~Named("bh-viewer")
      BY <2>3, <2>7, <2>8, <3>1
    <3>3. label.roles = {normalize_role(p[3]) : p \in own} /\ label.states = {p[2] : p \in own}
      BY <3>2 DEF _access_summary_from_groups, Summary
    <3>4. label.roles = {PathRole(leaf)} /\ label.states = {leaf[2]}
      <4> HIDE DEF own, label
      <4> QED
        BY <3>1, <3>2, <3>3
    <3> QED
      BY <2>6, <2>8, <3>4
  <2>9. CASE leaf = Global("super-admin")
    <3>1. Len(leaf) = 2 /\ leaf[2] = "super-admin" /\ PathRole(leaf) = "super_admin"
          /\ leaf[1] # "states"
      BY <2>4, <2>9, LeafShape DEF Global
    <3>2. Named("super-admin")
      BY <2>3, <3>1
    <3>3. label.roles = {"super_admin"} /\ label.states = {}
      BY <3>2 DEF _access_summary_from_groups, Summary
    <3> QED
      BY <2>6, <3>1, <3>3
  <2>10. CASE leaf = Global("bh-viewer")
    <3>1. Len(leaf) = 2 /\ leaf[2] = "bh-viewer" /\ PathRole(leaf) = "bh_viewer"
          /\ leaf[1] # "states"
      BY <2>4, <2>10, LeafShape DEF Global
    <3>2. Named("bh-viewer") /\ ~Named("super-admin")
      BY <2>3, <2>7, <3>1
    <3>3. label.roles = {"bh_viewer"} /\ label.states = {}
      BY <3>2 DEF _access_summary_from_groups, Summary
    <3> QED
      BY <2>6, <3>1, <3>3
  <2> QED
    BY <2>4, <2>8, <2>9, <2>10, LeafShape
<1> QED
  BY <1>1, <1>2

-----------------------------------------------------------------------------
(* What administration promises                                            *)

\* A request that ends well, and that nobody disturbed, has given exactly the
\* access it was asked for: the next token of the account grants that and
\* nothing of what the account had (set_user_access leaves the other groups and
\* strips the direct roles; provision_user starts from nothing).
THEOREM AccessGivenAsAsked == Spec => []AccessAsGiven
<1>1. IInv /\ GivenInv => AccessAsGiven
  BY DoneGrants DEF AccessAsGiven
<1> QED
  BY <1>1, GivenInvariance, PTL

\* Requests do not make each other fail: as long as no call fails, none ends in
\* an error, whoever was faster with a role, a group, an address or a name
\* (conflicts are tolerated and looked up again).
THEOREM RequestsFailByFaultsOnly == Spec => []FailsOnlyByFault
<1>1. GivenInv => FailsOnlyByFault
  BY DEF GivenInv
<1> QED
  BY <1>1, GivenInvariance, PTL

\* The label the console shows for an account names roles its token has, and
\* for an account in one access group all of them and its state
\* (_access_summary_from_groups beside claims_to_user).
THEOREM LabelsTellTokens == Spec => []LabelTellsToken
<1>1. IInv /\ GivenInv => LabelTellsToken
  BY LabelInToken, LabelIsToken DEF IInv, GroupInv, LabelTellsToken
<1> QED
  BY <1>1, GivenInvariance, PTL

\* A session that begins after a change of access was answered carries it, in
\* whatever way the person signs in and whatever is changed for others
\* meanwhile ("they must re-login for the new role to apply").
THEOREM SessionsCarryChanges == Spec => []NextSignInCarriesChange
<1>1. InformedInv => NextSignInCarriesChange
  BY DEF InformedInv, NextSignInCarriesChange
<1> QED
  BY <1>1, GivenInvariance, PTL

-----------------------------------------------------------------------------
(* What a step of sign-in does to the row of a code                        *)

BeginMove(q) ==
  LET n == sign'[q]
      u == sign'[q].user
  IN
  /\ sign[q].step = "idle"
  /\ email_otps' = email_otps /\ inbox' = inbox
  /\ n.at = now
  /\ SigningBeside(q, u) # {} => ~n.alone
  /\ \/ /\ n.op = "send" /\ n.code = NoCode
        /\ n.step = "ok" \/ (n.step = "lookup" /\ ~Cooling(email_otps[u]))
     \/ /\ n.op = "verify" /\ n.row = email_otps[u]
        /\ n.step = Verdict(email_otps[u], n.code)
     \/ n.op \in {"sso", "refresh"} /\ n.step \in SignedOff

\* The calls of a request by what they do to the row and the mails.
CallMove(q) ==
  LET r == sign[q]
      n == sign'[q]
      u == sign[q].user
  IN
  /\ Signing(q)
  /\ n.op = r.op /\ n.user = u /\ n.at = r.at /\ n.row = r.row /\ n.alone = r.alone
  /\ \/ /\ r.step = "lookup" /\ n.step = "store"
        /\ n.code = IF exists[u] THEN q ELSE NoCode
        /\ email_otps' = email_otps /\ inbox' = inbox
     \/ /\ r.step = "store" /\ n.code = r.code
        /\ n.step = IF r.code = NoCode THEN "ok" ELSE "mail"
        /\ email_otps' = [email_otps EXCEPT ![u] = NewRow(q)] /\ inbox' = inbox
     \/ /\ r.step = "mail" /\ n.step = "ok" /\ n.code = r.code
        /\ email_otps' = email_otps
        /\ inbox' = inbox \/ inbox' = [inbox EXCEPT ![u] = @ \cup {r.code}]
     \/ /\ r.step \in {"drop", "spend"} /\ n.step \in {"refused", "find"} /\ n.code = r.code
        /\ email_otps' = [email_otps EXCEPT ![u] = NoRow] /\ inbox' = inbox
     \/ /\ r.step = "count" /\ n.step = "refused" /\ n.code = r.code
        /\ email_otps' = IF email_otps[u].present
                         THEN [email_otps EXCEPT ![u].attempts = @ + 1] ELSE email_otps
        /\ inbox' = inbox
     \/ /\ n.step \notin {"idle", "lookup", "store", "mail", "drop", "count", "spend"}
        /\ r.step # "mail"
        /\ n.code = r.code /\ email_otps' = email_otps /\ inbox' = inbox

LineMove(q) ==
  /\ now' = now /\ exists' = exists
  /\ \A p \in SignIns \ {q} :
       /\ sign'[p].op = sign[p].op /\ sign'[p].user = sign[p].user
       /\ sign'[p].step = sign[p].step /\ sign'[p].code = sign[p].code
       /\ sign'[p].at = sign[p].at /\ sign'[p].row = sign[p].row
       /\ sign'[p].alone => sign[p].alone
  /\ BeginMove(q) \/ CallMove(q)

LEMMA BeginsInLine ==
  ASSUME TypeInv, NEW q \in SignIns, NEW u \in Users, NEW r \in SignRecord, Begins(q, u, r),
         sign[q].step = "idle", UNCHANGED <<now, exists, email_otps, inbox>>,
         \/ /\ r.op = "send" /\ r.code = NoCode
            /\ r.step = "ok" \/ (r.step = "lookup" /\ ~Cooling(email_otps[u]))
         \/ /\ r.op = "verify" /\ r.row = email_otps[u]
            /\ r.step = Verdict(email_otps[u], r.code)
         \/ r.op \in {"sso", "refresh"} /\ r.step \in SignedOff
  PROVE  LineMove(q)
<1> DEFINE a == IF SigningBeside(q, u) = {} THEN r.alone ELSE FALSE
           r1 == [r EXCEPT !.user = u, !.at = now, !.alone = a]
<1>1. sign'[q] = r1
  BY DEF Begins
<1>2. /\ r1.user = u /\ r1.op = r.op /\ r1.code = r.code /\ r1.step = r.step
      /\ r1.row = r.row /\ r1.at = now /\ r1.alone = a
  BY DEF SignRecord
<1>3. \A p \in SignIns \ {q} :
        sign'[p] = sign[p] \/ sign'[p] = [sign[p] EXCEPT !.alone = FALSE]
  BY DEF Begins
<1>4. \A p \in SignIns \ {q} :
        /\ sign'[p].op = sign[p].op /\ sign'[p].user = sign[p].user
        /\ sign'[p].step = sign[p].step /\ sign'[p].code = sign[p].code
        /\ sign'[p].at = sign[p].at /\ sign'[p].row = sign[p].row
        /\ sign'[p].alone => sign[p].alone
  <2> SUFFICES ASSUME NEW p \in SignIns \ {q}
               PROVE  /\ sign'[p].op = sign[p].op /\ sign'[p].user = sign[p].user
                      /\ sign'[p].step = sign[p].step /\ sign'[p].code = sign[p].code
                      /\ sign'[p].at = sign[p].at /\ sign'[p].row = sign[p].row
                      /\ sign'[p].alone => sign[p].alone
    OBVIOUS
  <2>1. sign[p] \in SignRecord
    BY DEF TypeInv, OtpTyped
  <2>2. CASE sign'[p] = sign[p]
    BY <2>2
  <2>3. CASE sign'[p] = [sign[p] EXCEPT !.alone = FALSE]
    BY <2>1, <2>3 DEF SignRecord
  <2> QED
    BY <1>3, <2>2, <2>3
<1>5. SigningBeside(q, u) # {} => ~a
  OBVIOUS
<1> HIDE DEF a, r1
<1>6. BeginMove(q)
  BY <1>1, <1>2, <1>5 DEF BeginMove
<1> QED
  BY <1>4, <1>6 DEF LineMove

LEMMA MovesInLine ==
  ASSUME TypeInv, NEW q \in SignIns, NEW s, Moves(q, s)
  PROVE  /\ \A p \in SignIns \ {q} : sign'[p] = sign[p]
         /\ sign'[q].step = s
         /\ sign'[q].op = sign[q].op /\ sign'[q].user = sign[q].user
         /\ sign'[q].at = sign[q].at /\ sign'[q].row = sign[q].row
         /\ sign'[q].alone = sign[q].alone /\ sign'[q].code = sign[q].code
BY DEF TypeInv, OtpTyped, Moves, SignRecord

LEMMA SignInInLine ==
  ASSUME TypeInv, NEW q \in SignIns, SignInStep(q)
  PROVE  LineMove(q)
<1> DEFINE r == sign[q]
<1> USE DEF SignedOff, keycloakVars, accountVars
<1>0. r \in SignRecord /\ (\A p \in SignIns : sign[p] \in SignRecord)
      /\ exists' = exists
  BY SignInLeavesAccounts DEF TypeInv, OtpTyped
<1>i. IdleSignIn \in SignRecord /\ IdleSignIn.op = "send" /\ IdleSignIn.code = NoCode
  BY IdleSignInTyped DEF IdleSignIn
<1>1. CASE RequestCode(q)
  <2> PICK v \in Users : Begins(q, v, [IdleSignIn EXCEPT !.step =
                            IF Cooling(email_otps[v]) THEN "ok" ELSE "lookup"])
    BY <1>1 DEF RequestCode
  <2> DEFINE r1 == [IdleSignIn EXCEPT !.step =
                      IF Cooling(email_otps[v]) THEN "ok" ELSE "lookup"]
  <2>1. /\ r1 \in SignRecord /\ r1.op = "send" /\ r1.code = NoCode
        /\ r1.step = "ok" \/ (r1.step = "lookup" /\ ~Cooling(email_otps[v]))
    BY <1>i DEF SignRecord, SignSteps
  <2> HIDE DEF r1
  <2>2. Begins(q, v, r1)
    BY DEF r1
  <2> QED
    BY <1>0, <1>1, <2>1, <2>2, BeginsInLine DEF RequestCode
<1>2. CASE TypeCode(q)
  <2> PICK v \in Users : \E code \in inbox[v] \cup {Mistyped} :
         Begins(q, v, [IdleSignIn EXCEPT !.op = "verify", !.code = code,
                                         !.row = email_otps[v],
                                         !.step = Verdict(email_otps[v], code)])
    BY <1>2 DEF TypeCode
  <2> PICK code \in inbox[v] \cup {Mistyped} :
         Begins(q, v, [IdleSignIn EXCEPT !.op = "verify", !.code = code,
                                         !.row = email_otps[v],
                                         !.step = Verdict(email_otps[v], code)])
    OBVIOUS
  <2> DEFINE r1 == [IdleSignIn EXCEPT !.op = "verify", !.code = code, !.row = email_otps[v],
                                      !.step = Verdict(email_otps[v], code)]
  <2>1. code \in SignIns \cup {NoCode, Mistyped} /\ email_otps[v] \in Row
    BY DEF TypeInv, OtpTyped
  <2>2. Verdict(email_otps[v], code) \in SignSteps
    BY DEF Verdict, SignSteps
  <2>3. /\ r1 \in SignRecord /\ r1.op = "verify" /\ r1.row = email_otps[v]
        /\ r1.step = Verdict(email_otps[v], r1.code)
    BY <1>i, <2>1, <2>2 DEF SignRecord
  <2> HIDE DEF r1
  <2>4. Begins(q, v, r1)
    BY DEF r1
  <2> QED
    BY <1>0, <1>2, <2>3, <2>4, BeginsInLine DEF TypeCode
<1>s. ASSUME NEW u \in Users, NEW op \in {"sso", "refresh"}, Session(q, u, op),
             r.step = "idle", UNCHANGED <<now, email_otps, inbox>>
      PROVE  LineMove(q)
  <2> DEFINE fields == [IdleSignIn EXCEPT !.op = op]
             yes == [fields EXCEPT !.step = "ok", !.granted = TRUE, !.token = Claims(u)]
             no == [fields EXCEPT !.step = "refused"]
  <2>1. fields \in SignRecord /\ fields.op = op
    BY <1>i DEF SignRecord
  <2>2. /\ yes \in SignRecord /\ no \in SignRecord /\ yes.op = op /\ no.op = op
        /\ yes.step \in SignedOff /\ no.step \in SignedOff
    <3> HIDE DEF fields
    <3> QED
      BY <2>1, ClaimsTyped DEF SignRecord, SignSteps
  <2>3. Begins(q, u, yes) \/ Begins(q, u, no)
    BY <1>s DEF Session
  <2> HIDE DEF fields, yes, no
  <2> QED
    BY <1>0, <1>s, <2>2, <2>3, BeginsInLine
<1>3. CASE ExchangeCode(q)
  BY <1>3, <1>s DEF ExchangeCode
<1>4. CASE Refresh(q)
  BY <1>0, <1>4, <1>s DEF Refresh, SignRecord
<1>5. CASE LookupUser(q)
  <2>1. /\ \A p \in SignIns \ {q} : sign'[p] = sign[p]
        /\ sign'[q].step = "store" /\ sign'[q].code = IF exists[r.user] THEN q ELSE NoCode
        /\ sign'[q].op = r.op /\ sign'[q].user = r.user
        /\ sign'[q].at = r.at /\ sign'[q].row = r.row /\ sign'[q].alone = r.alone
    BY <1>5 DEF LookupUser, TypeInv, OtpTyped, SignRecord
  <2>2. CallMove(q)
    BY <1>5, <2>1 DEF LookupUser, CallMove, Signing
  <2> QED
    BY <1>0, <1>5, <2>1, <2>2 DEF LookupUser, LineMove
<1>6. CASE Rotate(q)
  <2>1. /\ \A p \in SignIns \ {q} : sign'[p] = sign[p]
        /\ sign'[q].step = "grant" /\ sign'[q].code = r.code
        /\ sign'[q].op = r.op /\ sign'[q].user = r.user
        /\ sign'[q].at = r.at /\ sign'[q].row = r.row /\ sign'[q].alone = r.alone
    BY <1>6 DEF Rotate, TypeInv, OtpTyped, SignRecord
  <2>2. CallMove(q)
    BY <1>6, <2>1 DEF Rotate, CallMove, Signing
  <2> QED
    BY <1>0, <1>6, <2>1, <2>2 DEF Rotate, LineMove
<1>7. CASE Grant(q)
  <2>1. /\ \A p \in SignIns \ {q} : sign'[p] = sign[p]
        /\ sign'[q].step = "again" /\ sign'[q].code = r.code
        /\ sign'[q].op = r.op /\ sign'[q].user = r.user
        /\ sign'[q].at = r.at /\ sign'[q].row = r.row /\ sign'[q].alone = r.alone
    BY <1>7 DEF Grant, TypeInv, OtpTyped, SignRecord
  <2>2. CallMove(q)
    BY <1>7, <2>1 DEF Grant, CallMove, Signing
  <2> QED
    BY <1>0, <1>7, <2>1, <2>2 DEF Grant, LineMove
<1>m. ASSUME NEW s, Moves(q, s), now' = now, Signing(q), CallMove(q)
      PROVE  LineMove(q)
  BY <1>0, <1>m, MovesInLine DEF LineMove
<1>8. CASE StoreCode(q)
  <2> DEFINE s == IF r.code = NoCode THEN "ok" ELSE "mail"
  <2>1. Moves(q, s) /\ now' = now
    BY <1>8 DEF StoreCode
  <2>2. CallMove(q)
    <3> HIDE DEF s
    <3>1. /\ sign'[q].step = s
          /\ sign'[q].op = sign[q].op /\ sign'[q].user = sign[q].user
          /\ sign'[q].at = sign[q].at /\ sign'[q].row = sign[q].row
          /\ sign'[q].alone = sign[q].alone /\ sign'[q].code = sign[q].code
      BY <2>1, MovesInLine
    <3> QED
      BY <1>8, <3>1 DEF StoreCode, CallMove, Signing, s
  <2> QED
    BY <1>m, <2>1, <2>2 DEF CallMove
<1>9. CASE Mail(q)
  BY <1>9, <1>m, MovesInLine DEF Mail, CallMove, Signing
<1>10. CASE MailFails(q)
  BY <1>10, <1>m, MovesInLine DEF MailFails, CallMove, Signing
<1>11. CASE DropRow(q)
  BY <1>11, <1>m, MovesInLine DEF DropRow, CallMove, Signing
<1>12. CASE CountAttempt(q)
  BY <1>12, <1>m, MovesInLine DEF CountAttempt, CallMove, Signing
<1>13. CASE SpendCode(q)
  BY <1>13, <1>m, MovesInLine DEF SpendCode, CallMove, Signing
<1>14. CASE FindUser(q)
  <2>1. \E s \in {"rotate", "refused"} : Moves(q, s)
    BY <1>14 DEF FindUser
  <2> QED
    BY <1>14, <1>m, <2>1, MovesInLine DEF FindUser, CallMove, Signing
<1>15. CASE RotateAgain(q)
  <2>1. \E s \in {"ok", "error"} : Moves(q, s)
    BY <1>15 DEF RotateAgain, Answered
  <2> QED
    BY <1>15, <1>m, <2>1, MovesInLine DEF RotateAgain, CallMove, Signing
<1>16. CASE RotationFails(q)
  <2>1. \E s \in {"ok", "error"} : Moves(q, s)
    BY <1>16 DEF RotationFails, Answered
  <2> QED
    BY <1>16, <1>m, <2>1, MovesInLine DEF RotationFails, CallMove, Signing
<1>17. CASE SignInFails(q)
  BY <1>17, <1>m, MovesInLine DEF SignInFails, CallMove, Signing
<1> QED
  BY <1>1, <1>2, <1>3, <1>4, <1>5, <1>6, <1>7, <1>8, <1>9, <1>10, <1>11, <1>12, <1>13,
     <1>14, <1>15, <1>16, <1>17 DEF SignInStep

-----------------------------------------------------------------------------
(* The latest code counts                                                  *)

\* Who has not looked yet has no code, a code that is about to be stored is
\* an account's, and codes were typed finitely often.
FreshInv ==
  /\ \A q \in SignIns :
       /\ sign[q].step \in {"idle", "lookup"} => sign[q].op = "send" /\ sign[q].code = NoCode
       /\ sign[q].step = "store" /\ sign[q].code # NoCode => exists[sign[q].user]
  /\ IsFiniteSet({v \in SignIns : sign[v].op = "verify"})

LEMMA WrongsCounted ==
  ASSUME FreshInv, NEW c
  PROVE  IsFiniteSet(Wrongs(c)) /\ Cardinality(Wrongs(c)) \in Nat
<1>1. Wrongs(c) \subseteq {v \in SignIns : sign[v].op = "verify"}
  BY DEF Wrongs
<1> QED
  BY <1>1, FS_Subset, FS_CardinalityType DEF FreshInv

LEMMA LinesKeepFresh ==
  ASSUME TypeInv, FreshInv, NEW q \in SignIns, LineMove(q)
  PROVE  FreshInv'
<1>1. \A p \in SignIns :
        sign'[p].step \in {"idle", "lookup"} => sign'[p].op = "send" /\ sign'[p].code = NoCode
  <2> SUFFICES ASSUME NEW p \in SignIns, sign'[p].step \in {"idle", "lookup"}
               PROVE  sign'[p].op = "send" /\ sign'[p].code = NoCode
    OBVIOUS
  <2>1. CASE p # q
    BY <2>1 DEF LineMove, FreshInv
  <2>2. CASE p = q /\ BeginMove(q)
    BY <2>2 DEF BeginMove, Verdict, SignedOff
  <2>3. CASE p = q /\ CallMove(q)
    BY <2>3 DEF CallMove
  <2> QED
    BY <2>1, <2>2, <2>3 DEF LineMove
<1>2. \A p \in SignIns :
        sign'[p].step = "store" /\ sign'[p].code # NoCode => exists'[sign'[p].user]
  <2> SUFFICES ASSUME NEW p \in SignIns, sign'[p].step = "store", sign'[p].code # NoCode
               PROVE  exists[sign'[p].user]
    BY DEF LineMove
  <2>1. CASE p # q
    BY <2>1 DEF LineMove, FreshInv
  <2>2. CASE p = q /\ BeginMove(q)
    BY <2>2 DEF BeginMove, Verdict, SignedOff
  <2>3. CASE p = q /\ CallMove(q)
    BY <2>3 DEF CallMove
  <2> QED
    BY <2>1, <2>2, <2>3 DEF LineMove
<1>3. IsFiniteSet({v \in SignIns : sign'[v].op = "verify"})
  <2> DEFINE V == {v \in SignIns : sign[v].op = "verify"}
             W == {v \in SignIns : sign'[v].op = "verify"}
  <2>1. W \subseteq V \cup {q}
    BY DEF LineMove
  <2>2. IsFiniteSet(V \cup {q})
    <3> HIDE DEF V
    <3>1. IsFiniteSet(V)
      BY DEF FreshInv, V
    <3> QED
      BY <3>1, FS_AddElement
  <2> HIDE DEF V, W
  <2>3. IsFiniteSet(W)
    BY <2>1, <2>2, FS_Subset
  <2> QED
    BY <2>3 DEF W
<1> QED
  BY <1>1, <1>2, <1>3 DEF FreshInv

\* Codes only get older: what was typed stays typed, what was sent stays sent.
Ageing ==
  /\ now =< now'
  /\ \A p \in SignIns :
       /\ sign[p].step # "idle" =>
            /\ sign'[p].op = sign[p].op /\ sign'[p].user = sign[p].user
            /\ sign'[p].at = sign[p].at /\ sign'[p].row = sign[p].row
       /\ sign[p].step \notin {"idle", "lookup"} => sign'[p].code = sign[p].code

LEMMA LinesAge ==
  ASSUME TypeInv, NEW q \in SignIns, LineMove(q)
  PROVE  Ageing
<1>1. now =< now'
  BY OtpAssumption DEF LineMove, TypeInv, OtpTyped
<1> SUFFICES ASSUME NEW p \in SignIns
             PROVE  /\ sign[p].step # "idle" =>
                         /\ sign'[p].op = sign[p].op /\ sign'[p].user = sign[p].user
                         /\ sign'[p].at = sign[p].at /\ sign'[p].row = sign[p].row
                    /\ sign[p].step \notin {"idle", "lookup"} => sign'[p].code = sign[p].code
  BY <1>1 DEF Ageing
<1>2. CASE p # q
  BY <1>2 DEF LineMove
<1>3. CASE p = q /\ BeginMove(q)
  BY <1>3 DEF BeginMove
<1>4. CASE p = q /\ CallMove(q)
  BY <1>4 DEF CallMove
<1> QED
  BY <1>2, <1>3, <1>4 DEF LineMove

LEMMA WrongsStay ==
  ASSUME FreshInv, FreshInv', Ageing, NEW c
  PROVE  /\ Wrongs(c) \subseteq Wrongs(c)'
         /\ Cardinality(Wrongs(c)) =< Cardinality(Wrongs(c))'
         /\ Cardinality(Wrongs(c)) \in Nat /\ Cardinality(Wrongs(c))' \in Nat
         /\ \A v \in Wrongs(c)' : v \notin Wrongs(c) =>
              Cardinality(Wrongs(c)) < Cardinality(Wrongs(c))'
<1> DEFINE W == Wrongs(c)
           W2 == Wrongs(c)'
<1>1. W \subseteq W2
  BY DEF Wrongs, Ageing, FreshInv
<1>2. IsFiniteSet(W) /\ Cardinality(W) \in Nat
  BY WrongsCounted
<1>3. IsFiniteSet(W2) /\ Cardinality(W2) \in Nat
  <2>1. W2 \subseteq {v \in SignIns : sign'[v].op = "verify"}
    BY DEF Wrongs
  <2>2. IsFiniteSet({v \in SignIns : sign'[v].op = "verify"})
    BY DEF FreshInv
  <2> HIDE DEF W2
  <2> QED
    BY <2>1, <2>2, FS_Subset, FS_CardinalityType
<1>4. Cardinality(W2) = Cardinality(Wrongs(c))'
  OBVIOUS
<1> HIDE DEF W, W2
<1>5. Cardinality(W) =< Cardinality(W2) /\ (Cardinality(W) = Cardinality(W2) => W = W2)
  BY <1>1, <1>3, FS_Subset
<1>6. \A v \in W2 : v \notin W => Cardinality(W) < Cardinality(W2)
  BY <1>2, <1>3, <1>5
<1> QED
  BY <1>1, <1>2, <1>3, <1>4, <1>5, <1>6 DEF W, W2

LEMMA OverStays ==
  ASSUME TypeInv, TypeInv', FreshInv, FreshInv', Ageing, NEW q \in SignIns,
         sign[q].step # "idle", Over(q)
  PROVE  Over(q)'
<1>1. now \in Nat /\ now' \in Nat /\ now =< now'
  BY OtpAssumption DEF TypeInv, OtpTyped, Ageing
<1>2. /\ sign'[q].at = sign[q].at /\ sign'[q].user = sign[q].user /\ sign[q].at \in Nat
  BY OtpAssumption DEF Ageing, TypeInv, OtpTyped, SignRecord
<1>3. CASE now > sign[q].at + OTP_TTL_SECONDS
  BY <1>1, <1>2, <1>3, OtpAssumption DEF Over
<1>4. CASE \E v \in SignIns : Typed(v, q)
  BY <1>4 DEF Over, Typed, Ageing, FreshInv
<1>5. CASE Cardinality(Wrongs(q)) >= OTP_MAX_ATTEMPTS
  BY <1>5, WrongsStay, OtpAssumption DEF Over
<1>6. CASE \E p \in SignIns : sign[p].user = sign[q].user /\ sign[p].op = "send"
                          /\ sign[p].code # NoCode /\ sign[p].at > sign[q].at
  BY <1>2, <1>6 DEF Over, Ageing, FreshInv
<1> QED
  BY <1>3, <1>4, <1>5, <1>6 DEF Over

\* Nobody else's request touches a person's row.
Quiet(u) == \A q \in SignIns : sign[q].user = u /\ sign[q].step # "idle" => sign[q].alone

LEMMA SentAge ==
  ASSUME TypeInv, TypeInv', CodeInv, FreshInv, FreshInv', Ageing,
         NEW u \in Users, NEW s \in Sent(u)
  PROVE  /\ s \in SignIns /\ sign[s].user = u /\ sign[s].op = "send"
         /\ sign[s].step \notin {"idle", "lookup", "store"}
         /\ sign'[s].at = sign[s].at /\ sign'[s].user = u
         /\ sign[s].at \in Nat
         /\ Over(s) => Over(s)'
<1>1. /\ s \in SignIns /\ sign[s].user = u /\ sign[s].op = "send"
      /\ sign[s].step \notin {"idle", "lookup", "store"}
  BY DEF Sent, CodeInv, InboxIssued, Issued, Unissued, StepsOfOps, SendSteps
<1>2. sign[s].at \in Nat
  BY <1>1, OtpAssumption DEF TypeInv, OtpTyped, SignRecord
<1>3. Over(s) => Over(s)'
  BY <1>1, OverStays
<1> QED
  BY <1>1, <1>2, <1>3 DEF Ageing

LEMMA SentMoves ==
  ASSUME TypeInv, CodeInv, NEW q \in SignIns, LineMove(q), NEW u \in Users
  PROVE  /\ Sent(u)' \subseteq Sent(u) \cup
              (IF sign[q].step = "store" /\ sign[q].code # NoCode /\ sign[q].user = u
               THEN {q} ELSE {})
<1> SUFFICES ASSUME NEW s \in Sent(u)', s \notin Sent(u)
             PROVE  /\ sign[q].step = "store" /\ sign[q].code # NoCode /\ sign[q].user = u
                    /\ s = q
  OBVIOUS
<1>1. inbox \in [Users -> SUBSET SignIns] /\ sign[q].user \in Users
  BY DEF TypeInv, OtpTyped, SignRecord
<1>2. CASE s \in inbox'[u]
  <2>1. CallMove(q) /\ sign[q].step = "mail" /\ inbox' = [inbox EXCEPT ![sign[q].user] = @ \cup {sign[q].code}]
    BY <1>2 DEF LineMove, BeginMove, CallMove, Sent
  <2>2. sign[q].user = u /\ s = sign[q].code
    BY <1>1, <1>2, <2>1 DEF Sent
  <2>3. sign[q].code = q
    BY <2>1 DEF CodeInv, OwnCode, StepsOfOps, SendSteps
  <2> QED
    BY <2>1, <2>2, <2>3 DEF Sent
<1>3. CASE s \in SignIns /\ sign'[s].step = "mail" /\ sign'[s].user = u
  <2>1. s = q
    BY <1>3 DEF LineMove, Sent
  <2>2. CASE BeginMove(q)
    BY <1>3, <2>1, <2>2 DEF BeginMove, Verdict, SignedOff
  <2>3. CASE CallMove(q)
    BY <1>3, <2>1, <2>3 DEF CallMove
  <2> QED
    BY <2>2, <2>3 DEF LineMove
<1> QED
  BY <1>2, <1>3 DEF Sent

LEMMA LinesElsewhere ==
  ASSUME TypeInv, TypeInv', CodeInv, FreshInv, FreshInv', Ageing, LatestInv,
         NEW q \in SignIns, LineMove(q), NEW u \in Users, sign'[q].user # u, Quiet(u)'
  PROVE  /\ \A s \in Sent(u)' : Over(s)' \/ RowOf(u, s)'
         /\ email_otps'[u].attempts =< Cardinality(Wrongs(email_otps[u].code))'
         /\ email_otps'[u] = email_otps[u]
         /\ \A v \in SignIns : sign'[v].user = u => InLine(u, v)'
<1>1. email_otps'[u] = email_otps[u]
  BY DEF LineMove, BeginMove, CallMove, TypeInv, OtpTyped
<1>2. sign[q].step = "idle" \/ sign[q].user # u
  BY DEF LineMove, BeginMove, CallMove
<1>3. Quiet(u)
  <2> SUFFICES ASSUME NEW p \in SignIns, sign[p].user = u, sign[p].step # "idle"
               PROVE  sign[p].alone
    BY DEF Quiet
  <2>1. p # q
    BY <1>2
  <2>2. sign'[p].user = u /\ sign'[p].step # "idle" /\ (sign'[p].alone => sign[p].alone)
    BY <2>1 DEF LineMove
  <2> QED
    BY <2>2 DEF Quiet
<1>4. /\ \A s \in Sent(u) : Over(s) \/ RowOf(u, s)
      /\ email_otps[u].attempts =< Cardinality(Wrongs(email_otps[u].code))
      /\ \A v \in SignIns : sign[v].user = u => InLine(u, v)
  BY <1>3 DEF LatestInv, Quiet
<1>5. Sent(u)' \subseteq Sent(u)
  <2>1. ~(sign[q].step = "store" /\ sign[q].user = u)
    BY <1>2
  <2> QED
    BY <2>1, SentMoves
<1>6. \A s \in Sent(u) : /\ s \in SignIns /\ sign'[s].at = sign[s].at
                         /\ Over(s) => Over(s)'
  BY SentAge
<1>7. \A s \in Sent(u)' : Over(s)' \/ RowOf(u, s)'
  BY <1>1, <1>4, <1>5, <1>6 DEF RowOf
<1>8. email_otps'[u].attempts =< Cardinality(Wrongs(email_otps[u].code))'
  <2>1. email_otps[u].attempts \in Nat
    BY DEF TypeInv, OtpTyped, Row
  <2> QED
    BY <1>1, <1>4, <2>1, WrongsStay
<1>9. ASSUME NEW v \in SignIns, sign'[v].user = u
      PROVE  InLine(u, v)'
  <2>0. v # q
    BY <1>9
  <2>1. /\ sign'[v].op = sign[v].op /\ sign[v].user = u
        /\ sign'[v].step = sign[v].step /\ sign'[v].code = sign[v].code
        /\ sign'[v].at = sign[v].at /\ sign'[v].row = sign[v].row /\ now' = now
    BY <1>9, <2>0 DEF LineMove
  <2>2. InLine(u, v)
    BY <1>4, <2>1
  <2>3. /\ email_otps[u].attempts \in Nat
        /\ Cardinality(Wrongs(email_otps[u].code)) =< Cardinality(Wrongs(email_otps[u].code))'
        /\ Cardinality(Wrongs(email_otps[u].code)) \in Nat
        /\ Cardinality(Wrongs(email_otps[u].code))' \in Nat
        /\ Cardinality(Wrongs(email_otps[u].code))' = Cardinality(Wrongs(email_otps[u].code))'
    BY <1>1, WrongsStay DEF TypeInv, OtpTyped, Row
  <2>4. sign[v].step = "count" =>
          email_otps'[u].attempts < Cardinality(Wrongs(email_otps[u].code))'
    BY <1>1, <2>2, <2>3 DEF InLine
  <2>5. /\ sign[v].step = "lookup" =>
             \A s \in Sent(u)' : Over(s)' \/ sign'[v].at > sign'[s].at
        /\ sign[v].step = "store" => \A s \in Sent(u)' : Over(s)'
    BY <1>5, <1>6, <2>1, <2>2 DEF InLine
  <2> QED
    BY <1>1, <2>1, <2>2, <2>4, <2>5 DEF InLine
<1> QED
  BY <1>1, <1>7, <1>8, <1>9

LEMMA BeginsOnLatest ==
  ASSUME TypeInv, TypeInv', CodeInv, FreshInv, FreshInv', Ageing, LatestInv,
         NEW q \in SignIns, LineMove(q), BeginMove(q),
         NEW u \in Users, sign'[q].user = u, Quiet(u)'
  PROVE  /\ \A s \in Sent(u)' : Over(s)' \/ RowOf(u, s)'
         /\ email_otps'[u].attempts =< Cardinality(Wrongs(email_otps[u].code))'
         /\ email_otps'[u] = email_otps[u]
         /\ \A v \in SignIns : sign'[v].user = u => InLine(u, v)'
<1> DEFINE row == email_otps[u]
           n == sign'[q]
<1>0. /\ row \in Row /\ row.attempts \in Nat /\ row.sent \in Nat /\ now \in Nat
      /\ n.step # "idle" /\ n.alone
  <2>1. n.step # "idle"
    BY DEF BeginMove, Verdict, SignedOff
  <2> QED
    BY <2>1, OtpAssumption DEF TypeInv, OtpTyped, Row, Quiet
<1>1. email_otps'[u] = row /\ now' = now /\ sign[q].step = "idle" /\ n.at = now
  BY DEF LineMove, BeginMove
<1>2. SigningBeside(q, u) = {}
  BY <1>0 DEF BeginMove
<1>3. Quiet(u)
  <2> SUFFICES ASSUME NEW p \in SignIns, sign[p].user = u, sign[p].step # "idle"
               PROVE  sign[p].alone
    BY DEF Quiet
  <2>1. p # q
    BY <1>1
  <2>2. sign'[p].user = u /\ sign'[p].step # "idle" /\ (sign'[p].alone => sign[p].alone)
    BY <2>1 DEF LineMove
  <2> QED
    BY <2>2 DEF Quiet
<1>4. /\ \A s \in Sent(u) : Over(s) \/ RowOf(u, s)
      /\ row.attempts =< Cardinality(Wrongs(row.code))
  BY <1>3 DEF LatestInv, Quiet
<1>5. Sent(u)' \subseteq Sent(u)
  BY <1>1, SentMoves
<1>6. \A s \in Sent(u) : /\ s \in SignIns /\ sign'[s].at = sign[s].at /\ sign[s].at \in Nat
                         /\ Over(s) => Over(s)'
  BY SentAge
<1>7. \A s \in Sent(u)' : Over(s)' \/ RowOf(u, s)'
  BY <1>1, <1>4, <1>5, <1>6 DEF RowOf
<1>w. /\ Cardinality(Wrongs(row.code)) =< Cardinality(Wrongs(row.code))'
      /\ Cardinality(Wrongs(row.code)) \in Nat
      /\ Cardinality(Wrongs(row.code))' \in Nat
      /\ \A v \in Wrongs(row.code)' : v \notin Wrongs(row.code) =>
              Cardinality(Wrongs(row.code)) < Cardinality(Wrongs(row.code))'
  <2>1. \A c : /\ Cardinality(Wrongs(c)) =< Cardinality(Wrongs(c))'
               /\ Cardinality(Wrongs(c)) \in Nat /\ Cardinality(Wrongs(c))' \in Nat
               /\ \A v \in Wrongs(c)' : v \notin Wrongs(c) =>
                    Cardinality(Wrongs(c)) < Cardinality(Wrongs(c))'
    BY WrongsStay
  <2> QED
    BY <1>1, <2>1
<1>8. row.attempts =< Cardinality(Wrongs(row.code))'
  BY <1>0, <1>4, <1>w
<1>9. InLine(u, q)'
  <2>1. CASE n.op = "send" /\ (n.step = "ok" \/ (n.step = "lookup" /\ ~Cooling(row)))
    <3>1. n.step = "lookup" => \A s \in Sent(u)' : Over(s)' \/ n.at > sign'[s].at
      <4> SUFFICES ASSUME n.step = "lookup", NEW s \in Sent(u)', ~Over(s)'
                   PROVE  n.at > sign'[s].at
        OBVIOUS
      <4>1. RowOf(u, s) /\ ~Cooling(row) /\ sign'[s].at = sign[s].at /\ sign[s].at \in Nat
        BY <1>4, <1>5, <1>6, <2>1
      <4>2. now - sign[s].at >= OTP_RESEND_COOLDOWN_SECONDS
        BY <4>1, <1>0, OtpAssumption DEF RowOf, Cooling
      <4> QED
        BY <4>1, <4>2, <1>0, <1>1, OtpAssumption
    <3> QED
      BY <2>1, <3>1 DEF InLine
  <2>2. CASE n.op = "verify" /\ n.row = row /\ n.step = Verdict(row, n.code)
    <3>1. n.step = "count" => row.attempts < Cardinality(Wrongs(row.code))'
      <4> SUFFICES ASSUME n.step = "count"
                   PROVE  row.attempts < Cardinality(Wrongs(row.code))'
        OBVIOUS
      <4>1. row.code # n.code
        BY <2>2 DEF Verdict
      <4>2. q \in Wrongs(row.code)'
        BY <1>1, <2>2, <4>1 DEF Wrongs
      <4>3. q \notin Wrongs(row.code)
        BY <1>1 DEF FreshInv, Wrongs
      <4> QED
        BY <4>2, <4>3, <1>0, <1>4, <1>w
    <3>2. /\ n.step = "drop" => now > row.expires \/ row.attempts >= OTP_MAX_ATTEMPTS
          /\ n.step = "count" => row.code # n.code
          /\ n.step = "spend" => row.code = n.code
          /\ n.step \notin {"lookup", "store"}
      BY <2>2 DEF Verdict
    <3> QED
      BY <1>1, <2>2, <3>1, <3>2 DEF InLine
  <2>3. CASE n.step \in SignedOff
    BY <2>3 DEF InLine, SignedOff
  <2> QED
    BY <2>1, <2>2, <2>3 DEF BeginMove
<1>10. ASSUME NEW v \in SignIns, sign'[v].user = u, v # q
       PROVE  InLine(u, v)'
  <2>1. sign'[v].step = sign[v].step /\ sign[v].user = u
    BY <1>10 DEF LineMove
  <2>2. sign'[v].step \in SignedOff \cup {"idle"}
    BY <1>2, <1>10, <2>1 DEF SigningBeside, Signing
  <2> QED
    BY <2>2 DEF InLine, SignedOff
<1> QED
  BY <1>1, <1>7, <1>8, <1>9, <1>10

LEMMA CallsOnLatest ==
  ASSUME TypeInv, TypeInv', CodeInv, FreshInv, FreshInv', Ageing, LatestInv,
         NEW q \in SignIns, LineMove(q), CallMove(q),
         NEW u \in Users, sign'[q].user = u, Quiet(u)'
  PROVE  /\ \A s \in Sent(u)' : Over(s)' \/ RowOf(u, s)'
         /\ email_otps'[u].attempts =< Cardinality(Wrongs(email_otps[u].code))'
         /\ \A v \in SignIns : sign'[v].user = u => InLine(u, v)'
<1> DEFINE row == email_otps[u]
           r == sign[q]
           n == sign'[q]
<1> USE DEF SignedOff
<1>0. /\ row \in Row /\ row.attempts \in Nat /\ row.sent \in Nat /\ now \in Nat
      /\ row.expires \in Nat /\ OTP_TTL_SECONDS \in Nat /\ OTP_MAX_ATTEMPTS \in Nat
      /\ email_otps \in [Users -> Row]
  BY OtpAssumption DEF TypeInv, OtpTyped, Row
<1>1. /\ now' = now /\ exists' = exists /\ r.user = u /\ Signing(q)
      /\ n.op = r.op /\ n.at = r.at /\ n.row = r.row /\ n.alone = r.alone
  BY DEF LineMove, CallMove
<1>2. r.alone
  <2>1. CASE n.step # "idle"
    BY <1>1, <2>1 DEF Quiet
  <2>2. CASE n.step = "idle"
    BY <2>2 DEF CallMove
  <2> QED
    BY <2>1, <2>2
<1>3. \A v \in SignIns \ {q} : sign[v].user = u => ~Signing(v)
  BY <1>1, <1>2 DEF CodeInv, NoneBeside
<1>4. Quiet(u)
  <2> SUFFICES ASSUME NEW p \in SignIns, sign[p].user = u, sign[p].step # "idle"
               PROVE  sign[p].alone
    BY DEF Quiet
  <2>1. CASE p # q
    <3>1. sign'[p].user = u /\ sign'[p].step # "idle" /\ (sign'[p].alone => sign[p].alone)
      BY <2>1 DEF LineMove
    <3> QED
      BY <3>1 DEF Quiet
  <2> QED
    BY <2>1, <1>2
<1>5. /\ \A s \in Sent(u) : Over(s) \/ RowOf(u, s)
      /\ row.attempts =< Cardinality(Wrongs(row.code))
      /\ InLine(u, q)
      /\ Sent(u) # {} => exists[u]
  BY <1>1, <1>4 DEF LatestInv, Quiet
<1>6. \A s \in Sent(u) : /\ s \in SignIns /\ sign'[s].at = sign[s].at /\ sign[s].at \in Nat
                         /\ sign[s].user = u /\ sign'[s].user = u
                         /\ Over(s) => Over(s)'
  BY SentAge
<1>7. ASSUME NEW v \in SignIns, sign'[v].user = u, v # q
      PROVE  InLine(u, v)'
  <2>1. sign'[v].step = sign[v].step /\ sign[v].user = u
    BY <1>7 DEF LineMove
  <2>2. sign'[v].step \in SignedOff \cup {"idle"}
    BY <1>3, <1>7, <2>1 DEF Signing
  <2> QED
    BY <2>2 DEF InLine
<1>w. \A c : /\ Cardinality(Wrongs(c)) =< Cardinality(Wrongs(c))'
             /\ Cardinality(Wrongs(c)) \in Nat /\ Cardinality(Wrongs(c))' \in Nat
  BY WrongsStay
<1>8. ASSUME email_otps' = email_otps, r.step # "store"
      PROVE  /\ \A s \in Sent(u)' : Over(s)' \/ RowOf(u, s)'
             /\ email_otps'[u].attempts =< Cardinality(Wrongs(email_otps[u].code))'
             /\ Sent(u)' \subseteq Sent(u)
  <2>1. Sent(u)' \subseteq Sent(u)
    BY <1>8, SentMoves
  <2>2. \A s \in Sent(u)' : Over(s)' \/ RowOf(u, s)'
    BY <1>5, <1>6, <1>8, <2>1 DEF RowOf
  <2>3. row.attempts =< Cardinality(Wrongs(row.code))'
    BY <1>0, <1>5, <1>8, <1>w
  <2> QED
    BY <1>8, <2>1, <2>2, <2>3
<1>9. CASE r.step = "lookup" /\ n.step = "store" /\ email_otps' = email_otps
           /\ n.code = IF exists[u] THEN q ELSE NoCode
  <2>1. \A s \in Sent(u)' : Over(s)'
    <3> SUFFICES ASSUME NEW s \in Sent(u)', ~Over(s)
                 PROVE  Over(s)'
      BY <1>6, <1>8, <1>9
    <3>1. s \in Sent(u)
      BY <1>8, <1>9
    <3>2. r.at > sign[s].at
      BY <1>5, <1>9, <3>1 DEF InLine
    <3>3. n.code = q /\ q # NoCode
      BY <1>5, <1>9, <3>1, CodesAssumption
    <3>4. n.op = "send"
      BY <1>1, <1>9 DEF CodeInv, StepsOfOps, SendSteps
    <3> QED
      BY <1>1, <1>6, <3>1, <3>2, <3>3, <3>4 DEF Over
  <2>2. InLine(u, q)'
    BY <1>9, <2>1 DEF InLine
  <2> QED
    BY <1>7, <1>8, <1>9, <2>2
<1>10. CASE /\ r.step = "store" /\ n.code = r.code /\ n.step \in {"ok", "mail"}
            /\ email_otps' = [email_otps EXCEPT ![u] = NewRow(q)]
  <2>1. email_otps'[u] = NewRow(q)
    BY <1>0, <1>10
  <2>2. ASSUME NEW s \in Sent(u)', ~Over(s)'
        PROVE  RowOf(u, s)'
    <3>1. s \notin Sent(u)
      BY <1>5, <1>6, <1>10, <2>2 DEF InLine
    <3>2. s = q /\ r.code # NoCode
      BY <2>2, <3>1, SentMoves
    <3>3. r.code = q
      BY <1>10, <3>2 DEF CodeInv, OwnCode, StepsOfOps, SendSteps
    <3> QED
      BY <1>1, <2>1, <3>2, <3>3 DEF RowOf, NewRow
  <2>3. email_otps'[u].attempts =< Cardinality(Wrongs(email_otps[u].code))'
    BY <1>w, <2>1 DEF NewRow
  <2>4. InLine(u, q)'
    BY <1>10 DEF InLine
  <2> QED
    BY <1>7, <2>2, <2>3, <2>4
<1>11. CASE r.step = "mail" /\ n.step = "ok" /\ email_otps' = email_otps
  <2>1. InLine(u, q)'
    BY <1>11 DEF InLine
  <2> QED
    BY <1>7, <1>8, <1>11, <2>1
<1>12. CASE /\ r.step \in {"drop", "spend"} /\ n.step \in {"refused", "find"}
            /\ email_otps' = [email_otps EXCEPT ![u] = NoRow]
  <2>1. email_otps'[u] = NoRow
    BY <1>0, <1>12
  <2>2. ASSUME NEW s \in Sent(u)'
        PROVE  Over(s)'
    <3>1. s \in Sent(u)
      BY <1>12, SentMoves
    <3>2. CASE Over(s)
      BY <1>6, <3>1, <3>2
    <3>3. CASE RowOf(u, s) /\ r.step = "drop"
      <4>1. now > row.expires \/ row.attempts >= OTP_MAX_ATTEMPTS
        BY <1>5, <3>3 DEF InLine
      <4>2. CASE now > row.expires
        <5>1. Over(s)
          BY <3>3, <4>2 DEF RowOf, Over
        <5> QED
          BY <1>6, <3>1, <5>1
      <4>3. CASE row.attempts >= OTP_MAX_ATTEMPTS
        <5>1. row.code = s
          BY <3>3 DEF RowOf
        <5>2. Cardinality(Wrongs(s)) >= OTP_MAX_ATTEMPTS
          BY <1>0, <1>5, <1>w, <4>3, <5>1
        <5>3. Over(s)
          BY <5>2 DEF Over
        <5> QED
          BY <1>6, <3>1, <5>3
      <4> QED
        BY <4>1, <4>2, <4>3
    <3>4. CASE RowOf(u, s) /\ r.step = "spend"
      <4>1. r.code = s
        BY <1>5, <3>4 DEF InLine, RowOf
      <4>2. r.op = "verify"
        BY <3>4 DEF CodeInv, StepsOfOps, VerifySteps
      <4>3. Over(s)
        BY <4>1, <4>2 DEF Over, Typed
      <4> QED
        BY <1>6, <3>1, <4>3
    <3> QED
      BY <1>5, <1>12, <3>1, <3>2, <3>3, <3>4
  <2>3. email_otps'[u].attempts =< Cardinality(Wrongs(email_otps[u].code))'
    BY <1>w, <2>1 DEF NoRow
  <2>4. InLine(u, q)'
    BY <1>12 DEF InLine
  <2> QED
    BY <1>7, <2>2, <2>3, <2>4
<1>13. CASE /\ r.step = "count" /\ n.step = "refused"
            /\ email_otps' = IF email_otps[u].present
                             THEN [email_otps EXCEPT ![u].attempts = @ + 1] ELSE email_otps
  <2>1. /\ email_otps'[u].attempts \in {row.attempts, row.attempts + 1}
        /\ email_otps'[u].code = row.code /\ email_otps'[u].present = row.present
        /\ email_otps'[u].expires = row.expires /\ email_otps'[u].sent = row.sent
    BY <1>0, <1>13 DEF Row
  <2>2. ASSUME NEW s \in Sent(u)'
        PROVE  Over(s)' \/ RowOf(u, s)'
    <3>1. s \in Sent(u)
      BY <1>13, SentMoves
    <3> QED
      BY <1>5, <1>6, <2>1, <3>1 DEF RowOf
  <2>3. email_otps'[u].attempts =< Cardinality(Wrongs(email_otps[u].code))'
    <3>1. row.attempts < Cardinality(Wrongs(row.code))
      BY <1>5, <1>13 DEF InLine
    <3>2. row.attempts + 1 =< Cardinality(Wrongs(row.code))'
      BY <1>0, <1>w, <2>1, <3>1
    <3> QED
      BY <1>0, <1>w, <2>1, <3>2
  <2>4. InLine(u, q)'
    BY <1>13 DEF InLine
  <2> QED
    BY <1>7, <2>2, <2>3, <2>4
<1>14. CASE /\ n.step \notin {"idle", "lookup", "store", "mail", "drop", "count", "spend"}
            /\ r.step # "mail" /\ email_otps' = email_otps
  <2>1. InLine(u, q)'
    BY <1>14 DEF InLine
  <2>2. CASE r.step # "store"
    BY <1>7, <1>8, <1>14, <2>1, <2>2
  <2>3. CASE r.step = "store"
    <3>1. Sent(u)' \subseteq Sent(u)
      BY <1>14 DEF LineMove, CallMove, Sent
    <3>2. \A s \in Sent(u)' : Over(s)' \/ RowOf(u, s)'
      BY <1>5, <1>6, <1>14, <3>1 DEF RowOf
    <3>3. row.attempts =< Cardinality(Wrongs(row.code))'
      BY <1>0, <1>5, <1>14, <1>w
    <3> QED
      BY <1>7, <1>14, <2>1, <3>2, <3>3
  <2> QED
    BY <2>2, <2>3
<1> QED
  BY <1>1, <1>9, <1>10, <1>11, <1>12, <1>13, <1>14 DEF CallMove

LEMMA LinesKeepLatest ==
  ASSUME TypeInv, TypeInv', CodeInv, FreshInv, FreshInv', LatestInv,
         NEW q \in SignIns, LineMove(q)
  PROVE  LatestInv'
<1>0. Ageing
  BY LinesAge
<1> SUFFICES ASSUME NEW u \in Users
             PROVE  /\ Sent(u)' # {} => exists'[u]
                    /\ Quiet(u)' =>
                         /\ \A s \in Sent(u)' : Over(s)' \/ RowOf(u, s)'
                         /\ email_otps'[u].attempts =<
                              Cardinality(Wrongs(email_otps[u].code))'
                         /\ \A v \in SignIns : sign'[v].user = u => InLine(u, v)'
  BY DEF LatestInv, Quiet
<1>1. Sent(u)' # {} => exists'[u]
  <2>1. exists' = exists
    BY DEF LineMove
  <2>2. Sent(u) # {} => exists[u]
    BY DEF LatestInv
  <2>3. sign[q].step = "store" /\ sign[q].code # NoCode /\ sign[q].user = u => exists[u]
    BY DEF FreshInv
  <2> QED
    BY <2>1, <2>2, <2>3, SentMoves
<1>2. ASSUME Quiet(u)'
      PROVE  /\ \A s \in Sent(u)' : Over(s)' \/ RowOf(u, s)'
             /\ email_otps'[u].attempts =< Cardinality(Wrongs(email_otps[u].code))'
             /\ \A v \in SignIns : sign'[v].user = u => InLine(u, v)'
  <2>1. CASE sign'[q].user # u
    BY <1>0, <1>2, <2>1, LinesElsewhere
  <2>2. CASE sign'[q].user = u /\ BeginMove(q)
    BY <1>0, <1>2, <2>2, BeginsOnLatest
  <2>3. CASE sign'[q].user = u /\ CallMove(q)
    BY <1>0, <1>2, <2>3, CallsOnLatest
  <2> QED
    BY <2>1, <2>2, <2>3 DEF LineMove
<1> QED
  BY <1>1, <1>2

\* The clock, and what others do to accounts, leave the codes as they are.
LEMMA TimeKeepsLatest ==
  ASSUME TypeInv, TypeInv', CodeInv, FreshInv, LatestInv,
         UNCHANGED <<email_otps, inbox, sign>>, now =< now',
         \A u \in Users : exists[u] => exists'[u]
  PROVE  FreshInv' /\ LatestInv'
<1>1. FreshInv'
  <2>1. \A p \in SignIns : sign[p].user \in Users
    BY DEF TypeInv, OtpTyped, SignRecord
  <2> QED
    BY <2>1 DEF FreshInv
<1>2. Ageing
  BY DEF Ageing
<1> SUFFICES ASSUME NEW u \in Users
             PROVE  /\ Sent(u)' # {} => exists'[u]
                    /\ Quiet(u) =>
                         /\ \A s \in Sent(u)' : Over(s)' \/ RowOf(u, s)'
                         /\ email_otps'[u].attempts =<
                              Cardinality(Wrongs(email_otps[u].code))'
                         /\ \A v \in SignIns : sign'[v].user = u => InLine(u, v)'
  BY <1>1 DEF LatestInv, Quiet
<1>3. Sent(u)' = Sent(u)
  BY DEF Sent
<1>4. \A s \in Sent(u) : Over(s) => Over(s)'
  BY <1>1, <1>2, SentAge
<1>5. \A c : Wrongs(c)' = Wrongs(c)
  BY DEF Wrongs
<1>6. ASSUME Quiet(u)
      PROVE  /\ \A s \in Sent(u)' : Over(s)' \/ RowOf(u, s)'
             /\ email_otps'[u].attempts =< Cardinality(Wrongs(email_otps[u].code))'
             /\ \A v \in SignIns : sign'[v].user = u => InLine(u, v)'
  <2>1. /\ \A s \in Sent(u) : Over(s) \/ RowOf(u, s)
        /\ email_otps[u].attempts =< Cardinality(Wrongs(email_otps[u].code))
        /\ \A v \in SignIns : sign[v].user = u => InLine(u, v)
    BY <1>6 DEF LatestInv, Quiet
  <2>2. \A s \in Sent(u)' : Over(s)' \/ RowOf(u, s)'
    BY <1>3, <1>4, <2>1 DEF RowOf
  <2>3. ASSUME NEW v \in SignIns, sign'[v].user = u
        PROVE  InLine(u, v)'
    <3>1. InLine(u, v)
      BY <2>1, <2>3
    <3>2. now \in Nat /\ now' \in Nat /\ email_otps[u].expires \in Nat
      BY OtpAssumption DEF TypeInv, OtpTyped, Row
    <3>3. Wrongs(email_otps[u].code)' = Wrongs(email_otps[u].code)
      BY <1>5
    <3> QED
      BY <1>3, <1>4, <3>1, <3>2, <3>3 DEF InLine
  <2>4. Wrongs(email_otps[u].code)' = Wrongs(email_otps[u].code)
    BY <1>5
  <2> QED
    BY <2>1, <2>2, <2>3, <2>4
<1> QED
  BY <1>3, <1>6 DEF LatestInv

LEMMA NextLatest ==
  ASSUME IInv, IInv', GivenInv, FreshInv, LatestInv, [Next]_vars
  PROVE  FreshInv' /\ LatestInv'
<1> USE DEF IInv
<1>1. ASSUME NEW q \in AdminRequests, AdminStep(q), UNCHANGED otpVars
      PROVE  FreshInv' /\ LatestInv'
  <2>1. AccountMove(q)
    <3>1. Course(q)
      BY DEF GivenInv, Course
    <3>2. faults' \in Nat
      BY <1>1, AdminStepTyped, FaultsAssumption DEF RealmTyped
    <3> QED
      BY <1>1, <3>1, <3>2, StepsOnCourse DEF GivenInv, OwnCourse
  <2>2. \A u \in Users : exists[u] => exists'[u]
    BY <2>1 DEF AccountMove
  <2>3. now' = now /\ now \in Nat
    BY <1>1, OtpAssumption DEF otpVars, TypeInv, OtpTyped
  <2> QED
    BY <1>1, <2>2, <2>3, TimeKeepsLatest DEF otpVars
<1>2. ASSUME NEW q \in SignIns, SignInStep(q)
      PROVE  FreshInv' /\ LatestInv'
  BY <1>2, SignInInLine, LinesKeepFresh, LinesKeepLatest
<1>3. CASE UNCHANGED <<email_otps, inbox, sign, exists>> /\ now' \in {now, now + 1}
  <2>1. now \in Nat
    BY OtpAssumption DEF TypeInv, OtpTyped
  <2> QED
    BY <1>3, <2>1, TimeKeepsLatest
<1> QED
  BY <1>1, <1>2, <1>3 DEF Next, Tick, vars, otpVars, keycloakVars, accountVars

LEMMA InitLatest ==
  ASSUME Init
  PROVE  FreshInv /\ LatestInv
<1>1. /\ sign = [q \in SignIns |-> IdleSignIn] /\ inbox = [u \in Users |-> {}]
      /\ email_otps = [u \in Users |-> NoRow]
      /\ IdleSignIn.step = "idle" /\ IdleSignIn.op = "send" /\ IdleSignIn.code = NoCode
  BY DEF Init, OtpInit, IdleSignIn
<1>2. {v \in SignIns : sign[v].op = "verify"} = {}
  BY <1>1
<1>3. FreshInv
  BY <1>1, <1>2, FS_EmptySet DEF FreshInv
<1>4. \A u \in Users : Sent(u) = {}
  BY <1>1 DEF Sent
<1>5. \A u \in Users : email_otps[u].attempts = 0
  BY <1>1 DEF NoRow
<1>6. \A u \in Users, v \in SignIns : InLine(u, v)
  BY <1>1 DEF InLine
<1> QED
  BY <1>3, <1>4, <1>5, <1>6, WrongsCounted DEF LatestInv

LEMMA LatestInvariance == Spec => [](FreshInv /\ LatestInv)
<1> DEFINE J == FreshInv /\ LatestInv
           K == IInv /\ GivenInv /\ InformedTyped /\ InformedInv
<1>1. Init => J
  BY InitLatest
<1>2. K /\ K' /\ J /\ [Next]_vars => J'
  BY NextLatest
<1>3. Spec => []K
  BY GivenInvariance
<1> QED
  <2> HIDE DEF J, K
  <2>1. Spec => []J
    BY <1>1, <1>2, <1>3, PTL DEF Spec
  <2> QED
    BY <2>1 DEF J

\* The last code a person was mailed signs in, whatever was done to the row
\* since, one request after the other: the row is overwritten by a later code,
\* and deleted or counted only for a reason that makes the code invalid
\* (send_otp, verify_otp).
THEOREM LatestCodesCount == Spec => []LatestCodeCounts
<1>1. TypeInv /\ CodeInv /\ FreshInv /\ LatestInv => LatestCodeCounts
  <2> SUFFICES ASSUME TypeInv, CodeInv, FreshInv, LatestInv,
                      NEW u \in Users, OneByOne(u), NEW q \in inbox[u],
                      now =< sign[q].at + OTP_TTL_SECONDS,
                      ~\E v \in SignIns : Typed(v, q),
                      Cardinality(Wrongs(q)) < OTP_MAX_ATTEMPTS,
                      ~\E p \in SignIns : sign[p].user = u /\ sign[p].op = "send"
                               /\ sign[p].code # NoCode /\ sign[p].at > sign[q].at
               PROVE  Verdict(email_otps[u], q) = "spend"
    BY DEF LatestCodeCounts
  <2>1. q \in Sent(u) /\ q \in SignIns /\ sign[q].user = u /\ sign[q].at \in Nat
    BY OtpAssumption DEF Sent, CodeInv, InboxIssued, Issued, TypeInv, OtpTyped, SignRecord
  <2>2. now \in Nat /\ OTP_TTL_SECONDS \in Nat /\ OTP_MAX_ATTEMPTS \in Nat
        /\ email_otps[u].attempts \in Nat /\ Cardinality(Wrongs(q)) \in Nat
    BY OtpAssumption, WrongsCounted DEF TypeInv, OtpTyped, Row
  <2>3. ~Over(q)
    BY <2>1, <2>2 DEF Over
  <2>4. RowOf(u, q) /\ email_otps[u].attempts =< Cardinality(Wrongs(email_otps[u].code))
    BY <2>1, <2>3 DEF LatestInv, OneByOne
  <2>5. email_otps[u].attempts < OTP_MAX_ATTEMPTS /\ ~(now > email_otps[u].expires)
    BY <2>1, <2>2, <2>4 DEF RowOf
  <2> QED
    BY <2>2, <2>4, <2>5 DEF RowOf, Verdict
<1>2. IInv => TypeInv /\ CodeInv
  BY DEF IInv
<1> QED
  BY <1>1, <1>2, Invariance, LatestInvariance, PTL

\* What is behind the accesses, the sessions and the codes: types, the course of
\* every request, what it has done to its account if nobody disturbed it, what
\* every session knew when it began, and that the row of an address is its last
\* code's (set_user_access, provision_user, send_otp, verify_otp).
THEOREM AccountsInvariant == Spec => []AccountsInv
<1> QED
  BY GivenInvariance, LatestInvariance, AccountsTypeCorrect, PTL DEF AccountsInv
==============================================================================
