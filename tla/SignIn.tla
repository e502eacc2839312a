------------------------------- MODULE SignIn -------------------------------
(***************************************************************************)
(* User administration and sign-in on one Keycloak realm: what super       *)
(* admins change with UserAdmin, and what the sessions of EmailOtp carry.  *)
(***************************************************************************)
EXTENDS UserAdmin, EmailOtp

CONSTANT Scenes    \* bound: the situations to look at, each a record of
                   \*   requests  the requests that come in together
                   \*   people    whom they are about
                   \*   realm     the roles and groups that exist at first
                   \*   accounts  the people who have an account then
                   \*   groups    the groups these accounts are in
                   \*   roles     the realm roles they have directly

\* An account is in groups that exist, and that have a meaning here.
ASSUME ScenesAssumption ==
  \A s \in Scenes :
    /\ s.realm \subseteq Things
    /\ s.groups \subseteq s.realm \cap (LeafGroups \cup {<<"staff">>})
    /\ s.roles \subseteq Roles \cup DefaultRoles

VARIABLES
  scene,           \* the situation of this behaviour
  informed         \* the changes of access that were answered before a sign-in began

vars == <<keycloakVars, admin, otpVars, scene, informed>>

\* Every leaf group of a realm has its role, as realm import leaves it.
Init ==
  /\ scene \in Scenes
  /\ realm = scene.realm
  /\ mapped = {<<g, PathRole(Path(g))>> : g \in scene.realm \cap LeafGroups}
  /\ exists = [u \in Users |-> u \in scene.accounts]
  /\ enabled = exists
  /\ member = [u \in Users |-> IF exists[u] THEN scene.groups ELSE {}]
  /\ direct = [u \in Users |-> IF exists[u] THEN scene.roles ELSE {}]
  /\ password = [u \in Users |-> NoPassword]
  /\ faults = 0
  /\ AdminInit /\ OtpInit
  /\ informed = [q \in SignIns |-> {}]

Changed == {r \in AdminRequests : admin[r].step = "ok" /\ admin[r].op = "set_access"}

Next ==
  \/ \E q \in AdminRequests \cap scene.requests :
       /\ AdminStep(q)
       /\ admin'[q].account \in scene.people
       /\ UNCHANGED <<otpVars, scene, informed>>
  \/ \E q \in SignIns \cap scene.requests :
       /\ SignInStep(q)
       /\ sign'[q].user \in scene.people
       /\ informed' = IF sign[q].step = "idle" THEN [informed EXCEPT ![q] = Changed]
                      ELSE informed
       /\ UNCHANGED <<admin, scene>>
  \/ /\ SignIns \cap scene.requests # {}
     /\ Tick
     /\ UNCHANGED <<admin, scene, informed>>

Spec == Init /\ [][Next]_vars

-----------------------------------------------------------------------------
\* Types of all parts.
TypeOK == AdminTypeOK /\ OtpTypeOK

\* "They must re-login for the new role to apply": a session that begins, by
\* any of the three ways, after a change of access was answered has what the
\* change gave and nothing of what was before, unless somebody changed the
\* account once more.
NextSignInCarriesChange ==
  \A q \in SignIns : sign[q].step = "ok" /\ sign[q].granted =>
    \A r \in informed[q] :
      /\ admin[r].alone
      /\ admin[r].account = sign[q].user
      => Grants(sign[q].token, admin[r].target)

-----------------------------------------------------------------------------
\* Why a session carries the change: the change was answered and done when
\* the session began, and it is remembered with what the token gives.
InformedInv ==
  \A q \in SignIns :
    /\ informed[q] \subseteq Changed
    /\ sign[q].granted =>
         \A r \in informed[q] : admin[r].alone /\ admin[r].account = sign[q].user =>
                                  Grants(sign[q].token, admin[r].target)

\* Types, and the reasons the access is as given and the latest code counts.
AccountsInv == TypeOK /\ GivenInv /\ InformedInv /\ LatestInv
=============================================================================
