------------------------------ MODULE MCSignIn ------------------------------
(* Instances of SignIn for TLC.                                            *)
EXTENDS SignIn, TLC

CONSTANTS MH, UP, u1, u2, a1, a2, o1, o2, o3

\* Two people with the same name before the @.
SameName == [u \in Users |-> "ravi"]

SomeTargets == {Targeted("super_admin", NoState, NoRole), Targeted("bh_viewer", NoState, NoRole),
                Targeted("state", MH, "state_contributor"), Targeted("state", UP, "staff")}

Scene(requests, people, things, accounts, groups, roles) ==
  [requests |-> requests, people |-> people, realm |-> things,
   accounts |-> accounts, groups |-> groups, roles |-> roles]

Imported == Things \ {FlatSuperAdmin}

\* Two changes at once: of two people in an empty realm, of one person in an
\* imported one, and where the super-admin group is of the old kind.
AdminScenes ==
  {Scene(AdminRequests, Users, {<<"staff">>}, {u2}, {}, {}),
   Scene(AdminRequests, {u1}, Imported, {u1}, {<<"staff">>, <<"states", UP, "view">>},
         {"offline_access", "state_approver"}),
   Scene(AdminRequests, {u1}, {FlatSuperAdmin, RealmRole("super_admin")}, {u1},
         {FlatSuperAdmin}, {})}

\* Three sign-ins of one person, with an account and without; and two beside
\* a change of access.
SignInScenes ==
  {Scene(SignIns, {u1}, Imported, {u1}, {<<"states", UP, "view">>}, {}),
   Scene(SignIns, {u1}, Imported, {}, {}, {})}

MixedScenes ==
  {Scene({a, o, p}, {u1}, Imported, {u1}, {<<"states", UP, "view">>}, {"state_approver"}) :
     a \in AdminRequests, <<o, p>> \in {<<o, p>> \in SignIns \X SignIns : o # p}}

AllScenes == AdminScenes \cup SignInScenes \cup MixedScenes

Symmetry == Permutations(AdminRequests) \cup Permutations(SignIns)
=============================================================================
