-------------------------- MODULE MCStaffAccounts --------------------------
(***************************************************************************)
(* Instances of StaffAccounts for TLC.                                     *)
(***************************************************************************)
EXTENDS StaffAccounts, TLC

CONSTANTS a, b, c, admin, r, n, x   \* accounts, roles, a permission of the rest

\* The seeded administrator, a holder of an ordinary role, an account and a role to
\* create.
SeededRole == [ro \in Roles |->
    CASE ro = admin -> [state |-> "live", perms |-> {Super}]
      [] ro = r     -> [state |-> "live", perms |-> {ManageRoles}]
      [] OTHER      -> [state |-> "none", perms |-> {}]]
SeededUser == [u \in Users |->
    [NewUser EXCEPT !.state = IF u = c THEN "none" ELSE "active",
                    !.roles = CASE u = a -> {admin} [] u = b -> {r} [] OTHER -> {}]]

\* As above, but the ordinary role also manages accounts.
SeededManagers == [SeededRole EXCEPT ![r].perms = {ManageRoles, ManageUsers}]

RoleGrants == {{}, {ManageRoles}, {x}}

Symmetry == Permutations(Requests)
=============================================================================
