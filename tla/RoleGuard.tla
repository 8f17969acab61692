------------------------------ MODULE RoleGuard ------------------------------
(***************************************************************************)
(* role.guard.ts: a route names roles, or none; the guard compares the     *)
(* level of the role in the caller's token with the lowest of them.        *)
(***************************************************************************)
EXTENDS Integers, FiniteSets

Roles == {"ADMIN", "PROVIDER", "CLIENT"}

UserRoleLevel == [ADMIN |-> 99, PROVIDER |-> 70, CLIENT |-> 50]

\* A route that names no role is for administrators.
rolesRequired(named) == IF named = {} THEN {"ADMIN"} ELSE named

\* userLevel < requiredLevel is refused.
canActivate(named, role) ==
  \E required \in rolesRequired(named) :
    UserRoleLevel[role] >= UserRoleLevel[required]
=============================================================================
