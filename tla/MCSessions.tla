------------------------------ MODULE MCSessions ------------------------------
(***************************************************************************)
(* Small instances of Sessions: user 1 is an administrator, 2 a client.    *)
(***************************************************************************)
EXTENDS Sessions, TLC

CONSTANTS c1, c2

TwoCallers == {c1, c2}
Symmetry == Permutations(TwoCallers)

OneAccount == {1}
TwoAccounts == {1, 2}
Administrator == 1 :> "ADMIN"
AdministratorAndClient == 1 :> "ADMIN" @@ 2 :> "CLIENT"
=============================================================================
