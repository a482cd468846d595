------------------------------- MODULE Accounts -------------------------------
(***************************************************************************)
(* The table users as the login flows see it: register in                  *)
(* src/authn/domain/user/service.rs, the rename and the deletion that the  *)
(* admin viewset of src/authn/admin.rs offers, and the lookup by username. *)
(* Each is one statement.  The unique e-mail is not modelled: it never     *)
(* changes, and one in use refuses a registration as a name in use does.   *)
(***************************************************************************)
CONSTANTS
  User,     \* primary keys of users, drawn at random and never again
  Name,     \* usernames
  None

ASSUME NoneAssumption == None \notin User \cup Name
ASSUME KeysAssumption == User \cap Name = {}

VARIABLES
  name,     \* column username; None where there is no row
  lost      \* history: accounts that were renamed or deleted

accountVars == <<name, lost>>

Exists(u) == name[u] # None
Free(n) == \A u \in User : name[u] # n

AccountsInit ==
  /\ name = [u \in User |-> None]
  /\ lost = {}

(* The INSERT fails, and the request with it, when the name is taken.       *)
Register(u, n) ==
  /\ name[u] = None /\ u \notin lost /\ Free(n)
  /\ name' = [name EXCEPT ![u] = n]
  /\ UNCHANGED lost

Rename(u, n) ==
  /\ Exists(u) /\ Free(n)
  /\ name' = [name EXCEPT ![u] = n]
  /\ lost' = lost \cup {u}

Remove(u) ==
  /\ Exists(u)
  /\ name' = [name EXCEPT ![u] = None]
  /\ lost' = lost \cup {u}

AccountsTypeOK ==
  /\ name \in [User -> Name \cup {None}]
  /\ lost \subseteq User
=============================================================================
