---------------------------- MODULE MCCredentials ----------------------------
(* Credentials for TLC: model values for users, rows and calls.             *)
EXTENDS Credentials, TLC

CONSTANTS u1, u2

(* One account changes its password twice, the other is a bystander.        *)
MCUser == {u1, u2}
MCMaxGen == (u1 :> 2) @@ (u2 :> 0)

(* Bound: the bystander only holds a session, has one request at a time and  *)
(* is not deleted; the other account is deleted only while it has written   *)
(* one password at most, and has no reset open that it could write no more. *)
Bystander ==
  /\ u2 \in users
  /\ u1 \in users \/ gen[u1] <= 1
  /\ gen[u1] = MaxGen[u1] => open = {}
  /\ \A s, q \in Session : sUser[s] = u2 /\ sUser[q] = u2 => s = q
  /\ \A t \in Token : tUser[t] # u2
  /\ \A r \in Reset : rUser[r] # u2
  /\ \A c, d \in Call : usr[c] = u2 /\ usr[d] = u2 => c = d
  /\ \A c \in Call : ~(usr[c] = u2 /\ pc[c] \in {"mint", "verify"})

Symmetry ==
  Permutations(Session) \cup Permutations(Token) \cup Permutations(Reset)
    \cup Permutations(Call)
=============================================================================
