----------------------------- MODULE MCJwtService -----------------------------
(* JwtService for TLC: model values for users, tokens and calls.             *)
EXTENDS JwtService, TLC

(* Bound: either time closes one token, or one user is deleted; logout and   *)
(* revoke-all close any number.                                              *)
Bound == Cardinality(expired) + Cardinality(User \ users) <= 1

(* Tokens, calls and users are interchangeable. *)
Symmetry == Permutations(Token) \cup Permutations(Call) \cup Permutations(User)
=============================================================================
