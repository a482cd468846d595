----------------------------- MODULE MCPasswdless -----------------------------
(* Passwdless for TLC: model values for users, challenges, sessions, calls. *)
EXTENDS Passwdless, TLC

Symmetry ==
  Permutations(Challenge) \cup Permutations(Session) \cup Permutations(Call)
    \cup Permutations(User)
=============================================================================
