------------------------------- MODULE MCPasskey -------------------------------
(* Passkey for TLC: two accounts, of which one has no passkeys of its own.   *)
EXTENDS Passkey, FiniteSets, TLC

CONSTANTS u1, u2

MCUser == {u1, u2}

(* Bounds: three ceremonies, or two of them and one of: a second credential, *)
(* an account that is renamed or deleted, a ceremony that gets too old.  The *)
(* second account is there to come by the name of the first: it registers    *)
(* when that was renamed or deleted, and begins no ceremony.                 *)
Bound ==
  /\ Cardinality(Begun) + Cardinality(lost) + Cardinality(aged)
       + Cardinality({k \in Cred : device[k] # None}) <= 4
  /\ name[u2] # None => u1 \in lost
  /\ \A c \in Call : usr[c] = u2 => pc[c] # "list"

Symmetry ==
  Permutations(Name) \cup Permutations(Cred) \cup Permutations(Ceremony)
    \cup Permutations(Session) \cup Permutations(Call)
=============================================================================
