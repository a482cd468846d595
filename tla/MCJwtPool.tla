------------------------------- MODULE MCJwtPool -------------------------------
(* JwtPool for TLC: as many connections as calls, which are not enough for   *)
(* two refreshes at once.  Tokens are numbers.                               *)
EXTENDS JwtPool

(* A generated token is the least unused one.  This loses nothing, for       *)
(* unused tokens are alike (TLC's symmetry sets are not for liveness).       *)
LeastUnused ==
  \A t \in Unused \ Unused', s \in Unused \cap Unused' : t < s

(* Bounds, on steps that are not fair: one token is issued, the others come  *)
(* from refreshes; one token expires; one connection is lent.                *)
Bound ==
  /\ Cardinality({t \in minted' : parent'[t] = NoToken}) <= 1
  /\ Cardinality(expired') <= 1
  /\ lent' <= 1

MCSpec ==
  PoolInit /\ [][PoolNext /\ LeastUnused /\ Bound]_poolVars /\ PoolFairness
=============================================================================
