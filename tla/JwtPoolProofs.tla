----------------------------- MODULE JwtPoolProofs -----------------------------
(***************************************************************************)
(* The pool only delays and ends requests: with it, refresh tokens behave  *)
(* as without it, so that what is proved of JwtService holds for any size  *)
(* of the pool; and however calls wait for locks and for connections, the  *)
(* pool is never exhausted by calls none of which can go on.               *)
(***************************************************************************)
EXTENDS JwtPool, TokenStoreProofs

LEMMA PoolStep == [PoolNext]_poolVars => [Next]_vars
<1> SUFFICES ASSUME [PoolNext]_poolVars PROVE [Next]_vars
  OBVIOUS
<1>1. ASSUME NEW c \in Call, Acquire(c) PROVE UNCHANGED vars
  BY <1>1 DEF Acquire
<1>2. ASSUME NEW c \in Call,
             Statement(c) \/ RetrieveFromDb(c) \/ RetrieveFromCache(c)
      PROVE  Advance(c)
  BY <1>2 DEF Statement, RetrieveFromDb, RetrieveFromCache, Advance
<1>3. ASSUME NEW c \in Call, AcquireTimeout(c) PROVE Abort(c)
  BY <1>3 DEF AcquireTimeout
<1>4. CASE Lend \/ GiveBack
  BY <1>4 DEF Lend, GiveBack
<1>5. CASE UNCHANGED poolVars
  BY <1>5 DEF poolVars
<1> QED
  BY <1>1, <1>2, <1>3, <1>4, <1>5 DEF PoolNext, Next

(* Every behaviour with the pool is one of JwtService.                      *)
THEOREM PoolImplementsJwtService == PoolSpec => Spec
<1>1. PoolInit => Init
  BY DEF PoolInit
<1> QED
  BY <1>1, PoolStep, PTL DEF PoolSpec, Spec

(* A refresh that waits for a second connection and times out, or finds     *)
(* none at all, never loses the token it was given.                         *)
THEOREM PoolKeepsRotationAtomic == PoolSpec => RotationAtomic
  BY PoolImplementsJwtService, RotationIsAtomic

(* However requests wait for connections, tokens keep their promise.        *)
THEOREM PoolKeepsTokenPromise == PoolSpec => KeepsTokenPromise
  BY PoolImplementsJwtService, ImplementsTokenStore

-----------------------------------------------------------------------------
(* The connections in use are counted, a call past its first statement has  *)
(* one and an idle call has none.                                           *)
ConnOK ==
  /\ conn \subseteq Call /\ lent \in Nat
  /\ IsFiniteSet(conn) /\ Cardinality(conn) + lent <= Pool
  /\ \A c \in Call : pc[c] \notin FirstPC \cup {"idle"} => c \in conn
  /\ \A c \in conn : pc[c] # "idle"

PoolInv == IInv /\ ConnOK

LEMMA ConnFinite ==
  ASSUME ConnOK
  PROVE  Cardinality(conn) \in Nat
  BY FS_CardinalityType DEF ConnOK

LEMMA ReleaseSize ==
  ASSUME ConnOK, NEW c \in Call
  PROVE  /\ IsFiniteSet(conn \ {c})
         /\ Cardinality(conn \ {c}) \in Nat
         /\ Cardinality(conn \ {c}) <= Cardinality(conn)
<1>1. IsFiniteSet(conn \ {c}) /\ Cardinality(conn \ {c}) <= Cardinality(conn)
  BY FS_Subset DEF ConnOK
<1> QED
  BY <1>1, FS_CardinalityType

(* A statement of c, the end of c included, is no step of another call.     *)
LEMMA AdvanceFrame ==
  ASSUME TypeOK, NEW c \in Call, Advance(c) \/ Abort(c)
  PROVE  /\ pc[c] # "idle" /\ pc'[c] \notin FirstPC
         /\ \A d \in Call \ {c} : pc'[d] = pc[d]
<1>1. \A d \in Call \ {c} : pc'[d] = pc[d]
  BY DEF TypeOK, Advance, RefreshSelect, RefreshRetrieve, RefreshDelete, RefreshInsert,
         RefreshCommit, Logout, RevokeAllScan, RevokeAllApply, LockNextRow,
         RemoveUserLock, RemoveUserCascade, Abort, Return, Goto
<1>2. CASE Abort(c)
  BY <1>1, <1>2 DEF TypeOK, Abort, Return, Goto, FirstPC
<1>3. CASE Advance(c)
  <2>1. pc[c] # "idle"
    BY <1>3 DEF Advance, RefreshSelect, RefreshRetrieve, RefreshDelete, RefreshInsert,
         RefreshCommit, Logout, RevokeAllScan, RevokeAllApply, LockNextRow,
         RemoveUserLock, RemoveUserCascade
  <2>2. pc'[c] \in {"idle", "retrieve", "delete", "insert", "commit", "apply", "cascade"}
    BY <1>3 DEF TypeOK, Advance, RefreshSelect, RefreshRetrieve, RefreshDelete,
         RefreshInsert, RefreshCommit, Logout, RevokeAllScan, RevokeAllApply,
         LockNextRow, RemoveUserLock, RemoveUserCascade, Return, Goto
  <2> QED
    BY <1>1, <2>1, <2>2 DEF FirstPC
<1> QED
  BY <1>2, <1>3

(* A call that holds its connection through a statement, or gives it back   *)
(* at its end.                                                              *)
LEMMA ReleaseStep ==
  ASSUME IInv, ConnOK, NEW c \in Call, Advance(c) \/ Abort(c), Release(c),
         c \in conn \/ pc'[c] = "idle"
  PROVE  ConnOK'
<1>1. /\ pc'[c] \notin FirstPC
      /\ \A d \in Call \ {c} : pc'[d] = pc[d]
  BY AdvanceFrame DEF IInv
<1>2. CASE pc'[c] = "idle"
  <2>1. conn' = conn \ {c} /\ lent' = lent
    BY <1>2 DEF Release
  <2>2. lent \in Nat /\ Cardinality(conn) + lent <= Pool
    BY DEF ConnOK
  <2>3. /\ IsFiniteSet(conn') /\ Cardinality(conn') \in Nat
        /\ Cardinality(conn') <= Cardinality(conn)
    BY <2>1, ReleaseSize
  <2>4. Cardinality(conn') + lent' <= Pool
    BY <2>1, <2>2, <2>3, ConnFinite, PoolAssumption
  <2> QED
    BY <1>1, <1>2, <2>1, <2>3, <2>4 DEF ConnOK
<1>3. CASE pc'[c] # "idle"
  <2>1. conn' = conn /\ lent' = lent /\ c \in conn
    BY <1>3 DEF Release
  <2> QED
    BY <1>1, <1>3, <2>1 DEF ConnOK
<1> QED
  BY <1>2, <1>3

LEMMA ConnOKStep ==
  ASSUME IInv, ConnOK, [PoolNext]_poolVars
  PROVE  ConnOK'
<1>1. ASSUME NEW c \in Call, Request(c), UNCHANGED <<conn, lent>> PROVE ConnOK'
  <2>1. /\ pc[c] = "idle" /\ pc'[c] \in FirstPC
        /\ \A d \in Call \ {c} : pc'[d] = pc[d]
    BY <1>1 DEF IInv, TypeOK, Request, RefreshBegin, LogoutBegin, RevokeAllBegin,
                RemoveUserBegin, Goto, FirstPC
  <2>2. c \notin conn /\ pc'[c] # "idle"
    BY <2>1 DEF ConnOK, FirstPC
  <2> QED
    BY <1>1, <2>1, <2>2 DEF ConnOK
<1>2. ASSUME NEW c \in Call, Acquire(c) PROVE ConnOK'
  <2>1. /\ conn' = conn \cup {c} /\ UNCHANGED <<pc, lent>> /\ c \notin conn
        /\ pc[c] # "idle"
    BY <1>2 DEF Acquire, vars, callVars, FirstPC
  <2>2. IsFiniteSet(conn') /\ Cardinality(conn') = Cardinality(conn) + 1
    BY <2>1, FS_AddElement DEF ConnOK
  <2>3. Cardinality(conn) + lent < Pool
    BY <1>2 DEF Acquire, PoolFree
  <2>4. Cardinality(conn') + lent' <= Pool
    BY <2>1, <2>2, <2>3, ConnFinite, PoolAssumption DEF ConnOK
  <2> QED
    BY <2>1, <2>2, <2>4 DEF ConnOK
<1>3. ASSUME NEW c \in Call, AcquireTimeout(c) \/ (Abort(c) /\ Release(c))
      PROVE  ConnOK'
  <2>1. Abort(c) /\ Release(c)
    BY <1>3 DEF AcquireTimeout
  <2>2. pc'[c] = "idle"
    BY <2>1 DEF Abort, Return, Goto, IInv, TypeOK
  <2> QED
    BY <2>1, <2>2, ReleaseStep
<1>4. ASSUME NEW c \in Call, Statement(c) \/ RetrieveFromDb(c) \/ RetrieveFromCache(c)
      PROVE  ConnOK'
  <2>1. Advance(c) /\ Release(c) /\ c \in conn
    BY <1>4 DEF Statement, RetrieveFromDb, RetrieveFromCache, Advance
  <2> QED
    BY <2>1, ReleaseStep
<1>5. ASSUME UNCHANGED <<pc, conn>>, lent' \in Nat, Cardinality(conn) + lent' <= Pool
      PROVE  ConnOK'
  BY <1>5 DEF ConnOK
<1>6. CASE Lend \/ GiveBack
  <2>1. UNCHANGED <<pc, conn>>
    BY <1>6 DEF Lend, GiveBack, vars, callVars
  <2>2. lent \in Nat /\ Cardinality(conn) + lent <= Pool
    BY DEF ConnOK
  <2>3. CASE Lend
    <3>1. lent' = lent + 1 /\ Cardinality(conn) + lent < Pool
      BY <2>3 DEF Lend, PoolFree
    <3>2. lent' \in Nat /\ Cardinality(conn) + lent' <= Pool
      BY <2>2, <3>1, ConnFinite, PoolAssumption
    <3> QED
      BY <1>5, <2>1, <3>2
  <2>4. CASE GiveBack
    <3>1. lent > 0 /\ lent' = lent - 1
      BY <2>4 DEF GiveBack
    <3>2. lent' \in Nat /\ Cardinality(conn) + lent' <= Pool
      BY <2>2, <3>1, ConnFinite, PoolAssumption
    <3> QED
      BY <1>5, <2>1, <3>2
  <2> QED
    BY <1>6, <2>3, <2>4
<1>7. CASE \/ \E u \in User : IssueTokenPair(u) /\ UNCHANGED <<conn, lent>>
           \/ \E t \in Token : Expire(t) /\ UNCHANGED <<conn, lent>>
           \/ UNCHANGED poolVars
  <2>1. UNCHANGED <<pc, conn, lent>>
    BY <1>7 DEF IssueTokenPair, Expire, poolVars, vars, callVars
  <2> QED
    BY <2>1 DEF ConnOK
<1> QED
  BY <1>1, <1>2, <1>3, <1>4, <1>6, <1>7 DEF PoolNext

LEMMA PoolInitInv == PoolInit => PoolInv
<1> SUFFICES ASSUME PoolInit PROVE PoolInv
  OBVIOUS
<1>1. IInv
  BY InitInv DEF PoolInit
<1>2. ConnOK
  BY FS_EmptySet, PoolAssumption DEF PoolInit, Init, ConnOK
<1> QED
  BY <1>1, <1>2 DEF PoolInv

(* Locks and connections together: the inductive invariant with the pool.   *)
THEOREM PoolInvariance == PoolSpec => []PoolInv
<1>1. PoolInv /\ [PoolNext]_poolVars => PoolInv'
  BY PoolStep, StepInv, ConnOKStep DEF PoolInv
<1> QED
  BY <1>1, PoolInitInv, PTL DEF PoolSpec

(* The pool never hands out more connections than it has, for any size of   *)
(* the pool and any number of calls.                                        *)
THEOREM PoolTypeCorrectness == PoolSpec => []PoolTypeOK
<1>1. PoolInv => PoolTypeOK
  BY DEF PoolInv, IInv, ConnOK, PoolTypeOK
<1> QED
  BY <1>1, PoolInvariance, PTL

(* Whoever holds a lock that a call waits for, or is further ahead of it,   *)
(* has its connection already.                                              *)
LEMMA AheadAreConnected ==
  ASSUME PoolInv, NEW c \in Call
  PROVE  Ahead(c) \subseteq conn
  BY AheadAreHolders DEF PoolInv, ConnOK, Holder, FirstPC

(* An exhausted pool always has a way out, for any size of the pool and any *)
(* number of calls: the part of PoolRecovers that needs no fairness.        *)
THEOREM PoolIsNeverWedged == PoolSpec => []PoolNeverWedged
<1>1. PoolInv => PoolNeverWedged
  <2> SUFFICES ASSUME PoolInv, ~PoolFree, lent = 0
               PROVE  \E c \in conn : pc[c] = "retrieve" \/ Running(c) \/ InDeadlock(c)
    BY DEF PoolNeverWedged, PoolInv, ConnOK
  <2>1. Cardinality(conn) # 0
    BY ConnFinite, PoolAssumption DEF PoolFree, PoolInv
  <2>2. PICK c \in conn : c \in Call /\ pc[c] # "idle"
    BY <2>1, FS_EmptySet DEF PoolInv, ConnOK
  <2>3. CASE WaitsFor(c) = {}
    BY <2>2, <2>3 DEF Running
  <2>4. CASE WaitsFor(c) # {}
    <3>1. Ahead(c) \subseteq conn
      BY <2>2, AheadAreConnected
    <3>2. IsFiniteSet(Ahead(c))
      BY <3>1, FS_Subset DEF PoolInv, ConnOK
    <3>3. PICK d \in Ahead(c) : Ready(d) \/ (InDeadlock(d) /\ Sweep(d))
      BY <2>2, <2>4, <3>2, WaitEnds DEF PoolInv
    <3> QED
      BY <3>1, <3>3 DEF Ready
  <2> QED
    BY <2>3, <2>4
<1> QED
  BY <1>1, PoolInvariance, PTL
=============================================================================
