-------------------------------- MODULE JwtPool --------------------------------
(***************************************************************************)
(* Refresh tokens over the pool of connections that the whole service      *)
(* shares.  A request takes a connection for its first statement; a        *)
(* refresh keeps it until its transaction ends, and in between looks its   *)
(* user up on a second one, unless the cache has the user.  Requests that  *)
(* have nothing to do with refresh tokens borrow connections as well.      *)
(***************************************************************************)
EXTENDS JwtService

CONSTANT Pool    \* max_connections

ASSUME PoolAssumption == Pool \in Nat \ {0}

VARIABLES
  conn,    \* calls that hold a connection
  lent     \* connections that other requests hold

poolVars == <<vars, conn, lent>>

PoolFree == Cardinality(conn) + lent < Pool
FirstPC == {"select", "update", "scan", "lock"}

(* Slip: only a commit gives the connection back.                           *)
ReleaseOnCommit(c) ==
  /\ conn' = IF pc[c] = "commit" /\ pc'[c] = "idle" THEN conn \ {c} ELSE conn
  /\ UNCHANGED lent

(* The connection goes back when the request ends, however it ends.         *)
Release(c) ==
  /\ conn' = IF pc'[c] = "idle" THEN conn \ {c} ELSE conn
  /\ UNCHANGED lent

PoolInit == Init /\ conn = {} /\ lent = 0

(* Slip: the pool opens one connection more for a request.                  *)
AcquireExtra(c) ==
  /\ pc[c] \in FirstPC /\ c \notin conn
  /\ conn' = conn \cup {c}
  /\ UNCHANGED <<vars, lent>>

Acquire(c) ==
  /\ pc[c] \in FirstPC /\ c \notin conn /\ PoolFree
  /\ conn' = conn \cup {c}
  /\ UNCHANGED <<vars, lent>>

(* Slip: a call waits for a connection as long as it takes.                 *)
AcquireForever(c) == FALSE /\ UNCHANGED poolVars

(* No connection within acquire_timeout: PoolTimedOut ends the call.  For   *)
(* refresh, that is UserNotFound, and its transaction is rolled back.       *)
AcquireTimeout(c) ==
  /\ ~PoolFree
  /\ pc[c] = "retrieve" \/ (pc[c] \in FirstPC /\ c \notin conn)
  /\ Abort(c)
  /\ Release(c)

(* A statement of the call on the connection it holds.                      *)
Statement(c) ==
  /\ c \in conn /\ pc[c] # "retrieve"
  /\ Advance(c)
  /\ Release(c)

(* user_repo.retrieve: on a second connection, or from the cache.           *)
RetrieveFromDb(c) == c \in conn /\ PoolFree /\ RefreshRetrieve(c) /\ Release(c)
RetrieveFromCache(c) == c \in conn /\ RefreshRetrieve(c) /\ Release(c)

Lend == PoolFree /\ lent' = lent + 1 /\ UNCHANGED <<vars, conn>>
GiveBack == lent > 0 /\ lent' = lent - 1 /\ UNCHANGED <<vars, conn>>

PoolNext ==
  \/ \E c \in Call :
       \/ Request(c) /\ UNCHANGED <<conn, lent>>
       \/ Acquire(c) \/ AcquireTimeout(c) \/ Statement(c)
       \/ RetrieveFromDb(c) \/ RetrieveFromCache(c)
       \/ Abort(c) /\ Release(c)
  \/ \E u \in User : PoolFree /\ IssueTokenPair(u) /\ UNCHANGED <<conn, lent>>
  \/ \E t \in Token : Expire(t) /\ UNCHANGED <<conn, lent>>
  \/ Lend \/ GiveBack

PoolSpec == PoolInit /\ [][PoolNext]_poolVars

(* tokio polls every ready future and Postgres answers every statement.     *)
(* Strong fairness is for what waits for a lock or a connection: Postgres   *)
(* and the pool grant them in the order they were asked for, and Postgres   *)
(* breaks deadlocks.  Nothing is assumed of the cache.                      *)
PoolFairness ==
  /\ WF_poolVars(GiveBack)
  /\ \A c \in Call :
       /\ SF_poolVars(Statement(c)) /\ SF_poolVars(Acquire(c))
       /\ SF_poolVars(RetrieveFromDb(c))
       /\ WF_poolVars(BreakDeadlock(c) /\ Release(c))
       /\ WF_poolVars(AcquireTimeout(c))

PoolFairSpec == PoolSpec /\ PoolFairness

-----------------------------------------------------------------------------
PoolTypeOK ==
  /\ TypeOK
  /\ conn \subseteq Call /\ lent \in Nat
  /\ Cardinality(conn) + lent <= Pool

(* When the pool is exhausted, somebody can still give a connection back:   *)
(* another request, a refresh whose wait for a second connection times out, *)
(* a call with a connection whose statement waits for no lock, or one of a  *)
(* deadlock that Postgres breaks.  The requests that hold the connections   *)
(* never all wait for one that has none.                                    *)
PoolNeverWedged ==
  ~PoolFree =>
    \/ lent > 0
    \/ \E c \in conn : pc[c] = "retrieve" \/ Running(c) \/ InDeadlock(c)

(* Every request is answered: no call waits for a row lock or for a         *)
(* connection forever.                                                      *)
EveryCallReturns == \A c \in Call : pc[c] # "idle" ~> pc[c] = "idle"

(* Refreshes that hold every connection while each asks for another do not  *)
(* lock the service up: a connection is free again and again.               *)
PoolRecovers == []<>PoolFree
=============================================================================
