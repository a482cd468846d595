------------------------------ MODULE JwtService ------------------------------
(***************************************************************************)
(* Refresh tokens: src/authn/domain/jwt/service.rs over the Postgres table *)
(* refresh_tokens.                                                         *)
(*                                                                         *)
(* A call slot runs one request at a time.  A step of a call is one        *)
(* database statement together with the code up to the next await, so two  *)
(* calls interleave between the statements of a transaction as they do at  *)
(* READ COMMITTED: a statement sees committed rows, DELETE and UPDATE wait *)
(* for the transaction that holds the row and then look at the row it left *)
(* behind.  A statement on many rows takes them one by one, a step each,   *)
(* and keeps those it has while it waits for the next.  The random raw     *)
(* tokens and their hashes are the elements of Token; a generated token    *)
(* never repeats.                                                          *)
(***************************************************************************)
EXTENDS FiniteSets, Naturals

CONSTANTS
  User,     \* primary keys of users
  Token,    \* token hashes; Supply bounds how many a behaviour may generate
  Call,     \* request slots
  NoToken, NoUser

ASSUME NoTokenAssumption == NoToken \notin Token
ASSUME NoUserAssumption == NoUser \notin User

VARIABLES
  users,    \* committed rows of users
  rows,     \* committed rows of refresh_tokens
  owner,    \* column user_id of a token
  revoked,  \* tokens whose column revoked is TRUE
  expired,  \* tokens whose column expires_at has passed
  minted,   \* every token ever committed, which are those a client may hold
  parent,   \* history: the token a minted token was exchanged for
  pc, usr,  \* per call: next statement, user it is for
  tok,      \* per call: token presented, or the row its statement is at
  new,      \* per call: row inserted by its open transaction
  held,     \* per call: rows its open transaction deleted or updated: locked
  snap,     \* per call: rows its statement on many rows still has to visit
  quiet     \* history: revoke-all calls that no mint for their user overlaps

tableVars == <<users, rows, owner, revoked, expired, minted, parent>>
callVars == <<pc, tok, usr, new, held, snap>>
vars == <<tableVars, callVars, quiet>>

RefreshPC == {"select", "retrieve", "delete", "insert", "commit"}
PC == RefreshPC \cup {"idle", "update", "scan", "apply", "lock", "cascade"}

(* Past SELECT: the call has judged its token good and will not look again. *)
AcceptedPC == RefreshPC \ {"select"}
InFlight(t) == {c \in Call : pc[c] \in AcceptedPC /\ tok[c] = t}

Live == rows \ (revoked \cup expired)
Closed == minted \ Live
OwnedBy(u) == {t \in rows : owner[t] = u}

(* Row locks held by other transactions. *)
RowFree(c, t) == \A d \in Call \ {c} : t \notin held[d]
UserRowFree(u) == \A d \in Call : ~(pc[d] = "cascade" /\ usr[d] = u)
KeyShareFree(u) == \A d \in Call : ~(pc[d] = "commit" /\ usr[d] = u)

Unused == Token \ (minted \cup {new[c] : c \in Call})

(* A statement on many rows is at one of those it has left; which one is    *)
(* for the plan and the place of the rows in the table to say.              *)
RowAt(S) == IF S = {} THEN {NoToken} ELSE S

(* The bound on generated tokens: one is kept back for every open refresh. *)
Supply == Cardinality({c \in Call : pc[c] \in RefreshPC \ {"commit"}})
            < Cardinality(Unused)

Goto(c, l) == pc' = [pc EXCEPT ![c] = l]

(* The handler returns, or its future is dropped: sqlx rolls back an open   *)
(* transaction, which releases its locks and forgets its writes.            *)
Return(c) ==
  /\ Goto(c, "idle")
  /\ tok' = [tok EXCEPT ![c] = NoToken]
  /\ usr' = [usr EXCEPT ![c] = NoUser]
  /\ new' = [new EXCEPT ![c] = NoToken]
  /\ held' = [held EXCEPT ![c] = {}]
  /\ snap' = [snap EXCEPT ![c] = {}]

Init ==
  /\ users = User
  /\ rows = {} /\ revoked = {} /\ expired = {} /\ minted = {}
  /\ owner = [t \in Token |-> NoUser]
  /\ parent = [t \in Token |-> NoToken]
  /\ pc = [c \in Call |-> "idle"]
  /\ tok = [c \in Call |-> NoToken]
  /\ usr = [c \in Call |-> NoUser]
  /\ new = [c \in Call |-> NoToken]
  /\ held = [c \in Call |-> {}]
  /\ snap = [c \in Call |-> {}]
  /\ quiet = {}

-----------------------------------------------------------------------------
(* refresh.  A client presents a token it was once given; any other string  *)
(* is refused at once (empty) or by the SELECT, and changes nothing.        *)
RefreshBegin(c, t) ==
  /\ pc[c] = "idle" /\ Supply /\ t \in minted
  /\ Goto(c, "select")
  /\ tok' = [tok EXCEPT ![c] = t]
  /\ UNCHANGED <<tableVars, usr, new, held, snap, quiet>>

(* Slip: the column revoked is not looked at.                               *)
RefreshSelectRevoked(c) ==
  /\ pc[c] = "select"
  /\ \/ /\ tok[c] \in rows \ expired
        /\ Goto(c, "retrieve")
        /\ usr' = [usr EXCEPT ![c] = owner[tok[c]]]
        /\ quiet' = {d \in quiet : usr[d] # owner[tok[c]]}
        /\ UNCHANGED <<tok, new, held, snap>>
     \/ tok[c] \notin rows \ expired /\ Return(c) /\ UNCHANGED quiet
  /\ UNCHANGED tableVars

(* Slip: SELECT .. FOR UPDATE, so the row is held through the lookup.       *)
RefreshSelectForUpdate(c) ==
  /\ pc[c] = "select" /\ RowFree(c, tok[c])
  /\ \/ /\ tok[c] \in Live
        /\ Goto(c, "retrieve")
        /\ usr' = [usr EXCEPT ![c] = owner[tok[c]]]
        /\ held' = [held EXCEPT ![c] = {tok[c]}]
        /\ quiet' = {d \in quiet : usr[d] # owner[tok[c]]}
        /\ UNCHANGED <<tok, new, snap>>
     \/ tok[c] \notin Live /\ Return(c) /\ UNCHANGED quiet
  /\ UNCHANGED tableVars

(* get_refresh_token_by_hash and the two checks on what it returned: the    *)
(* row is read without FOR UPDATE.                                          *)
RefreshSelect(c) ==
  /\ pc[c] = "select"
  /\ \/ /\ tok[c] \in Live
        /\ Goto(c, "retrieve")
        /\ usr' = [usr EXCEPT ![c] = owner[tok[c]]]
        /\ quiet' = {d \in quiet : usr[d] # owner[tok[c]]}
        /\ UNCHANGED <<tok, new, held, snap>>
     \/ tok[c] \notin Live /\ Return(c) /\ UNCHANGED quiet
  /\ UNCHANGED tableVars

(* user_repo.retrieve reads through a cache on another connection: it may   *)
(* still answer for a user who is gone, and any error of it ends the call.  *)
RefreshRetrieve(c) ==
  /\ pc[c] = "retrieve"
  /\ \/ Goto(c, "delete") /\ UNCHANGED <<tok, usr, new, held, snap>>
     \/ Return(c)
  /\ UNCHANGED <<tableVars, quiet>>

(* Slip: the DELETE runs on the pool instead of in the transaction.         *)
RefreshDeleteOnPool(c) ==
  /\ pc[c] = "delete" /\ RowFree(c, tok[c])
  /\ rows' = rows \ {tok[c]}
  /\ Goto(c, "insert")
  /\ UNCHANGED <<users, owner, revoked, expired, minted, parent,
                 tok, usr, new, held, snap, quiet>>

(* DELETE waits for the row; the count of rows it deleted is not looked at, *)
(* and its WHERE names the hash alone.                                      *)
RefreshDelete(c) ==
  /\ pc[c] = "delete" /\ RowFree(c, tok[c])
  /\ held' = [held EXCEPT ![c] = {tok[c]} \cap rows]
  /\ Goto(c, "insert")
  /\ UNCHANGED <<tableVars, tok, usr, new, snap, quiet>>

(* Slips: no foreign key; the transaction commits without the INSERT.       *)
RefreshInsertUnchecked(c) ==
  /\ pc[c] = "insert"
  /\ \E t \in Unused : new' = [new EXCEPT ![c] = t]
  /\ Goto(c, "commit")
  /\ UNCHANGED <<tableVars, tok, usr, held, snap, quiet>>

RefreshInsertSkipped(c) ==
  /\ pc[c] = "insert" /\ UserRowFree(usr[c])
  /\ Goto(c, "commit")
  /\ UNCHANGED <<tableVars, tok, usr, new, held, snap, quiet>>

(* INSERT takes a key-share lock on the user's row, so it waits for a       *)
(* DELETE of the user and fails if the user is gone.                        *)
RefreshInsert(c) ==
  /\ pc[c] = "insert" /\ UserRowFree(usr[c])
  /\ \/ /\ usr[c] \in users
        /\ \E t \in Unused : new' = [new EXCEPT ![c] = t]
        /\ Goto(c, "commit")
        /\ UNCHANGED <<tok, usr, held, snap>>
     \/ usr[c] \notin users /\ Return(c)
  /\ UNCHANGED <<tableVars, quiet>>

RefreshCommit(c) ==
  /\ pc[c] = "commit"
  /\ rows' = (rows \ held[c]) \cup {new[c]}
  /\ minted' = minted \cup {new[c]}
  /\ owner' = [owner EXCEPT ![new[c]] = usr[c]]
  /\ parent' = [parent EXCEPT ![new[c]] = tok[c]]
  /\ Return(c)
  /\ UNCHANGED <<users, revoked, expired, quiet>>

(* issue_token_pair on the pool, for a user the session middleware vouched  *)
(* for: one statement, nothing read before it.                              *)
IssueTokenPair(u) ==
  /\ u \in users /\ UserRowFree(u) /\ Supply
  /\ \E t \in Unused :
       /\ rows' = rows \cup {t}
       /\ minted' = minted \cup {t}
       /\ owner' = [owner EXCEPT ![t] = u]
  /\ quiet' = {d \in quiet : usr[d] # u}
  /\ UNCHANGED <<users, revoked, expired, parent, callVars>>

(* logout: an unknown token is a silent success.                            *)
LogoutBegin(c, t) ==
  /\ pc[c] = "idle" /\ t \in minted
  /\ Goto(c, "update")
  /\ tok' = [tok EXCEPT ![c] = t]
  /\ UNCHANGED <<tableVars, usr, new, held, snap, quiet>>

Logout(c) ==
  /\ pc[c] = "update" /\ RowFree(c, tok[c])
  /\ revoked' = revoked \cup ({tok[c]} \cap rows)
  /\ Return(c)
  /\ UNCHANGED <<users, rows, owner, expired, minted, parent, quiet>>

(* revoke_all_user_tokens: the UPDATE finds its rows when it starts.        *)
RevokeAllBegin(c, u) ==
  /\ pc[c] = "idle"
  /\ Goto(c, "scan")
  /\ usr' = [usr EXCEPT ![c] = u]
  /\ UNCHANGED <<tableVars, tok, new, held, snap, quiet>>

StartScan(c, S) ==
  /\ snap' = [snap EXCEPT ![c] = S]
  /\ \E t \in RowAt(S) : tok' = [tok EXCEPT ![c] = t]

Overlapped(u) == \E d \in Call : pc[d] \in AcceptedPC /\ usr[d] = u

(* Slip: the UPDATE finds at most one row.                                  *)
RevokeAllScanOne(c) ==
  /\ pc[c] = "scan"
  /\ \E t \in OwnedBy(usr[c]) : StartScan(c, {t})
  /\ Goto(c, "apply")
  /\ quiet' = IF Overlapped(usr[c]) THEN quiet ELSE quiet \cup {c}
  /\ UNCHANGED <<tableVars, usr, new, held>>

RevokeAllScan(c) ==
  /\ pc[c] = "scan"
  /\ StartScan(c, OwnedBy(usr[c]))
  /\ Goto(c, "apply")
  /\ quiet' = IF Overlapped(usr[c]) THEN quiet ELSE quiet \cup {c}
  /\ UNCHANGED <<tableVars, usr, new, held>>

(* One row of the UPDATE, or of the DELETE that cascades: it waits for the  *)
(* transaction that holds the row, takes the row or skips it if it then is  *)
(* gone, and goes on to another.                                            *)
LockNextRow(c) ==
  /\ pc[c] \in {"apply", "cascade"} /\ tok[c] # NoToken /\ RowFree(c, tok[c])
  /\ held' = [held EXCEPT ![c] = @ \cup ({tok[c]} \cap rows)]
  /\ StartScan(c, snap[c] \ {tok[c]})
  /\ UNCHANGED <<tableVars, pc, usr, new, quiet>>

(* The UPDATE is through, and commits.                                      *)
RevokeAllApply(c) ==
  /\ pc[c] = "apply" /\ snap[c] = {}
  /\ revoked' = revoked \cup held[c]
  /\ Return(c)
  /\ quiet' = quiet \ {c}
  /\ UNCHANGED <<users, rows, owner, expired, minted, parent>>

(* Deleting a user (the admin viewset): locks the row of users, then        *)
(* ON DELETE CASCADE deletes the user's tokens, whose number does not grow  *)
(* while that row is locked.                                                *)
RemoveUserBegin(c, u) ==
  /\ pc[c] = "idle"
  /\ Goto(c, "lock")
  /\ usr' = [usr EXCEPT ![c] = u]
  /\ UNCHANGED <<tableVars, tok, new, held, snap, quiet>>

RemoveUserLock(c) ==
  /\ pc[c] = "lock" /\ UserRowFree(usr[c]) /\ KeyShareFree(usr[c])
  /\ \/ /\ usr[c] \in users
        /\ Goto(c, "cascade") /\ StartScan(c, OwnedBy(usr[c]))
        /\ UNCHANGED <<usr, new, held>>
     \/ usr[c] \notin users /\ Return(c)
  /\ UNCHANGED <<tableVars, quiet>>

(* The cascade is through, and the deletion commits.                        *)
RemoveUserCascade(c) ==
  /\ pc[c] = "cascade" /\ snap[c] = {}
  /\ users' = users \ {usr[c]}
  /\ rows' = rows \ held[c]
  /\ Return(c)
  /\ UNCHANGED <<owner, revoked, expired, minted, parent, quiet>>

-----------------------------------------------------------------------------
(* Time passes for a token.                                                 *)
Expire(t) ==
  /\ t \in rows \ expired
  /\ expired' = expired \cup {t}
  /\ UNCHANGED <<users, rows, owner, revoked, minted, parent, callVars, quiet>>

(* A statement or the commit fails, the client disconnects (actix drops the *)
(* handler) or the process dies: the call ends at its current await.        *)
Abort(c) ==
  /\ pc[c] # "idle"
  /\ Return(c)
  /\ quiet' = quiet \ {c}
  /\ UNCHANGED tableVars

(* The calls whose locks the next statement of c waits for.                 *)
RowHolders(c) == {d \in Call \ {c} : tok[c] \in held[d]}
UserHolders(c, at) == {d \in Call : pc[d] \in at /\ usr[d] = usr[c]}

WaitsFor(c) ==
  CASE pc[c] \in {"delete", "update", "apply", "cascade"} -> RowHolders(c)
    [] pc[c] = "insert" -> UserHolders(c, {"cascade"})
    [] pc[c] = "lock" -> UserHolders(c, {"cascade", "commit"})
    [] OTHER -> {}

(* The calls that c waits for, those they wait for, and so on.              *)
ClosedUnderWaits(S) == \A d \in S : WaitsFor(d) \subseteq S
Ahead(c) ==
  {d \in Call : \A S \in SUBSET Call :
     WaitsFor(c) \subseteq S /\ ClosedUnderWaits(S) => d \in S}

(* Calls that wait for each other in a circle; Postgres aborts one of them. *)
InDeadlock(c) == c \in Ahead(c)

BreakDeadlock(c) == InDeadlock(c) /\ Abort(c)

Advance(c) ==
  \/ RefreshSelect(c) \/ RefreshRetrieve(c) \/ RefreshDelete(c)
  \/ RefreshInsert(c) \/ RefreshCommit(c)
  \/ Logout(c) \/ RevokeAllScan(c) \/ RevokeAllApply(c)
  \/ LockNextRow(c) \/ RemoveUserLock(c) \/ RemoveUserCascade(c)

Request(c) ==
  \/ \E t \in Token : RefreshBegin(c, t) \/ LogoutBegin(c, t)
  \/ \E u \in User : RevokeAllBegin(c, u) \/ RemoveUserBegin(c, u)

Next ==
  \/ \E c \in Call : Request(c) \/ Advance(c) \/ Abort(c)
  \/ \E u \in User : IssueTokenPair(u)
  \/ \E t \in Token : Expire(t)

Spec == Init /\ [][Next]_vars

-----------------------------------------------------------------------------
TypeOK ==
  /\ users \subseteq User
  /\ rows \subseteq Token /\ revoked \subseteq Token /\ expired \subseteq Token
  /\ minted \subseteq Token
  /\ owner \in [Token -> User \cup {NoUser}]
  /\ parent \in [Token -> Token \cup {NoToken}]
  /\ pc \in [Call -> PC]
  /\ tok \in [Call -> Token \cup {NoToken}]
  /\ usr \in [Call -> User \cup {NoUser}]
  /\ new \in [Call -> Token \cup {NoToken}]
  /\ held \in [Call -> SUBSET Token]
  /\ snap \in [Call -> SUBSET Token]
  /\ quiet \subseteq Call

(* The table and its transactions keep the promise of TokenStore: a token   *)
(* is live, or closed for good; a refresh accepts only a live one, hands    *)
(* out at most one token for it, to the same user, and closes it by then.   *)
StoreState ==
  [t \in Token |-> IF t \in Live THEN "live"
                   ELSE IF t \in minted THEN "closed" ELSE "unknown"]

StoreUsing == [t \in Token |-> InFlight(t)]

Store == INSTANCE TokenStore WITH state <- StoreState, using <- StoreUsing

KeepsTokenPromise == Store!Spec

(* No token outlives its user, although refresh looks the user up through  *)
(* a cache on another connection, long before it inserts the new row.       *)
NoOrphanToken == \A t \in rows : owner[t] \in users

(* Rotation is atomic: a token row disappears only in the step in which its *)
(* replacement for the same user appears, or with its user.  A refresh that *)
(* fails anywhere before its commit leaves the old token in place.          *)
RotationAtomic ==
  [][\A t \in rows \ rows' :
       \/ \E n \in rows' \ rows : parent'[n] = t /\ owner'[n] = owner[t]
       \/ owner[t] \notin users']_vars

(* A token that was rotated, revoked or expired, or lost its user, stays    *)
(* unusable, and no further refresh gets past the checks with it: only      *)
(* those already past them at that moment can still mint, and they only     *)
(* become fewer.                                                            *)
ClosedStaysClosed ==
  [][\A t \in Closed : t \in Closed' /\ InFlight(t)' \subseteq InFlight(t)]_vars

Running(c) == pc[c] # "idle" /\ WaitsFor(c) = {}

(* A wait for row locks, queued behind others' waits as it may be, leads to *)
(* a call that can go on with the connection it has, or to a circle with a  *)
(* statement on many rows in it, which Postgres breaks: no lock outlives    *)
(* its transaction, none is held through the lookup that needs a second     *)
(* connection, and refreshes and logouts alone never wait for each other in *)
(* a circle.                                                                *)
EveryWaitEnds ==
  \A c \in Call : WaitsFor(c) # {} =>
    \E d \in Ahead(c) :
      \/ Running(d) /\ pc[d] # "retrieve"
      \/ InDeadlock(d) /\ pc[d] \in {"apply", "cascade"}

(* What a revoke-all guarantees: if no refresh or issue for the user        *)
(* overlaps it, no token of the user is live when it returns.               *)
RevokeAllComplete ==
  [][\A c \in quiet : RevokeAllApply(c) =>
       \A t \in rows' \ revoked' : owner[t] # usr[c]]_vars

(* What "exchange a refresh token for a new token pair" says: a token is    *)
(* exchanged once.                                                          *)
OneSuccessor ==
  \A m, n \in minted : parent[m] = parent[n] /\ parent[m] # NoToken => m = n

(* What the end-to-end test says: a revoked refresh token mints nothing.    *)
RevokedNeverMints ==
  [][\A n \in minted' \ minted : parent'[n] \notin revoked]_vars
=============================================================================
