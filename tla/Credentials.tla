----------------------------- MODULE Credentials -----------------------------
(***************************************************************************)
(* The handlers of src/authn/handlers.rs that combine UserService,         *)
(* SessionService and JwtService: password login, change_password,         *)
(* password reset, logout, delete_session, jwt and refresh.  None of them  *)
(* runs in one transaction: a step is one autocommitted statement, or the  *)
(* commit of confirm_password_reset, and requests interleave between steps.*)
(*                                                                         *)
(* A password is named by the write that set it: gen[u] is the write the   *)
(* stored hash comes from, and the one a request must present to pass      *)
(* bcrypt::verify.  Every session and refresh token remembers, for the     *)
(* properties only, which password it rests on.                            *)
(* JwtService models what refresh and revoke-all do inside; here a refresh *)
(* is its SELECT and its commit, a revoke-all is the scan of its UPDATE    *)
(* and its end, and tokens holds the rows neither revoked nor expired.     *)
(***************************************************************************)
EXTENDS FiniteSets, Naturals

CONSTANTS
  User, Session, Token, Reset, Call,
  MaxGen,    \* bound on the number of password writes of each user
  None

ASSUME MaxGenAssumption == MaxGen \in [User -> Nat]
ASSUME NoneAssumption == None \notin User \cup Session \cup Token \cup Reset

VARIABLES
  users,          \* rows of users
  gen,            \* users.password_hash, as the number of the write that set it
  sessions,       \* rows of sessions
  sUser, sGen,    \* their user; history: the password they rest on
  tokens,         \* usable rows of refresh_tokens
  tUser, tGen,
  open, used,     \* rows of password_resets with used = FALSE, used = TRUE
  late,           \* those whose expires_at has passed
  rUser,
  pc,             \* per call: the statement it runs next
  usr,            \* per call: the user it acts for
  g,              \* per call: the password it verified or wrote
  item,           \* per call: the session, token or reset row it will touch
  snap,           \* per call: sessions listed and not yet deleted, or the
                  \* tokens its UPDATE of refresh_tokens found
  changes,        \* history: completed writes of change_password, per user
  faulty,         \* history: rotations some statement of which failed
  raced           \* history: rotations a session or a token under an older
                  \* password escaped

userVars == <<users, gen>>
sessVars == <<sessions, sUser, sGen>>
tokVars == <<tokens, tUser, tGen>>
resetVars == <<open, used, late, rUser>>
callVars == <<pc, usr, g, item, snap>>
history == <<changes, faulty, raced>>
vars == <<userVars, sessVars, tokVars, resetVars, callVars, history>>

PC == {"idle", "issue", "verify", "update", "claim", "apply", "list", "sweep",
       "lookup", "reissue", "revoke", "close", "mint", "rotate", "retrieve",
       "remove"}

SessionsOf(u) == {s \in sessions : sUser[s] = u}
TokensOf(u) == {t \in tokens : tUser[t] = u}
ResetsOf(u) == {r \in Reset : rUser[r] = u}

(* Rotations past the list of sessions: a session added now escapes them.   *)
Sweeping(u) ==
  {d \in Call : /\ pc[d] \in {"sweep", "lookup", "reissue", "revoke", "close"}
                /\ usr[d] = u}

(* Rotations whose UPDATE has found its tokens: a token added now escapes.  *)
Closing(u) == {d \in Call : pc[d] = "close" /\ usr[d] = u}

Goto(c, l) ==
  /\ pc' = [pc EXCEPT ![c] = l]
  /\ UNCHANGED <<usr, g, item, snap>>

Start(c, l, u, k, i) ==
  /\ pc[c] = "idle"
  /\ pc' = [pc EXCEPT ![c] = l]
  /\ usr' = [usr EXCEPT ![c] = u]
  /\ g' = [g EXCEPT ![c] = k]
  /\ item' = [item EXCEPT ![c] = i]
  /\ UNCHANGED <<snap, history>>

Return(c) ==
  /\ pc' = [pc EXCEPT ![c] = "idle"]
  /\ usr' = [usr EXCEPT ![c] = None]
  /\ g' = [g EXCEPT ![c] = 0]
  /\ item' = [item EXCEPT ![c] = None]
  /\ snap' = [snap EXCEPT ![c] = {}]

Finish(c) ==
  /\ Return(c)
  /\ faulty' = faulty \ {c} /\ raced' = raced \ {c}
  /\ UNCHANGED changes

Init ==
  /\ users = User
  /\ gen = [u \in User |-> 0]
  /\ sessions = {} /\ sUser = [s \in Session |-> None] /\ sGen = [s \in Session |-> 0]
  /\ tokens = {} /\ tUser = [t \in Token |-> None] /\ tGen = [t \in Token |-> 0]
  /\ open = {} /\ used = {} /\ late = {} /\ rUser = [r \in Reset |-> None]
  /\ pc = [c \in Call |-> "idle"]
  /\ usr = [c \in Call |-> None]
  /\ g = [c \in Call |-> 0]
  /\ item = [c \in Call |-> None]
  /\ snap = [c \in Call |-> {}]
  /\ changes = [u \in User |-> 0]
  /\ faulty = {} /\ raced = {}

-----------------------------------------------------------------------------
(* Slip: the new session is filed under its own id.                         *)
AddSessionMisfiled(c) ==
  /\ \E s \in Session :
       /\ sUser[s] = None
       /\ sessions' = sessions \cup {s}
       /\ sUser' = [sUser EXCEPT ![s] = s]
       /\ sGen' = [sGen EXCEPT ![s] = g[c]]
  /\ UNCHANGED history

(* issue_session: one INSERT, which fails (Abort) when the user is gone: the *)
(* column sub refers to users.  A rotation of the same user that listed the *)
(* sessions before misses this one.                                         *)
AddSession(c) ==
  /\ usr[c] \in users
  /\ \E s \in Session :
       /\ sUser[s] = None
       /\ sessions' = sessions \cup {s}
       /\ sUser' = [sUser EXCEPT ![s] = usr[c]]
       /\ sGen' = [sGen EXCEPT ![s] = g[c]]
  /\ raced' = raced \cup {d \in Sweeping(usr[c]) : g[c] < g[d]}
  /\ UNCHANGED <<changes, faulty>>

(* The INSERT of a refresh token, with the DELETE of the one it replaces;   *)
(* its user_id refers to users as well.                                     *)
AddToken(c, spent) ==
  /\ usr[c] \in users
  /\ \E t \in Token :
       /\ tUser[t] = None
       /\ tokens' = (tokens \ spent) \cup {t}
       /\ tUser' = [tUser EXCEPT ![t] = usr[c]]
       /\ tGen' = [tGen EXCEPT ![t] = g[c]]
  /\ raced' = raced \cup {d \in Closing(usr[c]) : g[c] < g[d]}
  /\ UNCHANGED <<changes, faulty>>

(* Slip: the hash comes from a copy of the user's row that may be old.      *)
PasswordLoginCached(c, u) ==
  /\ u \in users
  /\ \E k \in 0 .. gen[u] : Start(c, "issue", u, k, None)
  /\ UNCHANGED <<userVars, sessVars, tokVars, resetVars>>

(* login and username_login: read the user's row and compare hashes; the    *)
(* session is inserted by a later statement.  A wrong password changes      *)
(* nothing.                                                                 *)
PasswordLogin(c, u) ==
  /\ u \in users
  /\ Start(c, "issue", u, gen[u], None)
  /\ UNCHANGED <<userVars, sessVars, tokVars, resetVars>>

LoginIssue(c) ==
  /\ pc[c] = "issue"
  /\ Return(c) /\ AddSession(c)
  /\ UNCHANGED <<userVars, tokVars, resetVars>>

(* change_password.  The session middleware lets the request in on a        *)
(* session that exists now; nothing looks at it again.                      *)
ChangeBegin(c, s) ==
  /\ s \in sessions
  /\ Start(c, "verify", sUser[s], 0, None)
  /\ UNCHANGED <<userVars, sessVars, tokVars, resetVars>>

(* password_hash_for, which finds the user or not, and bcrypt::verify of    *)
(* the password presented, which is the current one or not.                 *)
ChangeVerify(c) ==
  /\ pc[c] = "verify"
  /\ \/ /\ usr[c] \in users
        /\ pc' = [pc EXCEPT ![c] = "update"]
        /\ g' = [g EXCEPT ![c] = gen[usr[c]]]
        /\ UNCHANGED <<usr, item, snap, history>>
     \/ Finish(c)
  /\ UNCHANGED <<userVars, sessVars, tokVars, resetVars>>

(* A write of a password: the writer knows which one it wrote.              *)
SetPassword(c) ==
  LET u == usr[c] IN
  /\ gen[u] < MaxGen[u]
  /\ gen' = [gen EXCEPT ![u] = gen[u] + 1]
  /\ pc' = [pc EXCEPT ![c] = "list"]
  /\ g' = [g EXCEPT ![c] = gen[u] + 1]
  /\ UNCHANGED <<users, usr, item, snap>>

(* UPDATE users SET password_hash .. WHERE id: the hash that was verified   *)
(* is not compared again, and nobody looks whether there was a row.         *)
ChangeUpdate(c) ==
  /\ pc[c] = "update"
  /\ \/ /\ usr[c] \in users
        /\ SetPassword(c)
        /\ changes' = [changes EXCEPT ![usr[c]] = changes[usr[c]] + 1]
     \/ usr[c] \notin users /\ Goto(c, "list") /\ UNCHANGED <<userVars, changes>>
  /\ UNCHANGED <<sessVars, tokVars, resetVars, faulty, raced>>

(* request_password_reset: the row and its event commit together.           *)
RequestReset(u) ==
  /\ u \in users
  /\ \E r \in Reset :
       /\ rUser[r] = None
       /\ open' = open \cup {r}
       /\ rUser' = [rUser EXCEPT ![r] = u]
  /\ UNCHANGED <<userVars, sessVars, tokVars, used, late, callVars, history>>

(* confirm_password_reset.  The clock is read before the transaction.       *)
ConfirmBegin(c, r) ==
  /\ rUser[r] # None /\ r \notin late
  /\ Start(c, "claim", rUser[r], 0, r)
  /\ UNCHANGED <<userVars, sessVars, tokVars, resetVars>>

(* Slip: the claim does not ask for used = FALSE.                           *)
ConfirmClaimAnyRow(c) ==
  /\ pc[c] = "claim"
  /\ \A d \in Call : ~(pc[d] = "apply" /\ item[d] = item[c])
  /\ Goto(c, "apply")
  /\ UNCHANGED <<userVars, sessVars, tokVars, resetVars, history>>

(* UPDATE .. WHERE used = FALSE RETURNING: waits for the transaction that   *)
(* holds the row and then looks again.                                      *)
ConfirmClaim(c) ==
  /\ pc[c] = "claim"
  /\ \A d \in Call : ~(pc[d] = "apply" /\ item[d] = item[c])
  /\ \/ item[c] \in open /\ Goto(c, "apply") /\ UNCHANGED history
     \/ item[c] \notin open /\ Finish(c)
  /\ UNCHANGED <<userVars, sessVars, tokVars, resetVars>>

(* UPDATE users and commit of both.                                         *)
ConfirmApply(c) ==
  /\ pc[c] = "apply"
  /\ SetPassword(c)
  /\ open' = open \ {item[c]} /\ used' = used \cup {item[c]}
  /\ UNCHANGED <<sessVars, tokVars, late, rUser, history>>

(* revoke_all_for_user: list, then delete one session after the other; a    *)
(* delete that fails is logged and skipped, a list that fails is logged.    *)
RevokeList(c) ==
  /\ pc[c] = "list"
  /\ pc' = [pc EXCEPT ![c] = "sweep"]
  /\ \/ snap' = [snap EXCEPT ![c] = SessionsOf(usr[c])] /\ UNCHANGED faulty
     \/ UNCHANGED snap /\ faulty' = faulty \cup {c}
  /\ UNCHANGED <<userVars, sessVars, tokVars, resetVars, usr, g, item, changes, raced>>

RevokeSession(c) ==
  /\ pc[c] = "sweep"
  /\ \E s \in snap[c] :
       /\ snap' = [snap EXCEPT ![c] = @ \ {s}]
       /\ \/ sessions' = sessions \ {s} /\ UNCHANGED faulty
          \/ UNCHANGED sessions /\ faulty' = faulty \cup {c}
  /\ UNCHANGED <<userVars, sUser, sGen, tokVars, resetVars, pc, usr, g, item, changes, raced>>

(* Slip: the sweep stops before the last session.                           *)
RevokeSessionsStopEarly(c) ==
  /\ pc[c] = "sweep" /\ Cardinality(snap[c]) <= 1
  /\ pc' = [pc EXCEPT ![c] = IF item[c] \in Reset THEN "revoke" ELSE "lookup"]
  /\ snap' = [snap EXCEPT ![c] = {}]
  /\ UNCHANGED <<userVars, sessVars, tokVars, resetVars, usr, g, item, history>>

(* After the sweep a reset goes on to the refresh tokens, change_password   *)
(* first gives the calling device a fresh session.                          *)
RevokeSessionsDone(c) ==
  /\ pc[c] = "sweep" /\ snap[c] = {}
  /\ Goto(c, IF item[c] \in Reset THEN "revoke" ELSE "lookup")
  /\ UNCHANGED <<userVars, sessVars, tokVars, resetVars, history>>

(* get_user_by_id: an error ends the handler here.  The repository reads    *)
(* through a cache, so it may still answer for a user who is gone.          *)
ChangeLookup(c) ==
  /\ pc[c] = "lookup"
  /\ \/ Goto(c, "reissue") /\ UNCHANGED history
     \/ Finish(c)
  /\ UNCHANGED <<userVars, sessVars, tokVars, resetVars>>

(* issue_session: so does an error here.                                    *)
ChangeReissue(c) ==
  /\ pc[c] = "reissue"
  /\ \/ Goto(c, "revoke") /\ AddSession(c)
     \/ Finish(c) /\ UNCHANGED sessVars
  /\ UNCHANGED <<userVars, tokVars, resetVars>>

(* revoke_all_user_tokens: the UPDATE finds its rows when it starts and     *)
(* misses those committed before it ends.  An error is logged and the       *)
(* handler answers 200, as it does after the last of these steps.           *)
RevokeTokensScan(c) ==
  /\ pc[c] = "revoke"
  /\ pc' = [pc EXCEPT ![c] = "close"]
  /\ snap' = [snap EXCEPT ![c] = TokensOf(usr[c])]
  /\ UNCHANGED <<userVars, sessVars, tokVars, resetVars, usr, g, item, history>>

RevokeTokensApply(c) ==
  /\ pc[c] = "close"
  /\ tokens' = tokens \ snap[c]
  /\ Finish(c)
  /\ UNCHANGED <<userVars, sessVars, tUser, tGen, resetVars>>

RevokeTokensFails(c) ==
  /\ pc[c] \in {"revoke", "close"}
  /\ Finish(c)
  /\ UNCHANGED <<userVars, sessVars, tokVars, resetVars>>

(* logout deletes the session whose cookie the request carries.  A session  *)
(* that expires serves as little as one that is deleted.                    *)
Logout(s) ==
  /\ s \in sessions
  /\ sessions' = sessions \ {s}
  /\ UNCHANGED <<userVars, sUser, sGen, tokVars, resetVars, callVars, history>>

(* DELETE /me/admin/sessions/{id}: an admin ends anybody's session.         *)
AdminRemoveSession(s) ==
  /\ s \in sessions
  /\ sessions' = sessions \ {s}
  /\ UNCHANGED <<userVars, sUser, sGen, tokVars, resetVars, callVars, history>>

(* DELETE /me/admin/users/{id} and ON DELETE CASCADE: it waits for a        *)
(* confirmation that holds a reset row of the user (or one of the two is    *)
(* aborted, for that one will want the user's row); JwtService models its   *)
(* waits for refresh tokens.                                                *)
RemoveUser(u) ==
  /\ u \in users
  /\ \A d \in Call : ~(pc[d] = "apply" /\ usr[d] = u)
  /\ users' = users \ {u}
  /\ sessions' = sessions \ SessionsOf(u)
  /\ tokens' = tokens \ TokensOf(u)
  /\ open' = open \ ResetsOf(u) /\ used' = used \ ResetsOf(u)
  /\ UNCHANGED <<gen, sUser, sGen, tUser, tGen, late, rUser, callVars, history>>

(* delete_session: authenticated by session s, names session i.             *)
DeleteBegin(c, s, i) ==
  /\ s \in sessions
  /\ Start(c, "retrieve", sUser[s], 0, i)
  /\ UNCHANGED <<userVars, sessVars, tokVars, resetVars>>

(* Slip: the session's sub is not compared with the caller's.               *)
DeleteRetrieveAny(c) ==
  /\ pc[c] = "retrieve"
  /\ \/ item[c] \in sessions /\ Goto(c, "remove") /\ UNCHANGED history
     \/ item[c] \notin sessions /\ Finish(c)
  /\ UNCHANGED <<userVars, sessVars, tokVars, resetVars>>

DeleteRetrieve(c) ==
  /\ pc[c] = "retrieve"
  /\ \/ item[c] \in SessionsOf(usr[c]) /\ Goto(c, "remove") /\ UNCHANGED history
     \/ item[c] \notin SessionsOf(usr[c]) /\ Finish(c)
  /\ UNCHANGED <<userVars, sessVars, tokVars, resetVars>>

DeleteRemove(c) ==
  /\ pc[c] = "remove"
  /\ sessions' = sessions \ {item[c]}
  /\ Finish(c)
  /\ UNCHANGED <<userVars, sUser, sGen, tokVars, resetVars>>

(* jwt: the identity is read from the session when the request enters.      *)
JwtBegin(c, s) ==
  /\ s \in sessions
  /\ Start(c, "mint", sUser[s], sGen[s], None)
  /\ UNCHANGED <<userVars, sessVars, tokVars, resetVars>>

JwtMint(c) ==
  /\ pc[c] = "mint"
  /\ Return(c) /\ AddToken(c, {})
  /\ UNCHANGED <<userVars, sessVars, resetVars>>

(* Slip: the SELECT takes a token that is revoked or expired.               *)
RefreshBeginClosed(c, t) ==
  /\ tUser[t] # None
  /\ Start(c, "rotate", tUser[t], tGen[t], t)
  /\ UNCHANGED <<userVars, sessVars, tokVars, resetVars>>

(* refresh: SELECT, and the commit that swaps the row for a new one even if *)
(* the old one is no longer usable (JwtService).                            *)
RefreshBegin(c, t) ==
  /\ t \in tokens
  /\ Start(c, "rotate", tUser[t], tGen[t], t)
  /\ UNCHANGED <<userVars, sessVars, tokVars, resetVars>>

RefreshCommit(c) ==
  /\ pc[c] = "rotate"
  /\ Return(c) /\ AddToken(c, {item[c]})
  /\ UNCHANGED <<userVars, sessVars, resetVars>>

-----------------------------------------------------------------------------
(* jwt_logout, or a token that reaches its expires_at.                      *)
DropToken(t) ==
  /\ t \in tokens /\ tokens' = tokens \ {t}
  /\ UNCHANGED <<userVars, sessVars, tUser, tGen, resetVars, callVars, history>>

ExpireReset(r) ==
  /\ r \in open \ late /\ late' = late \cup {r}
  /\ UNCHANGED <<userVars, sessVars, tokVars, open, used, rUser, callVars, history>>

(* A statement fails, the client disconnects or the process dies.           *)
Abort(c) ==
  /\ pc[c] # "idle"
  /\ Finish(c)
  /\ UNCHANGED <<userVars, sessVars, tokVars, resetVars>>

Request(c) ==
  \/ \E u \in User : PasswordLogin(c, u)
  \/ \E s \in Session : ChangeBegin(c, s) \/ JwtBegin(c, s)
                        \/ \E i \in Session : DeleteBegin(c, s, i)
  \/ \E r \in Reset : ConfirmBegin(c, r)
  \/ \E t \in Token : RefreshBegin(c, t)

Advance(c) ==
  \/ LoginIssue(c) \/ ChangeVerify(c) \/ ChangeUpdate(c)
  \/ ConfirmClaim(c) \/ ConfirmApply(c)
  \/ RevokeList(c) \/ RevokeSession(c) \/ RevokeSessionsDone(c)
  \/ ChangeLookup(c) \/ ChangeReissue(c)
  \/ RevokeTokensScan(c) \/ RevokeTokensApply(c) \/ RevokeTokensFails(c)
  \/ DeleteRetrieve(c) \/ DeleteRemove(c) \/ JwtMint(c) \/ RefreshCommit(c)

Next ==
  \/ \E c \in Call : Request(c) \/ Advance(c) \/ Abort(c)
  \/ \E u \in User : RequestReset(u) \/ RemoveUser(u)
  \/ \E s \in Session : Logout(s) \/ AdminRemoveSession(s)
  \/ \E t \in Token : DropToken(t)
  \/ \E r \in Reset : ExpireReset(r)

Spec == Init /\ [][Next]_vars
-----------------------------------------------------------------------------
TypeOK ==
  /\ users \subseteq User
  /\ gen \in [User -> Nat]
  /\ sessions \subseteq Session /\ tokens \subseteq Token
  /\ sUser \in [Session -> User \cup {None}] /\ sGen \in [Session -> Nat]
  /\ tUser \in [Token -> User \cup {None}] /\ tGen \in [Token -> Nat]
  /\ open \subseteq Reset /\ used \subseteq Reset /\ late \subseteq Reset
  /\ rUser \in [Reset -> User \cup {None}]
  /\ pc \in [Call -> PC]
  /\ usr \in [Call -> User \cup {None}]
  /\ g \in [Call -> Nat]
  /\ item \in [Call -> Session \cup Token \cup Reset \cup {None}]
  /\ snap \in [Call -> SUBSET (Session \cup Token)]
  /\ changes \in [User -> Nat]
  /\ faulty \subseteq Call /\ raced \subseteq Call

(* Requests that will still add a session or a token under an older password *)
(* of u.                                                                     *)
StaleInFlight(u) ==
  {c \in Call : usr[c] = u /\ u \in users /\ g[c] < gen[u] /\
     \/ pc[c] \in {"issue", "mint", "rotate", "lookup", "reissue"}
     \/ pc[c] \in {"list", "sweep"} /\ item[c] \notin Reset}

(* Nothing rests on an older password of u.                                 *)
Clean(u) ==
  /\ \A s \in SessionsOf(u) : sGen[s] = gen[u]
  /\ \A t \in TokensOf(u) : tGen[t] = gen[u]
  /\ StaleInFlight(u) = {}

(* Once nothing of an account rests on an older password, nothing does      *)
(* until the next password write: no login, jwt, refresh or change_password *)
(* brings an old password back.                                             *)
CleanStaysClean ==
  [][\A u \in User : Clean(u) /\ gen'[u] = gen[u] => Clean(u)']_vars

(* A rotation (change_password or confirm_password_reset) of the current    *)
(* password whose statements all succeeded, that no late session or token   *)
(* escaped and that ends when no request of the user is in flight under an  *)
(* older password, leaves the account clean.                                *)
QuietRotationCleans ==
  [][\A c \in Call \ (faulty \cup raced) :
       RevokeTokensApply(c) /\ g[c] = gen[usr[c]] /\ StaleInFlight(usr[c]) = {}
         => \A u \in {usr[c]} : Clean(u)']_vars

(* The refresh tokens of these handlers keep the promise of TokenStore, as  *)
(* those of JwtService do: two views of one service and one contract.       *)
StoreState ==
  [t \in Token |-> IF t \in tokens THEN "live"
                   ELSE IF tUser[t] # None THEN "closed" ELSE "unknown"]

StoreUsing == [t \in Token |-> {c \in Call : pc[c] = "rotate" /\ item[c] = t}]

Store == INSTANCE TokenStore
         WITH state <- StoreState, owner <- tUser, using <- StoreUsing, NoUser <- None

KeepsTokenPromise == Store!Spec

(* Every password write is one finished change_password or one consumed     *)
(* reset token: a token resets a password once however many requests        *)
(* present it, and is not spent by a confirmation that fails.               *)
PasswordWritesAccounted ==
  \A u \in users : gen[u] = changes[u] + Cardinality({r \in used : rUser[r] = u})

(* A session ends by its own logout, by an admin, with its user, or by a    *)
(* request of its own user that sweeps sessions or removes one: no request  *)
(* of one user ends a session of another, although it names the session in  *)
(* one statement and deletes it in a later one.                             *)
SessionsEndByRight ==
  [][\A s \in sessions \ sessions' :
       \/ Logout(s) \/ AdminRemoveSession(s) \/ RemoveUser(sUser[s])
       \/ \E c \in Call : /\ RevokeSession(c) \/ DeleteRemove(c)
                          /\ usr[c] = sUser[s]]_vars

(* session.rs: no session issued under the old credentials outlives the     *)
(* rotation, here one none of whose deletes failed.                         *)
OldSessionsRevoked ==
  [][\A c \in Call \ faulty : RevokeTokensApply(c) =>
       \A s \in sessions' : sUser[s] = usr[c] => sGen[s] >= g[c]]_vars

(* API.md: a password change revokes the refresh tokens of the account, so  *)
(* change_password leaves none of an older password when it returns early.  *)
TokensRevokedOnReturn ==
  [][\A c \in Call : (ChangeLookup(c) \/ ChangeReissue(c)) /\ pc'[c] = "idle" =>
       \A t \in TokensOf(usr[c]) : tGen[t] >= g[c]]_vars

(* change_password verifies the current password and replaces that one.     *)
VerifiedPasswordReplaced ==
  [][\A c \in Call : ChangeUpdate(c) => g[c] = gen[usr[c]]]_vars
=============================================================================
