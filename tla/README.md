# authnz: models, checks and proofs

This directory holds TLA+ models of the authentication service `authnz`
(repository root `src/`), the TLC configurations that check them on small
instances, and proofs checked by TLAPS. The reference is the Rust code, the SQL
migrations and, for what a property says, the comments, `API.md` and the
end-to-end test beside them.

## 1. The system

One actix-web process over PostgreSQL. Handlers run concurrently, one future
per request. There is no lock in the program: every coordination is a database
statement, a transaction (two of the handlers open one that matters here:
`refresh` and `confirm_password_reset`), or a cache operation. actix drops the
future of a client that disconnects, so any handler may stop at any `.await`.

| part | state | operations | talks to |
|---|---|---|---|
| `JwtService` (`authn/domain/jwt/service.rs`) | table `refresh_tokens` | `refresh`, `logout`, `issue_token_pair`, `revoke_all_user_tokens` | user repository (cached, another connection) |
| `UserService` (`authn/domain/user/service.rs`) | `users`, `password_resets`, outbox | `register`, `password_login`, `username_login`, `change_password`, `request_password_reset`, `confirm_password_reset` | outbox |
| `SessionService` (`authn/domain/session.rs`) | `sessions` through the external `SessionRepo` | `issue_session`, `logout`, `revoke_all_for_user` | |
| handlers (`authn/handlers.rs`) | none | combine the three services, several statements per request, no transaction around them | all three |
| passwordless (`authn/passwdless`) | two in-memory caches (links, codes by nonce), 120 s each; outbox | `challenge_by_email`, `challenge_by_username`, `confirm_link`, `confirm_token` | users, `SessionService` |
| passkeys (`authn/passkey`, optional feature) | two ceremony stores, `passkey_credentials` | register and login, start and finish; list, remove | users, `SessionService` |
| admin viewsets (`authn/admin.rs`) | `users`, `sessions` | CRUD of the external `viewset` crate with creation refused | cascade to every table of a user |
| wiring (`authn/config.rs`, `auth2.rs`), session middleware, response equalizer, rate limiter | built once; external crates | | |
| `authz`, `proxy`, the binary | named in `README.md`, code not in the repository | | |

### What is hard in it, and what makes each part correct

* **Refresh tokens.** Rotation is a transaction of three statements at READ
  COMMITTED. The token is judged on a row read without a lock; the delete does
  not look at how many rows it removed; the user is looked up elsewhere. Correct
  means: nothing is lost when a refresh fails half way, a token that was used
  up, revoked or expired stays so, no token outlives its user, a revoke-all
  catches what it must, and nobody waits forever for a row lock.
* **Credentials.** A password change or reset is followed by revocations in
  separate statements, each of which may fail and be skipped, while logins,
  `jwt` requests and refreshes authorised by the old password are under way.
  Correct means: after a rotation nothing rests on the old password, a reset
  token sets one password, and only its user ends a session.
* **Passwordless.** A challenge has two halves in two caches with separate
  clocks. Correct means: each half logs in once, a code gets one try, a
  delivered challenge works, an answered one is spent.
* **Passkeys.** Ceremony state is read and then deleted; a login ceremony is
  filed under a username, which may pass to another account; the exclude list is
  as old as the registration it was made for; the signature counter is read,
  changed and written without a transaction. Correct means: a passkey and a
  login belong to the account the ceremony was begun for, a ceremony that left
  its store stays out, one authenticator is not registered twice, the counter
  goes forward.
* **Accounts.** Rename and deletion happen between any two statements of a
  login. Correct means what the components above say of them: no token outlives
  its user, no passkey logs in for somebody else.
* **Pool.** `refresh` holds a connection while the user lookup asks for
  another. Correct means: as many refreshes as there are connections do not lock
  the service up, and the ones that give up lose nothing.

`PROJECT.json` lists each of these under "hazards", at its line.

## 2. Modules

| module | models | role |
|---|---|---|
| `TokenStore` | what refresh tokens promise, without tables and transactions | abstract specification |
| `OneTimeLogin` | what a login by something used once promises, without caches | abstract specification |
| `JwtService` | refresh tokens at the grain of SQL statements and row locks | implements `TokenStore` |
| `MCJwtService` | symmetry and bound for TLC | |
| `JwtServiceProofs` | inductive invariant and six theorems | |
| `TokenStoreProofs` | `JwtService` implements `TokenStore` | extends `JwtServiceProofs` |
| `JwtPool` | `JwtService` over the shared pool of connections | composes the two |
| `MCJwtPool` | a pool too small for two refreshes, for TLC | |
| `JwtPoolProofs` | `JwtPool` implements `JwtService`, what follows, and the pool's own invariant | extends `TokenStoreProofs` |
| `Credentials` | the handlers that combine users, sessions and tokens, statement by statement | composes the three services; implements `TokenStore` |
| `CredentialsProofs` | inductive invariant and six theorems | |
| `MCCredentials` | one busy account and one bystander for TLC | |
| `OneTimeLoginProofs` | two theorems about the contract | used by the next two |
| `Passwdless` | passwordless login, cache operation by cache operation | implements `OneTimeLogin` |
| `MCPasswdless` | symmetry for TLC | |
| `PasswdlessProofs` | inductive invariant and seven theorems | |
| `Accounts` | register, rename and deletion of users, by username | used by `Passkey` |
| `Passkey` | both passkey ceremonies, store operation by store operation | composes `Accounts` with the ceremonies; implements `OneTimeLogin` |
| `MCPasskey` | an account and one that comes by its name, for TLC | |
| `PasskeyProofs` | inductive invariant and eight theorems | |

The models of handlers are built alike. `Call` is a set of request slots; `pc[c]`
names the statement the request in slot `c` runs next. A step is one database
statement (or cache operation) together with the code up to the next `.await`.
`Return(c)` is the end of a handler, whatever it answers; `Abort(c)` is the end
of a handler at any await, by an error, a disconnected client or the death of
the process. An error path that changes no state besides ending the call is an
`Abort`. Random tokens, links and nonces are model values that are never drawn
twice. Hashing, signing, bcrypt and zxcvbn appear as outcomes.

Some actions have a neighbour whose comment starts with "Slip": the same action
with a plausible mistake in it (a lost guard, a statement outside the
transaction, a wrong key). `Next` never uses them. They document what each
property protects against: put in place of the action they stand beside, they
violate the property listed with them in `PROJECT.json`.

### TokenStore

A token is `unknown`, then `live`, then `closed`, and belongs to one user from
the start. A refresh `Accept`s a live token; from then on it may `Exchange` it
for a new one of the same user or give up, whatever happens to the token
meanwhile. `using` are the refreshes that have accepted and not finished. The
specification deliberately allows two of them for one token: that is what the
code does (`OneSuccessor`, below, is the sentence it breaks). What it forbids is
everything else: a closed token accepted or revived, a new token without an
accepted one, a new token for another user.

`JwtService` implements it under the mapping `state <- StoreState`,
`using <- StoreUsing`: a token is live when its row is committed, neither
revoked nor expired; it is closed when it was minted and is not live; it is used
by the calls that passed the checks with it and have not returned. The `SELECT`
of a refresh is `Accept`, its commit is `Exchange`, the `UPDATE`s, deletions and
the passing of time are `Close`; everything between the `SELECT` and the commit
is invisible. `Credentials`, which sees the same tokens from the handlers,
implements it too (`using` are its calls at `rotate`): two views of one service
with one contract.

### OneTimeLogin

An item is `unknown`, then `offered`, then `gone`, and never goes back. A call
may `Take` an offered item, and then `Redeem` it for one session or give up
(`Lapse`, which also stands for expiry, overwriting and restarts). With
`Exclusive` a take withdraws the item. Two components implement it:

* `Passwdless` with exclusive takes: the items are the halves of challenges
  (`<<challenge, "link">>`, `<<challenge, "otp">>`), offered while they are in
  their cache, unknown until `release_pair` inserts them; the holders are the
  requests that removed one. The cache's `remove` makes the take exclusive. That
  the two halves of one challenge are two items is what `SingleUse` is about.
* `Passkey` without: the items are ceremonies, offered while filed; the holders
  are the finishes that have read one. The `get` and the `delete` are two
  operations, so a take does not withdraw.

### JwtService

`rows` are the committed rows of `refresh_tokens`, `owner`, `revoked` and
`expired` their columns (`expires_at` as "has passed"), `users` the rows of
`users`. An open transaction of `refresh` is its deleted row in `held[c]` and its
inserted row `new[c]`, applied by `RefreshCommit` and forgotten by `Return`.
`held[c]` are the rows a call has changed and keeps locked until it ends.
PostgreSQL is modelled as far as the code relies on it:

* a statement sees committed rows only (READ COMMITTED);
* `DELETE` and `UPDATE` wait for a row another transaction has deleted
  (`RowFree`) and then see whether it is still there;
* `INSERT` takes a key-share lock on the user's row by the foreign key, so it
  waits for, and is waited for by, the deletion of the user (`UserRowFree`,
  `KeyShareFree`);
* `UPDATE .. WHERE user_id` works on the rows it found when it started
  (`RevokeAllScan`), and so does the cascade of a deletion. Both take these rows
  one after the other (`LockNextRow`), in any order: `tok[c]` is the row such a
  statement is at, `snap[c]` what it has left, and what it has taken stays locked
  while it waits for the next (`held[c]`). `RevokeAllApply` and
  `RemoveUserCascade` are their ends, where the changes become visible;
* a cycle of waiting transactions is broken by aborting one (`BreakDeadlock`).
  `WaitsFor(c)` spells out whose locks the next statement of `c` waits for, and
  `Ahead(c)` follows the waits on: the calls `c` waits for, those they wait for,
  and so on; that `WaitsFor(c)` is empty exactly when the guards on locks hold is
  a lemma (`WaitsAreGuards`). A call is in a deadlock when it is ahead of itself (`InDeadlock`),
  whatever the length of the cycle.

`RefreshRetrieve` may go on for a user who no longer exists, since the
repository reads through a cache. `IssueTokenPair` is one statement and needs no
slot.

### JwtPool

`conn` are the calls that hold a connection, `lent` is the number of
connections that requests outside the model hold. A call takes a connection
for its first statement (`Acquire`) and keeps it until it returns. The user
lookup of `refresh` needs a second one (`RetrieveFromDb`) or none, when the cache
has the user (`RetrieveFromCache`). A call that waits while the pool is exhausted
may run into the acquire timeout (`AcquireTimeout`): for `refresh` in its lookup,
the transaction is rolled back and the call ends. Tokens are issued by
`IssueTokenPair` when the pool has a connection for its one statement.

### Credentials

A password is the number of the write that set it. `gen[u]` is the number
behind the stored hash; every session and token carries the number of the
password it rests on (`sGen`, `tGen`: history, the code has no such column). A
rotation, `change_password` or `confirm_password_reset`, goes through `list`,
`sweep`, (`lookup`, `reissue`,) `revoke`, `close`. `faulty` marks rotations one of whose
revocations failed and was skipped, `raced` those that a session of an older
password escaped after the list was taken, or a token of one after the `UPDATE`
of the revoke-all had found its rows; both exist for the properties.

`confirm_password_reset` locks the reset row by its `UPDATE .. RETURNING` and
writes the password in the same transaction: the commit is one step,
`ConfirmApply`. Refresh and revoke-all appear as `JwtService` shows them from
outside: a refresh is its `SELECT` and its commit, a revoke-all is the start of
its `UPDATE`, which fixes the rows it sees (`RevokeTokensScan`), and its end
(`RevokeTokensApply`).

Two actions come from the admin viewsets. `AdminRemoveSession` ends any session.
`RemoveUser` deletes an account with its sessions, tokens and resets (`ON DELETE
CASCADE`), between any two statements of a request of that account, except while
a confirmation holds one of its reset rows. The request goes on: its `INSERT`s
fail by the foreign key, and `change_password` does not look whether its
`UPDATE` found a row.

### Passwdless

`links` and `otps` are the challenges whose half is present in either cache.
`ConfirmLink` and `ConfirmToken` are the atomic removal the cache gives
(`remove` returns the entry to one caller), `DropOtherHalf` the second removal.
`Expire` takes one half at a time. `Restart` empties both caches and ends every
request, while sessions and published events stay. A challenge may be presented
once its event is committed; links and nonces are random and are not guessed.

### Accounts and Passkey

`name` is the column `username`. `lost` (history) are the accounts that were
renamed or deleted: what the code files under a username is only as good as the
username. Keys of users are never drawn twice, names come back.

`store` is `reg_store` and `auth_store` together: a registration is filed under
the id of its user, a login under the username (`Key`), and a start replaces what
was filed before (`FileCeremony`). `Take` is the `get`, `Drop` the `delete` of
`take_reg_state` and `take_auth_state`, with the age check and the library's
verdict after it (`Passes`); an ignored error of either operation is one of the
outcomes. `Insert` is the `INSERT` into `passkey_credentials`, `Reload` and
`Update` the read and the write of the counter, `Issue` the session. `Age` makes
a ceremony too old, `Evict` lets a store drop it, `Restart` ends every request
and, with the in-memory store, every ceremony.

The authenticator answers a ceremony once (`Create`, `Sign`); clients may send
the answer as often as they like, in as many requests as they like, and may send
it where another ceremony is expected. An answer passes only against the state
of its own ceremony, since it signs that ceremony's challenge. A finish looks up
its account after its body has arrived, so `FinishLogin` takes the account that
has the name in that step. `stale` (history) marks lists of credentials, and
counters, that were read before another request wrote.

## 3. Runs

| run | instance | checks | result |
|---|---|---|---|
| `jwt_safe` | 2 users, 3 tokens, 3 calls | `TypeOK`, `NoOrphanToken`, `RotationAtomic`, `ClosedStaysClosed`, `RevokeAllComplete`, `KeepsTokenPromise`, `EveryWaitEnds` | holds, 638,791 states |
| `jwt_live` | 1 user, 3 tokens, 2 calls, 2 connections, fairness | `PoolTypeOK`, `PoolNeverWedged`, `EveryCallReturns`, `PoolRecovers` | holds, 67,060 states |
| `jwt_one_successor` | as `jwt_safe` | `OneSuccessor` | violated |
| `jwt_revoked_mints` | as `jwt_safe` | `RevokedNeverMints` | violated |
| `cred_safe` | 2 users (one rotates twice), 2 sessions, 2 tokens, 1 reset, 2 calls | `TypeOK`, `PasswordWritesAccounted`, `CleanStaysClean`, `QuietRotationCleans`, `SessionsEndByRight`, `KeepsTokenPromise` | holds, about 914,000 states |
| `cred_old_sessions` | as `cred_safe` | `OldSessionsRevoked` | violated |
| `cred_tokens_left` | as `cred_safe` | `TokensRevokedOnReturn` | violated |
| `cred_lost_update` | as `cred_safe` | `VerifiedPasswordReplaced` | violated |
| `passwdless` | 2 users, 2 challenges, 4 sessions, 3 calls | `TypeOK`, `EachHalfOnce`, `OneGuess`, `AnsweredMeansSpent`, `DeliveredWorks`, `KeepsLoginPromise` | holds, 7,061 states |
| `passwdless_single_use` | as `passwdless` | `SingleUse` | violated |
| `passkey` | 2 users, 2 names, 2 credentials, 1 authenticator, 3 ceremonies, 1 session, 2 calls | `TypeOK`, `CeremonyIsOwn`, `OneCredentialPerDevice`, `SpentStaysSpent`, `CounterForward`, `RemovedOnlyDrains`, `KeepsLoginPromise` | holds, 488,295 states |
| `passkey_single_use` | 2 users, 1 name, 1 credential, 2 ceremonies, 2 sessions, 2 calls | `SingleUse` | violated |

What holds:

* `RotationAtomic`: a token row disappears only together with the appearance of
  its replacement, or with its user. The comment on `refresh` that a failure
  before commit leaves the old token valid is this property.
* `ClosedStaysClosed`: the positive side of the two disagreements below. Once a
  token is used up, revoked or expired, no further request passes the checks
  with it; the requests that had passed them before can still finish, and they
  only become fewer.
* `RevokeAllComplete`: a revoke-all that no refresh or issue of its user
  overlaps leaves no live token.
* `NoOrphanToken`: holds although the user is looked up in a cache, because of
  the foreign key and its lock.
* `KeepsTokenPromise`: `JwtService` implements `TokenStore`, and so does
  `Credentials`.
* `EveryWaitEnds`: waits queue up behind waits (a logout behind a revoke-all that
  holds one row and waits for the next), and every such queue leads to a request
  that can go on with the connection it has, or to a deadlock, which Postgres
  breaks. In particular nobody waits, however indirectly, only for a refresh that
  is looking its user up and may itself be waiting for a connection, and every
  deadlock has a revoke-all or the deletion of a user in it: refreshes and
  logouts alone, which take one token row each, cannot form one. A `SELECT .. FOR
  UPDATE` in `refresh`, the usual cure of `OneSuccessor`, would break it.
* `PoolNeverWedged`: when the pool is exhausted somebody can still give a
  connection back. The requests that hold the connections wait for locks held by
  requests that have connections too. This is the state behind `PoolRecovers`,
  and unlike it needs no fairness.
* `EveryCallReturns`: every request ends. A refresh that has deleted its token
  and the deletion of its user do wait for each other, and refreshes that hold
  all connections do wait for one more; the deadlock detector and the acquire
  timeout are needed, and are enough.
* `PoolRecovers`: however refreshes exhaust the pool, a connection is free again
  and again.
* `CleanStaysClean`: when nothing rests on an old password, neither a row nor a
  request under way, nothing ever does until the next password write.
* `QuietRotationCleans`: a rotation without failed statements, that no session
  or token of an older password escaped, and that ends when no request under an older
  password is under way, leaves the account clean. This is what the code does
  guarantee where `OldSessionsRevoked` fails.
* `PasswordWritesAccounted`: every write of a password is one finished
  `change_password` or one consumed reset token.
* `SessionsEndByRight`: a session ends by its own logout, by an admin, with its
  user, or by a statement of a request of its own user that sweeps or removes
  sessions. No request of one user ends a session of another, although
  `delete_session` checks the owner one statement before it deletes by id, and a
  sweep works on a list that may be old.
* `EachHalfOnce`, `OneGuess`, `AnsweredMeansSpent`, `DeliveredWorks`: see the
  comments in `Passwdless`.
* `CeremonyIsOwn`: a stored passkey belongs to the account whose registration
  made it, and a passkey login is for the account whose passkey signed. The one
  exception is in the property: when that account was renamed or deleted in the
  five minutes of the ceremony and another took its name, the session is the
  other's.
* `OneCredentialPerDevice`: an authenticator is registered twice for one account
  only by a registration whose exclude list another one made out of date.
* `SpentStaysSpent`: a ceremony that was taken, overwritten or evicted never
  comes back to its store, and no further finish gets it. This is what remains of
  single use.
* `CounterForward`: the counter of a passkey goes back only by a write that
  another login's write overtook.

* `RemovedOnlyDrains`: `login/finish` does not look whether the account still has
  the passkey that signed. After a removal, what can still log in with it are the
  starts that had listed it and their ceremonies, and these only become fewer.
* `KeepsLoginPromise`: `Passwdless` and `Passkey` implement `OneTimeLogin`.

What does not hold, each against a sentence of the repository (`PROJECT.json`,
"findings"):

* `OneSuccessor`: two overlapping refreshes with one token both succeed. The
  second `DELETE` waits, removes nothing, and its count is not looked at.
* `RevokedNeverMints`: a logout between the `SELECT` and the `DELETE` of a
  refresh is not seen by it; the pair is issued after the logout answered.
* `OldSessionsRevoked`: a login that compared the old hash before the write may
  insert its session after the revocation listed the sessions.
* `TokensRevokedOnReturn`: an error of `get_user_by_id` or `issue_session` ends
  `change_password` before the refresh tokens are revoked.
* `VerifiedPasswordReplaced`: `change_password` may overwrite a password it did
  not verify, since another write can land between its two statements.
* `SingleUse` of `Passwdless`: link and code of one challenge, presented at the
  same time, both log in.
* `SingleUse` of `Passkey`: two finishes that read a ceremony before either
  deleted it both issue a session for one signature; so does a second one after a
  delete that failed. The counter does not stop it, for it is compared with the
  copy in the ceremony and a row that is not behind is simply not written.

### Bounds, and why they are enough

* *Tokens and calls of `JwtService`.* Three calls let two refreshes of one token
  meet a third party (logout, revoke-all, deletion, a refresh with the
  successor). Three tokens give a token, its successor and either a second
  successor or an unrelated token. `Supply` keeps one fresh token back for every
  refresh that is not past its `INSERT`, so that the bound never blocks a
  transaction half way. One token expires or one user is deleted (`Bound` of
  `MCJwtService`); the other tokens are closed by logout and revoke-all. Two
  tokens of one user are enough for a statement that holds one row and waits for
  the other, and three calls for a third that waits for it.
* *The liveness run* keeps two calls, one user and two connections: a cycle of
  row locks is between a refresh and one holder of its token's or its user's row,
  and two refreshes are enough to hold the whole pool. `Bound` of `MCJwtPool`
  counts only steps without fairness (issuing, expiring, lending): one token is
  issued and its successors come from refreshes. `LeastUnused` takes tokens in
  order, which loses nothing because unused tokens are alike.
* *`MaxGen`.* The rotating account writes its password twice: the second write
  is what makes a verified password stale. The bystander never does.
* *`Bystander`* (a state constraint) keeps the second account to one session and
  one request at a time: it is there for `delete_session` and for revocations
  that might hit the wrong user. It also bounds the first account: it is deleted
  while it has written one password at most, which leaves every place of a
  rotation to be deleted at, and has no reset open once it can write no more.
* *Two sessions, two tokens, one reset* are drawn once each and never reused:
  a session of the old password and the reissued one; a token and its successor.
* *Two challenges and three calls of `Passwdless`*: two requests on one
  challenge and one on another; four sessions pay for the four halves.
* *Passkeys* (`Bound` of `MCPasskey`): three ceremonies, or two of them and one
  of a second credential, a renamed or deleted account, or a ceremony that gets
  too old. Three ceremonies are a registration and two logins, or a second
  registration; each of the other events needs two. One authenticator is enough
  to be registered twice. The second account exists to come by the name of the
  first: it registers once that one was renamed or deleted, and begins no
  ceremony. Two calls run at a time. The proofs are without these bounds.
* *Symmetry* is used in the safety runs only. The liveness run has none.

Every run lets any request begin at any time, so the models do not stop and
deadlock checking stays on.

### Fairness

`PoolFairness` of `JwtPool`, used by `jwt_live`, assumes per call:

* strong fairness of `Statement`, `Acquire` and `RetrieveFromDb`. tokio polls
  every future that is ready, and PostgreSQL answers every statement. What waits
  for a row lock or a connection is enabled again and again while others take
  and release it; PostgreSQL and the sqlx pool serve waiters in the order of
  their arrival, so each gets its turn;
* weak fairness of `BreakDeadlock`: the detector runs after `deadlock_timeout`,
  and a cycle of waiting does not go away by itself;
* weak fairness of `AcquireTimeout`: the pool is exhausted continuously, and the
  timer fires;

and weak fairness of `GiveBack`: the rest of the service ends its statements.
Nothing is assumed of the cache, of `Abort`, of clients, or of time otherwise.

## 4. Proofs

TLAPS proves, for every set of users, tokens and calls (finite or not, but for
`WaitsEnd`, which is for finitely many calls) and from the named assumptions
only (`NoToken`, `NoUser`, `NoChallenge`, `None` are not members of the sets they stand beside; in `Passkey`, keys of users
are no usernames and calls are no ceremonies; a pool has a connection):

| module | theorem | states |
|---|---|---|
| `JwtServiceProofs` | `TypeCorrectness` | `Spec => []TypeOK` |
| | `NoOrphans` | `Spec => []NoOrphanToken` |
| | `RotationIsAtomic` | `Spec => RotationAtomic` |
| | `ClosedIsForever` | `Spec => ClosedStaysClosed` |
| | `RevokeAllIsComplete` | `Spec => RevokeAllComplete` |
| | `WaitsEnd` | `Spec => []EveryWaitEnds`, for finitely many calls |
| `CredentialsProofs` | `TypeCorrectness` | `Spec => []TypeOK` |
| | `WritesArePaid` | `Spec => []PasswordWritesAccounted` |
| | `CleanIsKept` | `Spec => CleanStaysClean` |
| | `QuietRotationsClean` | `Spec => QuietRotationCleans` |
| | `SessionsEndAsTheyMay` | `Spec => SessionsEndByRight` |
| | `ImplementsTokenStore` | `Spec => KeepsTokenPromise` |
| `TokenStoreProofs` | `ImplementsTokenStore` | `Spec => KeepsTokenPromise` |
| `JwtPoolProofs` | `PoolImplementsJwtService` | `PoolSpec => Spec` |
| | `PoolKeepsRotationAtomic` | `PoolSpec => RotationAtomic` |
| | `PoolKeepsTokenPromise` | `PoolSpec => KeepsTokenPromise` |
| | `PoolTypeCorrectness` | `PoolSpec => []PoolTypeOK` |
| | `PoolIsNeverWedged` | `PoolSpec => []PoolNeverWedged` |
| `OneTimeLoginProofs` | `ItemsPayOnce` | `Spec => []PaysOnce`, where `Nobody` is no item |
| | `GoneItemsDrain` | `Spec => GoneDrains` |
| `PasswdlessProofs` | `TypeCorrectness` | `Spec => []TypeOK` |
| | `HalvesPayOnce` | `Spec => []EachHalfOnce` |
| | `CodesComparedOnce` | `Spec => []OneGuess` |
| | `AnsweredIsSpent` | `Spec => []AnsweredMeansSpent` |
| | `DeliveredChallengeWorks` | `Spec => []DeliveredWorks` |
| | `ImplementsOneTimeLogin` | `Spec => KeepsLoginPromise` |
| | `ContractPaysOnce` | `Spec => []Contract!PaysOnce` |
| `PasskeyProofs` | `TypeCorrectness` | `Spec => []TypeOK` |
| | `CeremoniesAreOwn` | `Spec => []CeremonyIsOwn` |
| | `DevicesRegisterOnce` | `Spec => []OneCredentialPerDevice` |
| | `SpentIsForever` | `Spec => SpentStaysSpent` |
| | `CounterGoesForward` | `Spec => CounterForward` |
| | `RemovedPasskeysDrain` | `Spec => RemovedOnlyDrains` |
| | `ImplementsOneTimeLogin` | `Spec => KeepsLoginPromise` |
| | `SpentCeremoniesDrain` | `Spec => Contract!GoneDrains` |

The four modules of components follow one argument. `IInv` is the conjunction of the type
invariant and of named parts, each proved to be kept by every action in a lemma
of its own (one step per action); `Invariance` puts them together, and the
theorems follow from `IInv`, the action properties by one more pass over the
actions.

*JwtService.* The properties are not inductive. `CallsOK` ties what a call
carries to its place in the code (a call about to commit has a fresh token of
its own; one past its checks works for the owner of its token). `LocksOK` says
that a refresh past its `DELETE` holds its token's row, if that row was there,
and that no two hold the same row: `RotationAtomic` rests on both. `RowsOK` says
that every row, and every revoked or expired token, was minted. `UsersOK`
carries `NoOrphanToken`: whoever is between its `INSERT` and its commit keeps
the user's row from being deleted, and whoever deletes the user keeps new rows
out. `QuietOK` says that the rows a quiet revoke-all found are still all the
rows of its user. `SweepsOK` says that a statement on many rows is at one of those it has left.
`EveryWaitEnds` follows from the invariant. Whoever is ahead of a call holds a
lock (`AheadAreHolders`): it is a refresh past its `DELETE`, a revoke-all or a
deletion under way, so it is not at the lookup. If none of them can go on, there
is a statement on many rows among them (`SweepAhead`), for a refresh at its
`INSERT` waits only for the deletion of its user. Of these statements take one
with the fewest calls ahead (`FewestAhead`; this is where `Call` has to be
finite). It waits as well, so it has such a statement ahead of it, whose calls
ahead are among its own (`AheadIsTransitive`) and no fewer, hence the same, hence
with that second one itself among them: a deadlock with a statement on many rows
in it.

*TokenStore.* Each action of `JwtService` is shown to be a step of `TokenStore`
under the mapping, or a stutter, in a state where `IInv` of `JwtService` holds:
that the token a call inserts was never minted, and that a call past its checks
works for the owner of its token, is what makes a commit an `Exchange`.

*JwtPool.* With the pool every step is a step of `JwtService` or changes none of
its variables, so every theorem about `JwtService` carries over to a pool of any
size. Liveness does not: that is the business of `jwt_live`. `PoolInv` adds what
`PoolNeverWedged` needs: a call past its first statement holds a connection
(`ConnOK`), and so does every call ahead of one that waits (`AheadAreConnected`);
so by the lemma behind `WaitsEnd` what the holders of the connections wait for leads to a holder that
can run, or to a deadlock among them.

*OneTimeLogin.* `OneHand`: under exclusive takes an item has no holder and no
session before it is gone, and from then on at most one of both together. The
two theorems are about the contract alone. The components inherit them by
instantiating `OneTimeLoginProofs` with their mapping: `ContractPaysOnce` and
`SpentCeremoniesDrain` cite the theorems of the instance.

*Credentials.* `CallsOK`: a call acts for a user under a password the user has
or had; the reset it is about to spend is open and is held by no other; what it
will delete is its user's. `RowsOK`: so are the passwords behind the rows.
The owner of a row is there, as the foreign keys have it.
These two give `CleanStaysClean` (what a call adds is as old as the call) and
`SessionsEndByRight`. `SweepOK`: a rotation that is neither faulty nor raced
still holds every session of an older password until it has deleted them, and
`CloseOK` the same of tokens between the start and the end of the `UPDATE`; the
two give `QuietRotationCleans`. `ImplementsTokenStore` needs of the invariant
that every row was issued to somebody and that a refresh past its checks works
for the user of its token. `PaidOK` counts the spent resets with the
cardinality theorems of the library.

*Passwdless.* `IssuingOK`: a challenge is prepared by one call and unknown to
users until published, so no half returns to a cache after it was taken.
`HalvesOK`: a confirmation holds the half it removed, alone, and no session was
paid with it. It needs `AnsweredMeansSpent`, by which a half that is still in
its cache has paid for nothing. `GuessesOK`: a code that was compared is gone.
`DeliveryOK`: what was put in the caches for a challenge stays until something
touches it. For the refinement `UnbornOK` is added: a half is inserted once, by
the request that drew its challenge, and a session names no half before its row
exists. `Moves` is what every step then keeps: a half enters its cache only from
`unknown`, and nothing becomes `unknown` again.

*Passkey.* `CallsOK` and `StoreOK`: what is filed under a key was begun for
this key, and a finish past its check holds the ceremony whose answer it sent.
`NamesOK` is what `CeremonyIsOwn` needs: whoever began a login had its name then,
and has it still or is lost; a finish that got that name later found the same
account or a lost one. `DevicesOK`: an authenticator holds the credentials a
registration excludes, and none of them is its new one. `ListingOK` and
`ListedOK` (`Told`): of two registrations of one account, one excludes the
other's credential or is stale; with `DevicesOK` this is
`OneCredentialPerDevice`. `CounterOK`: a counter about to be written is behind
the row's only when the row was written since. The refinement rests on `StoreOK`
(what a finish reads under a key is a ceremony filed there) and on the lemmas
behind `SpentStaysSpent`.

Only model-checked: `EveryCallReturns` and `PoolRecovers`, since fairness and
enabledness are out of the prover's reach. The violated properties have a
counterexample and nothing to prove.

## 5. Assumptions about what is not in the repository

* `SessionRepo` and `UserRepository` are the external `viewset` crate.
  `repo.list` is taken to return every matching row of one moment and
  `repo.delete` to be one statement. If the list were paged or served from a
  cache, `QuietRotationCleans` would not carry over.
* The session middleware is external: a request is let in on a session that
  exists when it enters, and its identity is not looked at again.
* A cached user is modelled where it matters (`RefreshRetrieve`); the password
  hash is always read from the database by the code in `src/`.
* webauthn-rs accepts an answer only against the state whose challenge it signs,
  refuses a counter that did not grow beyond the one in the state, and reports
  whether a credential has to be written back. An authenticator refuses to
  register when the exclude list names a credential it holds, and increments its
  counter at every signature. (Authenticators whose counter is always 0 are left
  out: for them there is no counter to go back.)
* The ceremony stores are caches behind one interface; every operation may fail,
  and an entry may be dropped at any time.
* The sqlx pool serves waiters in order and gives up after its acquire timeout.
* The outbox delivers what was committed, some time later or never.

## 6. Not modelled

* Rate limiter, response equalizer, signing, hashing, password strength, HTTP
  mapping: no state the properties depend on.
* `authz`, `proxy` and the binary: not in the repository; only the grants table
  is.
* Of the accounts: the e-mail and `email_confirmed` (no
  decision in `src/` depends on the flag; a taken e-mail refuses a registration as a taken name does).
* The admin's update of a session: which fields it may set is for the external
  viewset crate to say.
* That the deletion of a user and a confirmation of a reset of that user, each
  waiting for the other's row, may end in a deadlock: `RemoveUser` is one step
  and waits for the confirmation. The one that is aborted is an `Abort`, or a
  deletion that did not happen.
* The generic CRUD of the viewsets (list, retrieve, partial update): external
  code of which only the calls are visible. Deletions are modelled by their
  statements and cascades.
* The connections of services other than `JwtService`: they hold one at a time,
  so they appear as borrowers (`Lend`, `GiveBack`).
* What a revoke-all promises when the session list is paged or cached, and what
  a process that dies between the commit of a password and the revocations owes:
  the code promises nothing there. Both are listed as hazards without a property.

## 7. What could follow

1. `Accounts` composed with `Credentials`: rename while a password login of the
   same account is under way.
2. `JwtPool` with the session requests spelled out instead of `Lend`, and larger
   pools.

## 8. Running it

    tlc -workers 2 -config JwtSafe.cfg MCJwtService.tla
    tlapm JwtServiceProofs.tla

Each `.cfg` belongs to the `MC` module of the same component (`JwtLive.cfg` to
`MCJwtPool`).
