-------------------------------- MODULE Passkey --------------------------------
(***************************************************************************)
(* Passkeys: src/authn/passkey.  A ceremony is begun by one request and    *)
(* finished by another; in between its state lies in a store, filed under  *)
(* the user id (registration) or the username (login).  A step is one      *)
(* operation on a store or one statement on passkey_credentials, users or  *)
(* sessions.                                                               *)
(*                                                                         *)
(* What the webauthn library does is modelled from how the code uses it.   *)
(* The authenticator answers a ceremony once, with a new credential or     *)
(* with a signature that carries its next counter; the answer may be sent  *)
(* any number of times, by anybody, and passes only against the state of   *)
(* its own ceremony.                                                       *)
(***************************************************************************)
EXTENDS Accounts, Naturals

CONSTANTS Cred, Device, Ceremony, Session, Call

ASSUME NoneFresh == None \notin Cred \cup Device \cup Ceremony \cup Session
ASSUME HistoryAssumption == Call \cap Ceremony = {}

Key == User \cup Name

VARIABLES
  rows,            \* passkey_credentials, by credential_id
  cUser, ctr,      \* their user_id; the counter inside passkey_data
  device,          \* the authenticator that holds a credential
  store,           \* the ceremony filed under a key: reg_store and auth_store
  xKey, xFor,      \* key of a ceremony; the account it was begun for
  listed,          \* the credentials it excludes or allows, with their counters
  aged,            \* ceremonies older than CHALLENGE_TTL
  used,            \* the authenticator's own counter for a credential
  aCred, aCtr,     \* the credential and counter of its answer to a ceremony
  sCer, sUser,     \* the ceremony and the account of a session
  pc, usr, key,    \* per call: next operation, account looked up, key
  sent, cer,       \* per call: ceremony whose answer it sends, ceremony it took
  got,             \* per call: credentials it read
  stale            \* history: calls and ceremonies whose copy of the
                   \* credentials was taken before a later write

credVars == <<rows, cUser, ctr, device>>
cerVars == <<store, xKey, xFor, listed, aged>>
answerVars == <<used, aCred, aCtr>>
sessVars == <<sCer, sUser>>
callVars == <<pc, usr, key, sent, cer, got>>
vars == <<accountVars, credVars, cerVars, answerVars, sessVars, callVars, stale>>

PC == {"idle", "list", "file", "take", "drop", "insert", "reload", "update", "issue"}

CredsOf(u) == {k \in rows : cUser[k] = u}
Begun == {x \in Ceremony : xKey[x] # None}
Takers(x) == {c \in Call : cer[c] = x}
(* Ceremonies that were overwritten, taken, evicted or never filed.         *)
Left == {x \in Begun : store[xKey[x]] # x}

Goto(c, l) ==
  /\ pc' = [pc EXCEPT ![c] = l]
  /\ UNCHANGED <<usr, key, sent, cer, got>>

Enter(c, l, u, k, x) ==
  /\ pc[c] = "idle"
  /\ pc' = [pc EXCEPT ![c] = l]
  /\ usr' = [usr EXCEPT ![c] = u]
  /\ key' = [key EXCEPT ![c] = k]
  /\ sent' = [sent EXCEPT ![c] = x]
  /\ UNCHANGED <<cer, got, stale>>

Return(c) ==
  /\ pc' = [pc EXCEPT ![c] = "idle"]
  /\ usr' = [usr EXCEPT ![c] = None]
  /\ key' = [key EXCEPT ![c] = None]
  /\ sent' = [sent EXCEPT ![c] = None]
  /\ cer' = [cer EXCEPT ![c] = None]
  /\ got' = [got EXCEPT ![c] = {}]

Init ==
  /\ AccountsInit
  /\ rows = {} /\ aged = {} /\ stale = {}
  /\ cUser = [k \in Cred |-> None] /\ ctr = [k \in Cred |-> 0]
  /\ device = [k \in Cred |-> None]
  /\ store = [k \in Key |-> None]
  /\ xKey = [x \in Ceremony |-> None] /\ xFor = [x \in Ceremony |-> None]
  /\ listed = [x \in Ceremony |-> {}]
  /\ used = [k \in Cred |-> 0]
  /\ aCred = [x \in Ceremony |-> None] /\ aCtr = [x \in Ceremony |-> 0]
  /\ sCer = [s \in Session |-> None] /\ sUser = [s \in Session |-> None]
  /\ pc = [c \in Call |-> "idle"]
  /\ usr = [c \in Call |-> None] /\ key = [c \in Call |-> None]
  /\ sent = [c \in Call |-> None] /\ cer = [c \in Call |-> None]
  /\ got = [c \in Call |-> {}]

-----------------------------------------------------------------------------
(* The identity token of a registration may outlive its account, and so may *)
(* the account in the cache get_user_by_id reads through.                   *)
Known(u) == Exists(u) \/ u \in lost

(* start of either ceremony: the account is the identity's, or the one that *)
(* has the username now.                                                    *)
StartRegister(c, u) ==
  /\ Known(u)
  /\ Enter(c, "list", u, u, None)
  /\ UNCHANGED <<accountVars, credVars, cerVars, answerVars, sessVars>>

StartLogin(c, u) ==
  /\ Exists(u)
  /\ Enter(c, "list", u, name[u], None)
  /\ UNCHANGED <<accountVars, credVars, cerVars, answerVars, sessVars>>

(* Slip: a registration begins with an empty exclude list.                  *)
ListNothing(c) ==
  /\ pc[c] = "list"
  /\ pc' = [pc EXCEPT ![c] = "file"]
  /\ got' = [got EXCEPT ![c] = IF key[c] \in User THEN {}
                               ELSE {<<k, ctr[k]>> : k \in CredsOf(usr[c])}]
  /\ UNCHANGED <<accountVars, credVars, cerVars, answerVars, sessVars,
                 usr, key, sent, cer, stale>>

(* Slip: the list comes from a cache that a removal does not reach.         *)
ListCached(c) ==
  LET mine == {k \in Cred : cUser[k] = usr[c]} IN
  /\ pc[c] = "list"
  /\ \/ /\ key[c] \in User \/ mine # {}
        /\ pc' = [pc EXCEPT ![c] = "file"]
        /\ got' = [got EXCEPT ![c] = {<<k, ctr[k]>> : k \in mine}]
        /\ UNCHANGED <<usr, key, sent, cer>>
     \/ key[c] \in Name /\ mine = {} /\ Return(c)
  /\ UNCHANGED <<accountVars, credVars, cerVars, answerVars, sessVars, stale>>

(* credentials_for_user: a login without any is refused.                    *)
ListCredentials(c) ==
  /\ pc[c] = "list"
  /\ \/ /\ key[c] \in User \/ CredsOf(usr[c]) # {}
        /\ pc' = [pc EXCEPT ![c] = "file"]
        /\ got' = [got EXCEPT ![c] = {<<k, ctr[k]>> : k \in CredsOf(usr[c])}]
        /\ UNCHANGED <<usr, key, sent, cer>>
     \/ key[c] \in Name /\ CredsOf(usr[c]) = {} /\ Return(c)
  /\ UNCHANGED <<accountVars, credVars, cerVars, answerVars, sessVars, stale>>

(* store_reg_state, store_auth_state: the ceremony filed before under this  *)
(* key is gone.  A failed set is only logged and the client gets a          *)
(* challenge that was not filed.                                            *)
FileCeremony(c) ==
  /\ pc[c] = "file"
  /\ \E x \in Ceremony :
       /\ xKey[x] = None
       /\ xKey' = [xKey EXCEPT ![x] = key[c]]
       /\ xFor' = [xFor EXCEPT ![x] = usr[c]]
       /\ listed' = [listed EXCEPT ![x] = got[c]]
       /\ store' \in {[store EXCEPT ![key[c]] = x], store}
       /\ stale' = IF c \in stale THEN (stale \ {c}) \cup {x} ELSE stale
  /\ Return(c)
  /\ UNCHANGED <<accountVars, credVars, aged, answerVars, sessVars>>

(* The authenticator: a new credential, unless the exclude list names one   *)
(* it holds, or a signature by an allowed one with the next counter.        *)
Create(x, k, d) ==
  /\ xKey[x] \in User /\ aCred[x] = None
  /\ device[k] = None
  /\ \A p \in listed[x] : device[p[1]] # d
  /\ aCred' = [aCred EXCEPT ![x] = k]
  /\ device' = [device EXCEPT ![k] = d]
  /\ UNCHANGED <<accountVars, rows, cUser, ctr, cerVars, used, aCtr, sessVars,
                 callVars, stale>>

Sign(x, k) ==
  /\ xKey[x] \in Name /\ aCred[x] = None
  /\ \E p \in listed[x] : p[1] = k
  /\ aCred' = [aCred EXCEPT ![x] = k]
  /\ used' = [used EXCEPT ![k] = @ + 1]
  /\ aCtr' = [aCtr EXCEPT ![x] = used[k] + 1]
  /\ UNCHANGED <<accountVars, credVars, cerVars, sessVars, callVars, stale>>

(* finish of either ceremony, with an answer to ceremony x, which came with *)
(* the request and so before the account is looked up.                      *)
FinishRegister(c, u, x) ==
  /\ Known(u) /\ aCred[x] # None /\ xKey[x] \in User
  /\ Enter(c, "take", u, u, x)
  /\ UNCHANGED <<accountVars, credVars, cerVars, answerVars, sessVars>>

FinishLogin(c, u, x) ==
  /\ Exists(u) /\ aCred[x] # None /\ xKey[x] \in Name
  /\ Enter(c, "take", u, name[u], x)
  /\ UNCHANGED <<accountVars, credVars, cerVars, answerVars, sessVars>>

(* Slip: the client's answer names the ceremony, not the session or the     *)
(* username.                                                                *)
TakeAnswered(c) ==
  /\ pc[c] = "take"
  /\ \/ /\ store[xKey[sent[c]]] = sent[c]
        /\ pc' = [pc EXCEPT ![c] = "drop"]
        /\ cer' = [cer EXCEPT ![c] = sent[c]]
        /\ UNCHANGED <<usr, key, sent, got>>
     \/ store[xKey[sent[c]]] # sent[c] /\ Return(c)
  /\ UNCHANGED <<accountVars, credVars, cerVars, answerVars, sessVars, stale>>

(* take_reg_state, take_auth_state: get, then delete.                       *)
Take(c) ==
  /\ pc[c] = "take"
  /\ \/ /\ store[key[c]] # None
        /\ pc' = [pc EXCEPT ![c] = "drop"]
        /\ cer' = [cer EXCEPT ![c] = store[key[c]]]
        /\ UNCHANGED <<usr, key, sent, got>>
     \/ store[key[c]] = None /\ Return(c)
  /\ UNCHANGED <<accountVars, credVars, cerVars, answerVars, sessVars, stale>>

(* finish_passkey_registration, finish_passkey_authentication.              *)
Passes(c) ==
  /\ cer[c] \notin aged
  /\ sent[c] = cer[c]
  /\ key[c] \in Name =>
       \E p \in listed[cer[c]] : p[1] = aCred[cer[c]] /\ p[2] < aCtr[cer[c]]

(* Slips: any answer passes; a ceremony whose answer fails is put back.     *)
DropUnverified(c) ==
  /\ pc[c] = "drop"
  /\ store' \in {[store EXCEPT ![key[c]] = None], store}
  /\ \/ cer[c] \notin aged /\ Goto(c, IF key[c] \in User THEN "insert" ELSE "reload")
     \/ cer[c] \in aged /\ Return(c)
  /\ UNCHANGED <<accountVars, credVars, xKey, xFor, listed, aged, answerVars,
                 sessVars, stale>>

DropPutsBack(c) ==
  /\ pc[c] = "drop"
  /\ \/ /\ Passes(c)
        /\ store' = [store EXCEPT ![key[c]] = None]
        /\ Goto(c, IF key[c] \in User THEN "insert" ELSE "reload")
     \/ /\ ~Passes(c)
        /\ store' = [store EXCEPT ![key[c]] = cer[c]]
        /\ Return(c)
  /\ UNCHANGED <<accountVars, credVars, xKey, xFor, listed, aged, answerVars,
                 sessVars, stale>>

(* The delete takes whatever is filed under the key by then, and its error  *)
(* is ignored.  The age and the answer are judged afterwards.               *)
Drop(c) ==
  /\ pc[c] = "drop"
  /\ store' \in {[store EXCEPT ![key[c]] = None], store}
  /\ \/ Passes(c) /\ Goto(c, IF key[c] \in User THEN "insert" ELSE "reload")
     \/ ~Passes(c) /\ Return(c)
  /\ UNCHANGED <<accountVars, credVars, xKey, xFor, listed, aged, answerVars,
                 sessVars, stale>>

(* insert_credential: credential_id is unique and the user must exist, or   *)
(* the INSERT fails and the request with it.                                *)
Insert(c) ==
  LET k == aCred[cer[c]] IN
  /\ pc[c] = "insert"
  /\ k \notin rows /\ Exists(usr[c])
  /\ rows' = rows \cup {k}
  /\ cUser' = [cUser EXCEPT ![k] = usr[c]]
  /\ ctr' = [ctr EXCEPT ![k] = 0]
  /\ stale' = (stale \ {c})
       \cup {d \in Call : pc[d] = "file" /\ usr[d] = usr[c]}
       \cup {x \in Begun \ {cer[c]} : xFor[x] = usr[c] /\ aCred[x] \notin rows}
  /\ Return(c)
  /\ UNCHANGED <<accountVars, device, cerVars, answerVars, sessVars>>

(* Slip: the counter is written back whether or not it grew.                *)
ReloadAlwaysUpdates(c) ==
  /\ pc[c] = "reload"
  /\ Goto(c, IF aCred[cer[c]] \in CredsOf(usr[c]) THEN "update" ELSE "issue")
  /\ stale' = stale \ {c}
  /\ UNCHANGED <<accountVars, credVars, cerVars, answerVars, sessVars>>

(* credentials_for_user and update_credential of the library: the row is    *)
(* written back only if the account still has it and its counter grew.  An  *)
(* error of the read is logged.                                             *)
Reload(c) ==
  /\ pc[c] = "reload"
  /\ \/ /\ aCred[cer[c]] \in CredsOf(usr[c])
        /\ ctr[aCred[cer[c]]] < aCtr[cer[c]]
        /\ Goto(c, "update")
     \/ Goto(c, "issue")
  /\ stale' = stale \ {c}
  /\ UNCHANGED <<accountVars, credVars, cerVars, answerVars, sessVars>>

(* update_credential: the counter read before is not compared again.  An    *)
(* error is logged.                                                         *)
Update(c) ==
  LET k == aCred[cer[c]] IN
  /\ pc[c] = "update"
  /\ \/ /\ k \in rows
        /\ ctr' = [ctr EXCEPT ![k] = aCtr[cer[c]]]
        /\ stale' = (stale \ {c})
             \cup {d \in Call \ {c} : pc[d] = "update" /\ aCred[cer[d]] = k}
     \/ UNCHANGED ctr /\ stale' = stale \ {c}
  /\ Goto(c, "issue")
  /\ UNCHANGED <<accountVars, rows, cUser, device, cerVars, answerVars, sessVars>>

(* Slip: an issue whose answer was lost is tried again.                     *)
IssueRetried(c) ==
  /\ pc[c] = "issue" /\ Exists(usr[c])
  /\ \E s \in Session :
       /\ sCer[s] = None
       /\ sCer' = [sCer EXCEPT ![s] = cer[c]]
       /\ sUser' = [sUser EXCEPT ![s] = usr[c]]
  /\ Return(c) \/ Goto(c, "issue")
  /\ UNCHANGED <<accountVars, credVars, cerVars, answerVars, stale>>

(* issue_session, for the account the name was looked up to.                *)
Issue(c) ==
  /\ pc[c] = "issue" /\ Exists(usr[c])
  /\ \E s \in Session :
       /\ sCer[s] = None
       /\ sCer' = [sCer EXCEPT ![s] = cer[c]]
       /\ sUser' = [sUser EXCEPT ![s] = usr[c]]
  /\ Return(c)
  /\ UNCHANGED <<accountVars, credVars, cerVars, answerVars, stale>>

(* remove: DELETE .. WHERE id AND user_id.                                  *)
RemoveCredential(u, k) ==
  /\ k \in CredsOf(u)
  /\ rows' = rows \ {k}
  /\ UNCHANGED <<accountVars, cUser, ctr, device, cerVars, answerVars, sessVars,
                 callVars, stale>>

-----------------------------------------------------------------------------
(* Accounts come, change their names and go, with their credentials.        *)
Account ==
  \E u \in User :
    /\ \/ \E n \in Name : (Register(u, n) \/ Rename(u, n)) /\ UNCHANGED rows
       \/ Remove(u) /\ rows' = rows \ CredsOf(u)
    /\ UNCHANGED <<cUser, ctr, device, cerVars, answerVars, sessVars, callVars, stale>>

(* Time passes for a ceremony that is filed or taken, the only ones whose   *)
(* age is looked at; a store drops it.                                      *)
Age(x) ==
  /\ x \in Begun \ aged
  /\ x \notin Left \/ Takers(x) # {}
  /\ aged' = aged \cup {x}
  /\ UNCHANGED <<accountVars, credVars, store, xKey, xFor, listed, answerVars,
                 sessVars, callVars, stale>>

Evict(k) ==
  /\ store[k] # None
  /\ store' = [store EXCEPT ![k] = None]
  /\ UNCHANGED <<accountVars, credVars, xKey, xFor, listed, aged, answerVars,
                 sessVars, callVars, stale>>

(* An operation fails, the client disconnects or the process dies.          *)
Abort(c) ==
  /\ pc[c] # "idle"
  /\ Return(c)
  /\ stale' = stale \ {c}
  /\ UNCHANGED <<accountVars, credVars, cerVars, answerVars, sessVars>>

(* The process restarts: every request ends, and with the in-memory cache   *)
(* factory the stores are empty.                                            *)
Restart ==
  /\ store' \in {[k \in Key |-> None], store}
  /\ pc' = [c \in Call |-> "idle"]
  /\ usr' = [c \in Call |-> None] /\ key' = [c \in Call |-> None]
  /\ sent' = [c \in Call |-> None] /\ cer' = [c \in Call |-> None]
  /\ got' = [c \in Call |-> {}]
  /\ stale' = stale \ Call
  /\ UNCHANGED <<accountVars, credVars, xKey, xFor, listed, aged, answerVars, sessVars>>

Request(c) ==
  \E u \in User :
    \/ StartRegister(c, u) \/ StartLogin(c, u)
    \/ \E x \in Ceremony : FinishRegister(c, u, x) \/ FinishLogin(c, u, x)

Advance(c) ==
  \/ ListCredentials(c) \/ FileCeremony(c) \/ Take(c) \/ Drop(c) \/ Insert(c)
  \/ Reload(c) \/ Update(c) \/ Issue(c)

Authenticator ==
  \E x \in Ceremony, k \in Cred : Sign(x, k) \/ \E d \in Device : Create(x, k, d)

Next ==
  \/ \E c \in Call : Request(c) \/ Advance(c) \/ Abort(c)
  \/ \E u \in User, k \in Cred : RemoveCredential(u, k)
  \/ \E x \in Ceremony : Age(x)
  \/ \E k \in Key : Evict(k)
  \/ Authenticator \/ Account \/ Restart

Spec == Init /\ [][Next]_vars

-----------------------------------------------------------------------------
TypeOK ==
  /\ AccountsTypeOK
  /\ rows \subseteq Cred
  /\ cUser \in [Cred -> User \cup {None}] /\ ctr \in [Cred -> Nat]
  /\ device \in [Cred -> Device \cup {None}]
  /\ store \in [Key -> Ceremony \cup {None}]
  /\ xKey \in [Ceremony -> Key \cup {None}]
  /\ xFor \in [Ceremony -> User \cup {None}]
  /\ listed \in [Ceremony -> SUBSET (Cred \X Nat)]
  /\ aged \subseteq Ceremony
  /\ used \in [Cred -> Nat]
  /\ aCred \in [Ceremony -> Cred \cup {None}] /\ aCtr \in [Ceremony -> Nat]
  /\ sCer \in [Session -> Ceremony \cup {None}]
  /\ sUser \in [Session -> User \cup {None}]
  /\ pc \in [Call -> PC]
  /\ usr \in [Call -> User \cup {None}]
  /\ key \in [Call -> Key \cup {None}]
  /\ sent \in [Call -> Ceremony \cup {None}]
  /\ cer \in [Call -> Ceremony \cup {None}]
  /\ got \in [Call -> SUBSET (Cred \X Nat)]
  /\ stale \subseteq Call \cup Ceremony

(* A credential belongs to the account whose ceremony created it, and a     *)
(* ceremony logs in the account whose credential signed, unless that        *)
(* account was renamed or deleted: its name may be another's by then, and   *)
(* finish issues the session to whoever has the name.                       *)
CeremonyIsOwn ==
  /\ \A k \in rows : \E x \in Ceremony : aCred[x] = k /\ xKey[x] = cUser[k]
  /\ \A s \in Session : sCer[s] # None =>
       sUser[s] = xFor[sCer[s]] \/ xFor[sCer[s]] \in lost

(* A ceremony that was taken and deleted, overwritten, evicted or never     *)
(* filed does not come back to its store, and no further finish gets it:    *)
(* only those that had read it by then can still use it.                    *)
SpentStaysSpent ==
  [][\A x \in Left : x \in Left' /\ Takers(x)' \subseteq Takers(x)]_vars

(* The counter that detects a cloned authenticator goes back only when two  *)
(* logins with one credential have both read it before either wrote it.     *)
CounterForward ==
  [][\A k \in rows \cap rows' : ctr'[k] < ctr[k] =>
       \E c \in stale \cap Call : pc[c] = "update" /\ aCred[cer[c]] = k]_vars

(* register.rs: the same authenticator is not registered twice for one      *)
(* account, unless one of the two registrations listed the credentials      *)
(* before the other inserted its own.                                       *)
OneCredentialPerDevice ==
  \A j, k \in rows :
    cUser[j] = cUser[k] /\ device[j] = device[k] /\ j # k =>
      \E x \in stale \cap Ceremony : aCred[x] \in {j, k}

(* A login does not look whether the account still has the passkey that      *)
(* signed.  A passkey that was removed still logs in with what was begun     *)
(* before, a start that listed it and its ceremony, and with nothing else:   *)
(* from the removal on these only become fewer.                              *)
Starting(k) == {c \in Call : \E p \in got[c] : p[1] = k}
Allowing(k) == {x \in Ceremony : \E p \in listed[x] : p[1] = k}

RemovedOnlyDrains ==
  [][\A k \in Cred \ (rows \cup rows') :
       /\ Starting(k)' \subseteq Starting(k)
       /\ Allowing(k)' \subseteq Allowing(k) \/ Starting(k)' # Starting(k)]_vars

(* A ceremony, as an item of OneTimeLogin.                                  *)
LoginState ==
  [x \in Ceremony |-> CASE x \notin Begun -> "unknown"
                        [] x \in Begun \ Left -> "offered"
                        [] OTHER -> "gone"]

Login == INSTANCE OneTimeLogin
           WITH Item <- Ceremony, state <- LoginState, holders <- [x \in Ceremony |-> Takers(x)],
                paid <- sCer, Nobody <- None, Exclusive <- FALSE

(* The stores and the handlers together are such a login, but for takes      *)
(* that exclude each other: a session is issued only by a request that took  *)
(* the ceremony while it was filed, one for each such request.               *)
KeepsLoginPromise == Login!Spec

(* API.md: the state of a ceremony is single-use.                           *)
SingleUse ==
  \A s, t \in Session : sCer[s] = sCer[t] /\ sCer[s] # None => s = t
=============================================================================
