----------------------------- MODULE PasskeyProofs -----------------------------
(***************************************************************************)
(* Theorems of Passkey for every set of users, names, credentials,         *)
(* authenticators, ceremonies, sessions and calls.                         *)
(***************************************************************************)
EXTENDS Passkey, TLAPS

AfterTake == {"drop", "insert", "reload", "update", "issue"}
AfterPass == AfterTake \ {"drop"}
Registration(x) == xKey[x] \in User
Names(L) == {p[1] : p \in L}

(* A request works for one account, under that account's id or a username,  *)
(* with the ceremony that was filed under this key and, past its check, the *)
(* answer to this ceremony.                                                 *)
CallsOK ==
  \A c \in Call :
    /\ pc[c] # "idle" => usr[c] \in User /\ key[c] \in Name \cup {usr[c]}
    /\ pc[c] \in AfterTake =>
         cer[c] \in Ceremony /\ xKey[cer[c]] = key[c]
    /\ pc[c] \notin AfterTake => cer[c] = None
    /\ pc[c] \in AfterTake \cup {"take"} =>
         sent[c] \in Ceremony /\ aCred[sent[c]] # None
    /\ pc[c] \in AfterPass => sent[c] = cer[c]
    /\ pc[c] = "insert" => key[c] \in User
    /\ pc[c] \in {"reload", "update", "issue"} => key[c] \in Name

(* What is filed under a key was begun for this key; a registration is      *)
(* begun for the account whose id is its key; only ceremonies that were     *)
(* begun are answered, and log somebody in.                                 *)
StoreOK ==
  /\ \A k \in Key : store[k] # None => xKey[store[k]] = k
  /\ \A x \in Ceremony :
       /\ xKey[x] # None => xFor[x] \in User
       /\ Registration(x) => xFor[x] = xKey[x]
       /\ aCred[x] # None => xKey[x] # None
       /\ xKey[x] = None => x \notin stale
  /\ \A s \in Session : sCer[s] # None => xKey[sCer[s]] # None

(* Whoever began or finishes a login had the name then, and has it still    *)
(* or was renamed or deleted.  The answer a finish sends was given before   *)
(* it looked its account up, so it is that account's or a lost one's.       *)
NamesOK ==
  /\ \A u, v \in User : name[u] = name[v] /\ name[u] # None => u = v
  /\ \A c \in Call : pc[c] \in {"list", "file"} /\ key[c] \in Name =>
       name[usr[c]] = key[c] \/ usr[c] \in lost
  /\ \A x \in Ceremony : xKey[x] \in Name =>
       name[xFor[x]] = xKey[x] \/ xFor[x] \in lost
  /\ \A c \in Call :
       pc[c] \in AfterTake \cup {"take"} /\ key[c] \in Name /\ xKey[sent[c]] = key[c] =>
         usr[c] = xFor[sent[c]] \/ xFor[sent[c]] \in lost

(* A credential is made by one registration, on an authenticator that holds *)
(* none of those the registration excludes.                                 *)
DevicesOK ==
  /\ \A k \in rows : device[k] # None
  /\ \A c \in Call : \A k \in Names(got[c]) : device[k] # None
  /\ \A x \in Ceremony : \A k \in Names(listed[x]) : device[k] # None
  /\ \A x \in Ceremony : Registration(x) /\ aCred[x] # None =>
       /\ device[aCred[x]] # None
       /\ \A k \in Names(listed[x]) : device[k] # device[aCred[x]]
  /\ \A x, y \in Ceremony :
       Registration(x) /\ Registration(y) /\ aCred[x] = aCred[y] /\ aCred[x] # None
         => x = y

(* A counter about to be written is no smaller than the row's, unless the   *)
(* row was written since it was compared.                                   *)
CounterOK ==
  \A c \in Call : pc[c] = "update" /\ c \notin stale =>
    ctr[aCred[cer[c]]] <= aCtr[cer[c]]

(* What a request listed and did not file yet is all there is, unless a      *)
(* credential was stored since.                                             *)
ListingOK ==
  \A c \in Call : pc[c] = "file" =>
    CredsOf(usr[c]) \subseteq Names(got[c]) \/ c \in stale

(* Of two registrations of one account, of which one stored its credential, *)
(* one excludes the other's or took its list before the other's was stored. *)
Told(x, y) ==
  \/ x \in stale \/ y \in stale
  \/ aCred[x] \in Names(listed[y]) \/ aCred[y] \in Names(listed[x])

ListedOK ==
  \A x, y \in Ceremony :
    /\ Registration(x) /\ Registration(y) /\ xKey[x] = xKey[y] /\ x # y
    /\ aCred[x] \in rows
    => Told(x, y)

IInv ==
  /\ TypeOK /\ CallsOK /\ StoreOK /\ NamesOK /\ CeremonyIsOwn
  /\ DevicesOK /\ CounterOK /\ ListingOK /\ ListedOK

(* What a request remembers keeps its type when it returns or moves on.     *)
LEMMA ReturnTypeOK ==
  ASSUME TypeOK, NEW c \in Call, Return(c)
  PROVE  /\ pc' \in [Call -> PC]
         /\ usr' \in [Call -> User \cup {None}]
         /\ key' \in [Call -> Key \cup {None}]
         /\ sent' \in [Call -> Ceremony \cup {None}]
         /\ cer' \in [Call -> Ceremony \cup {None}]
         /\ got' \in [Call -> SUBSET (Cred \X Nat)]
<1>1. pc' \in [Call -> PC]
  BY DEF Return, TypeOK, PC
<1>2. usr' \in [Call -> User \cup {None}]
  BY DEF Return, TypeOK
<1>3. key' \in [Call -> Key \cup {None}]
  BY DEF Return, TypeOK
<1>4. sent' \in [Call -> Ceremony \cup {None}]
  BY DEF Return, TypeOK
<1>5. cer' \in [Call -> Ceremony \cup {None}]
  BY DEF Return, TypeOK
<1>6. got' \in [Call -> SUBSET (Cred \X Nat)]
  BY DEF Return, TypeOK
<1> QED
  BY <1>1, <1>2, <1>3, <1>4, <1>5, <1>6

LEMMA GotoTypeOK ==
  ASSUME TypeOK, NEW c \in Call, NEW l \in PC, Goto(c, l)
  PROVE  /\ pc' \in [Call -> PC]
         /\ UNCHANGED <<usr, key, sent, cer, got>>
  BY DEF Goto, TypeOK

(* Every step keeps every variable in its set.                              *)
LEMMA TypeOKStep == TypeOK /\ CallsOK /\ [Next]_vars => TypeOK'
<1> SUFFICES ASSUME TypeOK, CallsOK, [Next]_vars PROVE TypeOK'
  OBVIOUS
<1> USE NoneAssumption, KeysAssumption, NoneFresh, HistoryAssumption
        DEF accountVars, credVars, cerVars, answerVars, sessVars, callVars
<1>1. ASSUME NEW c \in Call, NEW u \in User, StartRegister(c, u) PROVE TypeOK'
  BY <1>1 DEF StartRegister, Enter, Known, Exists, TypeOK, AccountsTypeOK, PC, Key
<1>2. ASSUME NEW c \in Call, NEW u \in User, StartLogin(c, u) PROVE TypeOK'
  BY <1>2 DEF StartLogin, Enter, Exists, TypeOK, AccountsTypeOK, PC, Key
<1>3. ASSUME NEW c \in Call, NEW u \in User, NEW x \in Ceremony, FinishRegister(c, u, x) PROVE TypeOK'
  BY <1>3 DEF FinishRegister, Enter, Known, Exists, TypeOK, AccountsTypeOK, PC, Key
<1>4. ASSUME NEW c \in Call, NEW u \in User, NEW x \in Ceremony, FinishLogin(c, u, x) PROVE TypeOK'
  BY <1>4 DEF FinishLogin, Enter, Exists, TypeOK, AccountsTypeOK, PC, Key
<1>5. ASSUME NEW c \in Call, ListCredentials(c) PROVE TypeOK'
  <2> DEFINE L == {<<k, ctr[k]>> : k \in CredsOf(usr[c])}
  <2>1. L \subseteq Cred \X Nat
    BY DEF CredsOf, TypeOK
  <2>2. got' = [got EXCEPT ![c] = L] \/ Return(c)
    BY <1>5 DEF ListCredentials
  <2>3. got' \in [Call -> SUBSET (Cred \X Nat)]
    BY <2>1, <2>2 DEF Return, TypeOK
  <2> HIDE DEF L
  <2>4. pc' \in [Call -> PC]
    BY <1>5 DEF ListCredentials, Return, TypeOK, PC
  <2>6. usr' \in [Call -> User \cup {None}] /\ key' \in [Call -> Key \cup {None}]
    BY <1>5 DEF ListCredentials, Return, TypeOK
  <2>5. /\ sent' \in [Call -> Ceremony \cup {None}]
        /\ cer' \in [Call -> Ceremony \cup {None}]
    BY <1>5 DEF ListCredentials, Return, TypeOK
  <2> QED
    BY <1>5, <2>3, <2>4, <2>5, <2>6 DEF ListCredentials, TypeOK, AccountsTypeOK
<1>6. ASSUME NEW c \in Call, FileCeremony(c) PROVE TypeOK'
  BY <1>6 DEF FileCeremony, Return, TypeOK, AccountsTypeOK, PC, CallsOK, Key
<1>7. ASSUME NEW c \in Call, Take(c) PROVE TypeOK'
  <2>1. CASE store[key[c]] # None
    <3>1. key[c] \in Key
      BY <1>7 DEF Take, CallsOK, TypeOK, Key
    <3>2. store[key[c]] \in Ceremony
      BY <2>1, <3>1 DEF TypeOK
    <3>3. pc' \in [Call -> PC] /\ cer' \in [Call -> Ceremony \cup {None}]
      BY <1>7, <2>1, <3>2 DEF Take, TypeOK, PC
    <3> QED
      BY <1>7, <2>1, <3>3 DEF Take, TypeOK, AccountsTypeOK
  <2>2. CASE store[key[c]] = None
    BY <1>7, <2>2, ReturnTypeOK DEF Take, TypeOK, AccountsTypeOK
  <2> QED
    BY <2>1, <2>2
<1>8. ASSUME NEW c \in Call, Drop(c) PROVE TypeOK'
  <2>1. store' \in [Key -> Ceremony \cup {None}]
    BY <1>8 DEF Drop, TypeOK
  <2>2. CASE Return(c)
    BY <1>8, <2>1, <2>2, ReturnTypeOK DEF Drop, TypeOK, AccountsTypeOK
  <2>3. ASSUME NEW l \in {"insert", "reload"}, Goto(c, l) PROVE TypeOK'
    <3>1. l \in PC
      BY DEF PC
    <3> QED
      BY <1>8, <2>1, <2>3, <3>1, GotoTypeOK DEF Drop, TypeOK, AccountsTypeOK
  <2> QED
    BY <1>8, <2>2, <2>3 DEF Drop
<1>9. ASSUME NEW c \in Call, Insert(c) PROVE TypeOK'
  <2>1. aCred[cer[c]] \in Cred
    BY <1>9 DEF Insert, TypeOK, CallsOK, AfterTake, AfterPass
  <2>2. usr[c] \in User
    BY <1>9 DEF Insert, CallsOK
  <2>3. stale' \subseteq Call \cup Ceremony
    BY <1>9 DEF Insert, TypeOK, Begun
  <2> QED
    BY <1>9, <2>1, <2>2, <2>3 DEF Insert, Return, TypeOK, AccountsTypeOK, PC
<1>10. ASSUME NEW c \in Call, Reload(c) PROVE TypeOK'
  BY <1>10 DEF Reload, Goto, TypeOK, AccountsTypeOK, PC
<1>11. ASSUME NEW c \in Call, Update(c) PROVE TypeOK'
  BY <1>11 DEF Update, Goto, TypeOK, AccountsTypeOK, PC, CallsOK, AfterTake, AfterPass
<1>12. ASSUME NEW c \in Call, Issue(c) PROVE TypeOK'
  BY <1>12 DEF Issue, Return, Exists, TypeOK, AccountsTypeOK, PC, CallsOK, AfterTake, AfterPass
<1>13. ASSUME NEW c \in Call, Abort(c) PROVE TypeOK'
  BY <1>13 DEF Abort, Return, TypeOK, AccountsTypeOK, PC
<1>14. ASSUME NEW u \in User, NEW k \in Cred, RemoveCredential(u, k) PROVE TypeOK'
  BY <1>14 DEF RemoveCredential, TypeOK, AccountsTypeOK, PC
<1>15. ASSUME NEW x \in Ceremony, Age(x) PROVE TypeOK'
  BY <1>15 DEF Age, TypeOK, AccountsTypeOK, PC
<1>16. ASSUME NEW n \in Key, Evict(n) PROVE TypeOK'
  BY <1>16 DEF Evict, TypeOK, AccountsTypeOK, PC
<1>17. ASSUME NEW x \in Ceremony, NEW k \in Cred, Sign(x, k) PROVE TypeOK'
  BY <1>17 DEF Sign, TypeOK, AccountsTypeOK, PC, Key
<1>18. ASSUME NEW x \in Ceremony, NEW k \in Cred, NEW d \in Device, Create(x, k, d) PROVE TypeOK'
  BY <1>18 DEF Create, TypeOK, AccountsTypeOK, PC
<1>19. ASSUME Account PROVE TypeOK'
  BY <1>19 DEF Account, Register, Rename, Remove, TypeOK, AccountsTypeOK, PC
<1>20. ASSUME Restart PROVE TypeOK'
  BY <1>20 DEF Restart, TypeOK, AccountsTypeOK, PC
<1>21. CASE UNCHANGED vars
  BY <1>21 DEF vars, TypeOK, AccountsTypeOK, PC
<1> QED
  BY <1>1, <1>2, <1>3, <1>4, <1>5, <1>6, <1>7, <1>8, <1>9, <1>10, <1>11, <1>12, <1>13, <1>14, <1>15, <1>16, <1>17, <1>18, <1>19, <1>20, <1>21 DEF Next, Request, Advance, Authenticator

(* A ceremony is taken under the key it was filed under, and only its own   *)
(* answer passes.                                                           *)
LEMMA CallsOKStep == CallsOK /\ TypeOK /\ StoreOK /\ [Next]_vars => CallsOK'
<1> SUFFICES ASSUME CallsOK, TypeOK, StoreOK, [Next]_vars PROVE CallsOK'
  OBVIOUS
<1> USE NoneAssumption, KeysAssumption, NoneFresh, HistoryAssumption
        DEF accountVars, credVars, cerVars, answerVars, sessVars, callVars
<1>1. ASSUME NEW c \in Call, NEW u \in User, StartRegister(c, u) PROVE CallsOK'
  BY <1>1 DEF StartRegister, Enter, Known, Exists, CallsOK, TypeOK, AccountsTypeOK, PC, AfterTake, AfterPass
<1>2. ASSUME NEW c \in Call, NEW u \in User, StartLogin(c, u) PROVE CallsOK'
  BY <1>2 DEF StartLogin, Enter, Exists, CallsOK, TypeOK, AccountsTypeOK, PC, AfterTake, AfterPass, Key
<1>3. ASSUME NEW c \in Call, NEW u \in User, NEW x \in Ceremony, FinishRegister(c, u, x) PROVE CallsOK'
  BY <1>3 DEF FinishRegister, Enter, Known, Exists, CallsOK, TypeOK, AccountsTypeOK, PC, AfterTake, AfterPass
<1>4. ASSUME NEW c \in Call, NEW u \in User, NEW x \in Ceremony, FinishLogin(c, u, x) PROVE CallsOK'
  BY <1>4 DEF FinishLogin, Enter, Exists, CallsOK, TypeOK, AccountsTypeOK, PC, AfterTake, AfterPass, Key
<1>5. ASSUME NEW c \in Call, ListCredentials(c) PROVE CallsOK'
  BY <1>5 DEF ListCredentials, Return, CallsOK, TypeOK, AccountsTypeOK, PC, AfterTake, AfterPass
<1>6. ASSUME NEW c \in Call, FileCeremony(c) PROVE CallsOK'
  BY <1>6 DEF FileCeremony, Return, CallsOK, TypeOK, AccountsTypeOK, PC, AfterTake, AfterPass, Key
<1>7. ASSUME NEW c \in Call, Take(c) PROVE CallsOK'
  BY <1>7 DEF Take, Return, CallsOK, TypeOK, AccountsTypeOK, PC, AfterTake, AfterPass, StoreOK, Key
<1>8. ASSUME NEW c \in Call, Drop(c) PROVE CallsOK'
  BY <1>8 DEF Drop, Return, Goto, CallsOK, TypeOK, AccountsTypeOK, PC, AfterTake, AfterPass, Passes, Key
<1>9. ASSUME NEW c \in Call, Insert(c) PROVE CallsOK'
  BY <1>9 DEF Insert, Return, Exists, CallsOK, TypeOK, AccountsTypeOK, PC, AfterTake, AfterPass, Key
<1>10. ASSUME NEW c \in Call, Reload(c) PROVE CallsOK'
  BY <1>10 DEF Reload, Goto, CallsOK, TypeOK, AccountsTypeOK, PC, AfterTake, AfterPass
<1>11. ASSUME NEW c \in Call, Update(c) PROVE CallsOK'
  BY <1>11 DEF Update, Goto, CallsOK, TypeOK, AccountsTypeOK, PC, AfterTake, AfterPass
<1>12. ASSUME NEW c \in Call, Issue(c) PROVE CallsOK'
  BY <1>12 DEF Issue, Return, Exists, CallsOK, TypeOK, AccountsTypeOK, PC, AfterTake, AfterPass
<1>13. ASSUME NEW c \in Call, Abort(c) PROVE CallsOK'
  BY <1>13 DEF Abort, Return, CallsOK, TypeOK, AccountsTypeOK, PC, AfterTake, AfterPass
<1>14. ASSUME NEW x \in Ceremony, NEW k \in Cred, Sign(x, k) PROVE CallsOK'
  BY <1>14 DEF Sign, CallsOK, TypeOK, AccountsTypeOK, PC, AfterTake, AfterPass
<1>15. ASSUME NEW x \in Ceremony, NEW k \in Cred, NEW d \in Device, Create(x, k, d) PROVE CallsOK'
  BY <1>15 DEF Create, CallsOK, TypeOK, AccountsTypeOK, PC, AfterTake, AfterPass
<1>16. ASSUME Restart PROVE CallsOK'
  BY <1>16 DEF Restart, CallsOK, TypeOK, AccountsTypeOK, PC, AfterTake, AfterPass
<1>17. ASSUME NEW u \in User, NEW k \in Cred, RemoveCredential(u, k) PROVE CallsOK'
  BY <1>17 DEF RemoveCredential, CallsOK, TypeOK, AccountsTypeOK, PC, AfterTake, AfterPass
<1>18. ASSUME NEW x \in Ceremony, Age(x) PROVE CallsOK'
  BY <1>18 DEF Age, CallsOK, TypeOK, AccountsTypeOK, PC, AfterTake, AfterPass
<1>19. ASSUME NEW n \in Key, Evict(n) PROVE CallsOK'
  BY <1>19 DEF Evict, CallsOK, TypeOK, AccountsTypeOK, PC, AfterTake, AfterPass
<1>20. ASSUME Account PROVE CallsOK'
  BY <1>20 DEF Account, Register, Rename, Remove, CallsOK, TypeOK, AccountsTypeOK, PC, AfterTake, AfterPass
<1>21. CASE UNCHANGED vars
  BY <1>21 DEF vars, CallsOK, TypeOK, AccountsTypeOK, PC, AfterTake, AfterPass
<1> QED
  BY <1>1, <1>2, <1>3, <1>4, <1>5, <1>6, <1>7, <1>8, <1>9, <1>10, <1>11, <1>12, <1>13, <1>14, <1>15, <1>16, <1>17, <1>18, <1>19, <1>20, <1>21 DEF Next, Request, Advance, Authenticator

(* What is filed is new, and filed under the key it was begun for.          *)
LEMMA StoreOKStep == StoreOK /\ TypeOK /\ CallsOK /\ [Next]_vars => StoreOK'
<1> SUFFICES ASSUME StoreOK, TypeOK, CallsOK, [Next]_vars PROVE StoreOK'
  OBVIOUS
<1> USE NoneAssumption, KeysAssumption, NoneFresh, HistoryAssumption
        DEF accountVars, credVars, cerVars, answerVars, sessVars, callVars
<1>1. ASSUME NEW c \in Call, FileCeremony(c) PROVE StoreOK'
  BY <1>1 DEF FileCeremony, Return, StoreOK, TypeOK, Registration, Key, CallsOK
<1>2. ASSUME NEW c \in Call, Drop(c) PROVE StoreOK'
  BY <1>2 DEF Drop, Return, Goto, StoreOK, TypeOK, Registration, Key
<1>3. ASSUME NEW c \in Call, Insert(c) PROVE StoreOK'
  BY <1>3 DEF Insert, Return, Exists, StoreOK, TypeOK, Registration, Key, Begun
<1>4. ASSUME NEW c \in Call, Reload(c) PROVE StoreOK'
  BY <1>4 DEF Reload, Goto, StoreOK, TypeOK, Registration, Key
<1>5. ASSUME NEW c \in Call, Update(c) PROVE StoreOK'
  BY <1>5 DEF Update, Goto, StoreOK, TypeOK, Registration, Key
<1>6. ASSUME NEW c \in Call, Issue(c) PROVE StoreOK'
  BY <1>6 DEF Issue, Return, Exists, StoreOK, TypeOK, Registration, Key, CallsOK, AfterTake, AfterPass
<1>7. ASSUME NEW c \in Call, Abort(c) PROVE StoreOK'
  BY <1>7 DEF Abort, Return, StoreOK, TypeOK, Registration, Key
<1>8. ASSUME NEW n \in Key, Evict(n) PROVE StoreOK'
  BY <1>8 DEF Evict, StoreOK, TypeOK, Registration, Key
<1>9. ASSUME NEW x \in Ceremony, NEW k \in Cred, Sign(x, k) PROVE StoreOK'
  BY <1>9 DEF Sign, StoreOK, TypeOK, Registration, Key
<1>10. ASSUME NEW x \in Ceremony, NEW k \in Cred, NEW d \in Device, Create(x, k, d) PROVE StoreOK'
  BY <1>10 DEF Create, StoreOK, TypeOK, Registration, Key
<1>11. ASSUME Restart PROVE StoreOK'
  BY <1>11 DEF Restart, StoreOK, TypeOK, Registration, Key
<1>12. ASSUME NEW c \in Call, NEW u \in User, StartRegister(c, u) \/ StartLogin(c, u) PROVE StoreOK'
  BY <1>12 DEF StartRegister, Enter, Known, Exists, StartLogin, StoreOK, TypeOK, Registration, Key
<1>13. ASSUME NEW c \in Call, NEW u \in User, NEW x \in Ceremony, FinishRegister(c, u, x) \/ FinishLogin(c, u, x) PROVE StoreOK'
  BY <1>13 DEF FinishRegister, Enter, Known, Exists, FinishLogin, StoreOK, TypeOK, Registration, Key
<1>14. ASSUME NEW c \in Call, ListCredentials(c) \/ Take(c) PROVE StoreOK'
  BY <1>14 DEF ListCredentials, Return, Take, StoreOK, TypeOK, Registration, Key
<1>15. ASSUME NEW u \in User, NEW k \in Cred, RemoveCredential(u, k) PROVE StoreOK'
  BY <1>15 DEF RemoveCredential, StoreOK, TypeOK, Registration, Key
<1>16. ASSUME NEW x \in Ceremony, Age(x) PROVE StoreOK'
  BY <1>16 DEF Age, StoreOK, TypeOK, Registration, Key
<1>17. ASSUME Account PROVE StoreOK'
  BY <1>17 DEF Account, Register, Rename, Remove, StoreOK, TypeOK, Registration, Key
<1>18. CASE UNCHANGED vars
  BY <1>18 DEF vars, StoreOK, TypeOK, Registration, Key
<1> QED
  BY <1>1, <1>2, <1>3, <1>4, <1>5, <1>6, <1>7, <1>8, <1>9, <1>10, <1>11, <1>12, <1>13, <1>14, <1>15, <1>16, <1>17, <1>18 DEF Next, Request, Advance, Authenticator

(* A name passes to another account only when the one that had it is        *)
(* renamed or deleted.                                                      *)
LEMMA NamesOKStep == NamesOK /\ TypeOK /\ CallsOK /\ StoreOK /\ [Next]_vars => NamesOK'
<1> SUFFICES ASSUME NamesOK, TypeOK, CallsOK, StoreOK, [Next]_vars PROVE NamesOK'
  OBVIOUS
<1> USE NoneAssumption, KeysAssumption, NoneFresh, HistoryAssumption
        DEF accountVars, credVars, cerVars, answerVars, sessVars, callVars
<1>1. ASSUME NEW c \in Call, NEW u \in User, StartRegister(c, u) PROVE NamesOK'
  BY <1>1 DEF StartRegister, Enter, Known, Exists, NamesOK, TypeOK, AccountsTypeOK, AfterTake, PC, Key
<1>2. ASSUME NEW c \in Call, NEW u \in User, StartLogin(c, u) PROVE NamesOK'
  BY <1>2 DEF StartLogin, Enter, Exists, NamesOK, TypeOK, AccountsTypeOK, AfterTake, PC, Key
<1>3. ASSUME NEW c \in Call, NEW u \in User, NEW x \in Ceremony, FinishRegister(c, u, x) PROVE NamesOK'
  BY <1>3 DEF FinishRegister, Enter, Known, Exists, NamesOK, TypeOK, AccountsTypeOK, AfterTake, PC, Key
<1>4. ASSUME NEW c \in Call, NEW u \in User, NEW x \in Ceremony, FinishLogin(c, u, x) PROVE NamesOK'
  BY <1>4 DEF FinishLogin, Enter, Exists, NamesOK, TypeOK, AccountsTypeOK, AfterTake, PC, StoreOK, CallsOK, Key
<1>5. ASSUME NEW c \in Call, ListCredentials(c) PROVE NamesOK'
  <2>1. ASSUME NEW d \in Call, pc'[d] # "idle"
        PROVE  /\ usr'[d] = usr[d] /\ key'[d] = key[d] /\ sent'[d] = sent[d]
               /\ pc[d] = pc'[d] \/ (pc[d] = "list" /\ pc'[d] = "file")
    BY <1>5, <2>1 DEF ListCredentials, Return, TypeOK
  <2>2. UNCHANGED <<name, lost, xKey, xFor>>
    BY <1>5 DEF ListCredentials
  <2> QED
    BY <2>1, <2>2 DEF NamesOK, AfterTake
<1>6. ASSUME NEW c \in Call, FileCeremony(c) PROVE NamesOK'
  BY <1>6 DEF FileCeremony, Return, NamesOK, TypeOK, AccountsTypeOK, AfterTake, PC, CallsOK, StoreOK, Key
<1>7. ASSUME NEW c \in Call, Take(c) PROVE NamesOK'
  BY <1>7 DEF Take, Return, NamesOK, TypeOK, AccountsTypeOK, AfterTake, PC
<1>8. ASSUME NEW c \in Call, Drop(c) PROVE NamesOK'
  BY <1>8 DEF Drop, Return, Goto, NamesOK, TypeOK, AccountsTypeOK, AfterTake, PC
<1>9. ASSUME NEW c \in Call, Insert(c) PROVE NamesOK'
  BY <1>9 DEF Insert, Return, Exists, NamesOK, TypeOK, AccountsTypeOK, AfterTake, PC
<1>10. ASSUME NEW c \in Call, Reload(c) PROVE NamesOK'
  BY <1>10 DEF Reload, Goto, NamesOK, TypeOK, AccountsTypeOK, AfterTake, PC
<1>11. ASSUME NEW c \in Call, Update(c) PROVE NamesOK'
  BY <1>11 DEF Update, Goto, NamesOK, TypeOK, AccountsTypeOK, AfterTake, PC
<1>12. ASSUME NEW c \in Call, Issue(c) PROVE NamesOK'
  BY <1>12 DEF Issue, Return, Exists, NamesOK, TypeOK, AccountsTypeOK, AfterTake, PC
<1>13. ASSUME NEW c \in Call, Abort(c) PROVE NamesOK'
  BY <1>13 DEF Abort, Return, NamesOK, TypeOK, AccountsTypeOK, AfterTake, PC
<1>14. ASSUME Account PROVE NamesOK'
  <2>1. PICK u \in User :
          \/ \E n \in Name : Register(u, n) \/ Rename(u, n)
          \/ Remove(u)
    BY <1>14 DEF Account
  <2>2. /\ lost \subseteq lost'
        /\ \A v \in User : name'[v] = name[v] \/ v \in lost' \/ (name[v] = None /\ v \notin lost)
        /\ UNCHANGED <<pc, usr, key, sent, xKey, xFor>>
    BY <1>14, <2>1 DEF Account, Register, Rename, Remove, TypeOK, AccountsTypeOK
  <2>3. \A v, w \in User : name'[v] = name'[w] /\ name'[v] # None => v = w
    BY <2>1 DEF Register, Rename, Remove, Free, NamesOK, TypeOK, AccountsTypeOK
  <2>4. ASSUME NEW c \in Call, pc[c] \in {"list", "file"}, key[c] \in Name
        PROVE  name'[usr[c]] = key[c] \/ usr[c] \in lost'
    BY <2>2, <2>4 DEF NamesOK, CallsOK
  <2>5. ASSUME NEW x \in Ceremony, xKey[x] \in Name
        PROVE  name'[xFor[x]] = xKey[x] \/ xFor[x] \in lost'
    BY <2>2, <2>5 DEF NamesOK, StoreOK
  <2> QED
    BY <2>2, <2>3, <2>4, <2>5 DEF NamesOK
<1>15. ASSUME Restart PROVE NamesOK'
  BY <1>15 DEF Restart, NamesOK, TypeOK, AccountsTypeOK, AfterTake, PC
<1>16. ASSUME NEW u \in User, NEW k \in Cred, RemoveCredential(u, k) PROVE NamesOK'
  BY <1>16 DEF RemoveCredential, NamesOK, TypeOK, AccountsTypeOK, AfterTake, PC
<1>17. ASSUME NEW x \in Ceremony, Age(x) PROVE NamesOK'
  BY <1>17 DEF Age, NamesOK, TypeOK, AccountsTypeOK, AfterTake, PC
<1>18. ASSUME NEW n \in Key, Evict(n) PROVE NamesOK'
  BY <1>18 DEF Evict, NamesOK, TypeOK, AccountsTypeOK, AfterTake, PC
<1>19. ASSUME NEW x \in Ceremony, NEW k \in Cred, Sign(x, k) PROVE NamesOK'
  BY <1>19 DEF Sign, NamesOK, TypeOK, AccountsTypeOK, AfterTake, PC
<1>20. ASSUME NEW x \in Ceremony, NEW k \in Cred, NEW d \in Device, Create(x, k, d) PROVE NamesOK'
  BY <1>20 DEF Create, NamesOK, TypeOK, AccountsTypeOK, AfterTake, PC
<1>21. CASE UNCHANGED vars
  BY <1>21 DEF vars, NamesOK, TypeOK, AccountsTypeOK, AfterTake, PC
<1> QED
  BY <1>1, <1>2, <1>3, <1>4, <1>5, <1>6, <1>7, <1>8, <1>9, <1>10, <1>11, <1>12, <1>13, <1>14, <1>15, <1>16, <1>17, <1>18, <1>19, <1>20, <1>21 DEF Next, Request, Advance, Authenticator

(* The answer that passed is the one that was sent, so it belongs to the    *)
(* account that was looked up or to a lost one.                             *)
LEMMA OwnStep == CeremonyIsOwn /\ TypeOK /\ CallsOK /\ StoreOK /\ NamesOK /\ [Next]_vars => CeremonyIsOwn'
<1> SUFFICES ASSUME CeremonyIsOwn, TypeOK, CallsOK, StoreOK, NamesOK, [Next]_vars PROVE CeremonyIsOwn'
  OBVIOUS
<1> USE NoneAssumption, KeysAssumption, NoneFresh, HistoryAssumption
        DEF accountVars, credVars, cerVars, answerVars, sessVars, callVars
<1>1. ASSUME NEW c \in Call, FileCeremony(c) PROVE CeremonyIsOwn'
  <2> DEFINE OwnCred(k) == \E x \in Ceremony : aCred[x] = k /\ xKey[x] = cUser[k]
             OwnSess(s) == sUser[s] = xFor[sCer[s]] \/ xFor[sCer[s]] \in lost
  <2>1. PICK x \in Ceremony : /\ xKey[x] = None
                             /\ xKey' = [xKey EXCEPT ![x] = key[c]]
                             /\ xFor' = [xFor EXCEPT ![x] = usr[c]]
    BY <1>1 DEF FileCeremony
  <2>2. UNCHANGED <<rows, cUser, aCred, sCer, sUser, lost>>
    BY <1>1 DEF FileCeremony
  <2>3. ASSUME NEW k \in rows PROVE OwnCred(k)'
    <3>1. PICK y \in Ceremony : aCred[y] = k /\ xKey[y] = cUser[k]
      BY DEF CeremonyIsOwn
    <3>2. y # x
      BY <2>1, <3>1 DEF StoreOK, TypeOK
    <3> QED
      BY <2>1, <2>2, <3>1, <3>2 DEF TypeOK
  <2>4. ASSUME NEW s \in Session, sCer[s] # None PROVE OwnSess(s)'
    <3>1. sCer[s] \in Ceremony /\ OwnSess(s)
      BY <2>4 DEF CeremonyIsOwn, TypeOK
    <3>2. sCer[s] # x
      BY <2>1, <2>4, <3>1 DEF StoreOK
    <3> QED
      BY <2>1, <2>2, <3>1, <3>2 DEF TypeOK
  <2> QED
    BY <2>2, <2>3, <2>4 DEF CeremonyIsOwn
<1>2. ASSUME NEW c \in Call, Insert(c) PROVE CeremonyIsOwn'
  BY <1>2 DEF Insert, Return, Exists, CeremonyIsOwn, TypeOK, AccountsTypeOK, CallsOK, AfterTake, AfterPass, StoreOK, Key
<1>3. ASSUME NEW c \in Call, Issue(c) PROVE CeremonyIsOwn'
  BY <1>3 DEF Issue, Return, Exists, CeremonyIsOwn, TypeOK, AccountsTypeOK, CallsOK, AfterTake, AfterPass, NamesOK, Key
<1>4. ASSUME NEW u \in User, NEW k \in Cred, RemoveCredential(u, k) PROVE CeremonyIsOwn'
  BY <1>4 DEF RemoveCredential, CeremonyIsOwn, TypeOK, AccountsTypeOK
<1>5. ASSUME NEW x \in Ceremony, NEW k \in Cred, Sign(x, k) PROVE CeremonyIsOwn'
  BY <1>5 DEF Sign, CeremonyIsOwn, TypeOK, AccountsTypeOK, StoreOK
<1>6. ASSUME NEW x \in Ceremony, NEW k \in Cred, NEW d \in Device, Create(x, k, d) PROVE CeremonyIsOwn'
  BY <1>6 DEF Create, CeremonyIsOwn, TypeOK, AccountsTypeOK, StoreOK
<1>7. ASSUME Account PROVE CeremonyIsOwn'
  BY <1>7 DEF Account, Register, Rename, Remove, CeremonyIsOwn, TypeOK, AccountsTypeOK
<1>8. ASSUME NEW c \in Call, NEW u \in User, StartRegister(c, u) \/ StartLogin(c, u) PROVE CeremonyIsOwn'
  BY <1>8 DEF StartRegister, Enter, Known, Exists, StartLogin, CeremonyIsOwn, TypeOK, AccountsTypeOK
<1>9. ASSUME NEW c \in Call, NEW u \in User, NEW x \in Ceremony, FinishRegister(c, u, x) \/ FinishLogin(c, u, x) PROVE CeremonyIsOwn'
  BY <1>9 DEF FinishRegister, Enter, Known, Exists, FinishLogin, CeremonyIsOwn, TypeOK, AccountsTypeOK
<1>10. ASSUME NEW c \in Call, ListCredentials(c) \/ Take(c) \/ Drop(c) \/ Reload(c) \/ Update(c) \/ Abort(c) PROVE CeremonyIsOwn'
  BY <1>10 DEF ListCredentials, Return, Take, Drop, Goto, Reload, Update, Abort, CeremonyIsOwn, TypeOK, AccountsTypeOK
<1>11. ASSUME NEW x \in Ceremony, Age(x) PROVE CeremonyIsOwn'
  BY <1>11 DEF Age, CeremonyIsOwn, TypeOK, AccountsTypeOK
<1>12. ASSUME NEW n \in Key, Evict(n) PROVE CeremonyIsOwn'
  BY <1>12 DEF Evict, CeremonyIsOwn, TypeOK, AccountsTypeOK
<1>13. ASSUME Restart PROVE CeremonyIsOwn'
  BY <1>13 DEF Restart, CeremonyIsOwn, TypeOK, AccountsTypeOK
<1>14. CASE UNCHANGED vars
  BY <1>14 DEF vars, CeremonyIsOwn, TypeOK, AccountsTypeOK
<1> QED
  BY <1>1, <1>2, <1>3, <1>4, <1>5, <1>6, <1>7, <1>8, <1>9, <1>10, <1>11, <1>12, <1>13, <1>14 DEF Next, Request, Advance, Authenticator

(* An authenticator makes each credential once and honours the exclude      *)
(* list.                                                                    *)
LEMMA DevicesOKStep == DevicesOK /\ TypeOK /\ CallsOK /\ StoreOK /\ [Next]_vars => DevicesOK'
<1> SUFFICES ASSUME DevicesOK, TypeOK, CallsOK, StoreOK, [Next]_vars PROVE DevicesOK'
  OBVIOUS
<1> USE NoneAssumption, KeysAssumption, NoneFresh, HistoryAssumption
        DEF accountVars, credVars, cerVars, answerVars, sessVars, callVars
<1>1. ASSUME NEW c \in Call, ListCredentials(c) PROVE DevicesOK'
  <2>1. ASSUME NEW d \in Call, NEW k \in Names(got'[d])
        PROVE  device[k] # None
    <3>1. CASE got'[d] = got[d]
      BY <2>1, <3>1 DEF DevicesOK, Names
    <3>2. CASE got'[d] = {}
      BY <2>1, <3>2 DEF Names
    <3>3. CASE got'[d] = {<<j, ctr[j]>> : j \in CredsOf(usr[d])}
      <4>1. k \in CredsOf(usr[d])
        BY <2>1, <3>3 DEF Names
      <4> QED
        BY <4>1 DEF CredsOf, DevicesOK
    <3> QED
      BY <1>1, <3>1, <3>2, <3>3 DEF ListCredentials, Return, TypeOK
  <2>2. UNCHANGED <<rows, listed, device, aCred, xKey>>
    BY <1>1 DEF ListCredentials
  <2> QED
    BY <2>1, <2>2 DEF DevicesOK, Registration, Names
<1>2. ASSUME NEW c \in Call, FileCeremony(c) PROVE DevicesOK'
  BY <1>2 DEF FileCeremony, Return, DevicesOK, TypeOK, Registration, Names, StoreOK
<1>3. ASSUME NEW c \in Call, Take(c) PROVE DevicesOK'
  <2>1. ASSUME NEW d \in Call, NEW k \in Names(got'[d])
        PROVE  device[k] # None
    <3>1. got'[d] = got[d] \/ got'[d] = {}
      BY <1>3 DEF Take, Return, TypeOK
    <3> QED
      BY <2>1, <3>1 DEF DevicesOK, Names
  <2>2. UNCHANGED <<rows, listed, device, aCred, xKey>>
    BY <1>3 DEF Take
  <2> QED
    BY <2>1, <2>2 DEF DevicesOK, Registration, Names
<1>4. ASSUME NEW c \in Call, Drop(c) PROVE DevicesOK'
  <2>1. ASSUME NEW d \in Call, NEW k \in Names(got'[d])
        PROVE  device[k] # None
    <3>1. got'[d] = got[d] \/ got'[d] = {}
      BY <1>4 DEF Drop, Return, Goto, TypeOK
    <3> QED
      BY <2>1, <3>1 DEF DevicesOK, Names
  <2>2. UNCHANGED <<rows, listed, device, aCred, xKey>>
    BY <1>4 DEF Drop
  <2> QED
    BY <2>1, <2>2 DEF DevicesOK, Registration, Names
<1>5. ASSUME NEW c \in Call, Insert(c) PROVE DevicesOK'
  BY <1>5 DEF Insert, Return, Exists, DevicesOK, TypeOK, Registration, Names, CallsOK, AfterTake, AfterPass, Key
<1>6. ASSUME NEW c \in Call, Issue(c) PROVE DevicesOK'
  BY <1>6 DEF Issue, Return, Exists, DevicesOK, TypeOK, Registration, Names
<1>7. ASSUME NEW c \in Call, Abort(c) PROVE DevicesOK'
  BY <1>7 DEF Abort, Return, DevicesOK, TypeOK, Registration, Names
<1>8. ASSUME NEW u \in User, NEW k \in Cred, RemoveCredential(u, k) PROVE DevicesOK'
  BY <1>8 DEF RemoveCredential, DevicesOK, TypeOK, Registration, Names
<1>9. ASSUME NEW x \in Ceremony, NEW k \in Cred, Sign(x, k) PROVE DevicesOK'
  BY <1>9 DEF Sign, DevicesOK, TypeOK, Registration, Names, Key
<1>10. ASSUME NEW x \in Ceremony, NEW k \in Cred, NEW d \in Device, Create(x, k, d) PROVE DevicesOK'
  BY <1>10 DEF Create, DevicesOK, TypeOK, Registration, Names, StoreOK
<1>11. ASSUME Account PROVE DevicesOK'
  BY <1>11 DEF Account, Register, Rename, Remove, DevicesOK, TypeOK, Registration, Names
<1>12. ASSUME Restart PROVE DevicesOK'
  BY <1>12 DEF Restart, DevicesOK, TypeOK, Registration, Names
<1>13. ASSUME NEW c \in Call, NEW u \in User, StartRegister(c, u) \/ StartLogin(c, u) PROVE DevicesOK'
  BY <1>13 DEF StartRegister, Enter, Known, Exists, StartLogin, DevicesOK, TypeOK, Registration, Names
<1>14. ASSUME NEW c \in Call, NEW u \in User, NEW x \in Ceremony, FinishRegister(c, u, x) \/ FinishLogin(c, u, x) PROVE DevicesOK'
  BY <1>14 DEF FinishRegister, Enter, Known, Exists, FinishLogin, DevicesOK, TypeOK, Registration, Names
<1>15. ASSUME NEW c \in Call, Reload(c) \/ Update(c) PROVE DevicesOK'
  BY <1>15 DEF Reload, Goto, Update, DevicesOK, TypeOK, Registration, Names
<1>16. ASSUME NEW x \in Ceremony, Age(x) PROVE DevicesOK'
  BY <1>16 DEF Age, DevicesOK, TypeOK, Registration, Names
<1>17. ASSUME NEW n \in Key, Evict(n) PROVE DevicesOK'
  BY <1>17 DEF Evict, DevicesOK, TypeOK, Registration, Names
<1>18. CASE UNCHANGED vars
  BY <1>18 DEF vars, DevicesOK, TypeOK, Registration, Names
<1> QED
  BY <1>1, <1>2, <1>3, <1>4, <1>5, <1>6, <1>7, <1>8, <1>9, <1>10, <1>11, <1>12, <1>13, <1>14, <1>15, <1>16, <1>17, <1>18 DEF Next, Request, Advance, Authenticator

(* A write of the counter marks the logins that compared it before.         *)
LEMMA CounterOKStep == CounterOK /\ TypeOK /\ CallsOK /\ StoreOK /\ [Next]_vars => CounterOK'
<1> SUFFICES ASSUME CounterOK, TypeOK, CallsOK, StoreOK, [Next]_vars PROVE CounterOK'
  OBVIOUS
<1> USE NoneAssumption, KeysAssumption, NoneFresh, HistoryAssumption
        DEF accountVars, credVars, cerVars, answerVars, sessVars, callVars
<1>1. ASSUME NEW c \in Call, NEW u \in User, StartRegister(c, u) PROVE CounterOK'
  BY <1>1 DEF StartRegister, Enter, Known, Exists, CounterOK, TypeOK, PC
<1>2. ASSUME NEW c \in Call, NEW u \in User, StartLogin(c, u) PROVE CounterOK'
  BY <1>2 DEF StartLogin, Enter, Exists, CounterOK, TypeOK, PC
<1>3. ASSUME NEW c \in Call, NEW u \in User, NEW x \in Ceremony, FinishRegister(c, u, x) PROVE CounterOK'
  BY <1>3 DEF FinishRegister, Enter, Known, Exists, CounterOK, TypeOK, PC
<1>4. ASSUME NEW c \in Call, NEW u \in User, NEW x \in Ceremony, FinishLogin(c, u, x) PROVE CounterOK'
  BY <1>4 DEF FinishLogin, Enter, Exists, CounterOK, TypeOK, PC
<1>5. ASSUME NEW c \in Call, ListCredentials(c) PROVE CounterOK'
  BY <1>5 DEF ListCredentials, Return, CounterOK, TypeOK, PC
<1>6. ASSUME NEW c \in Call, FileCeremony(c) PROVE CounterOK'
  BY <1>6 DEF FileCeremony, Return, CounterOK, TypeOK, PC, StoreOK
<1>7. ASSUME NEW c \in Call, Take(c) PROVE CounterOK'
  BY <1>7 DEF Take, Return, CounterOK, TypeOK, PC
<1>8. ASSUME NEW c \in Call, Drop(c) PROVE CounterOK'
  BY <1>8 DEF Drop, Return, Goto, CounterOK, TypeOK, PC
<1>9. ASSUME NEW c \in Call, Insert(c) PROVE CounterOK'
  BY <1>9 DEF Insert, Return, Exists, CounterOK, TypeOK, PC, CallsOK, AfterTake, AfterPass
<1>10. ASSUME NEW c \in Call, Reload(c) PROVE CounterOK'
  BY <1>10 DEF Reload, Goto, CounterOK, TypeOK, PC, CallsOK, AfterTake, AfterPass
<1>11. ASSUME NEW c \in Call, Update(c) PROVE CounterOK'
  BY <1>11 DEF Update, Goto, CounterOK, TypeOK, PC, CallsOK, AfterTake, AfterPass
<1>12. ASSUME NEW c \in Call, Issue(c) PROVE CounterOK'
  BY <1>12 DEF Issue, Return, Exists, CounterOK, TypeOK, PC
<1>13. ASSUME NEW c \in Call, Abort(c) PROVE CounterOK'
  BY <1>13 DEF Abort, Return, CounterOK, TypeOK, PC
<1>14. ASSUME NEW x \in Ceremony, NEW k \in Cred, Sign(x, k) PROVE CounterOK'
  BY <1>14 DEF Sign, CounterOK, TypeOK, PC, CallsOK, AfterTake, AfterPass
<1>15. ASSUME NEW x \in Ceremony, NEW k \in Cred, NEW d \in Device, Create(x, k, d) PROVE CounterOK'
  BY <1>15 DEF Create, CounterOK, TypeOK, PC, CallsOK, AfterTake, AfterPass
<1>16. ASSUME Restart PROVE CounterOK'
  BY <1>16 DEF Restart, CounterOK, TypeOK, PC
<1>17. ASSUME NEW u \in User, NEW k \in Cred, RemoveCredential(u, k) PROVE CounterOK'
  BY <1>17 DEF RemoveCredential, CounterOK, TypeOK, PC
<1>18. ASSUME NEW x \in Ceremony, Age(x) PROVE CounterOK'
  BY <1>18 DEF Age, CounterOK, TypeOK, PC
<1>19. ASSUME NEW n \in Key, Evict(n) PROVE CounterOK'
  BY <1>19 DEF Evict, CounterOK, TypeOK, PC
<1>20. ASSUME Account PROVE CounterOK'
  BY <1>20 DEF Account, Register, Rename, Remove, CounterOK, TypeOK, PC
<1>21. CASE UNCHANGED vars
  BY <1>21 DEF vars, CounterOK, TypeOK, PC
<1> QED
  BY <1>1, <1>2, <1>3, <1>4, <1>5, <1>6, <1>7, <1>8, <1>9, <1>10, <1>11, <1>12, <1>13, <1>14, <1>15, <1>16, <1>17, <1>18, <1>19, <1>20, <1>21 DEF Next, Request, Advance, Authenticator

(* A credential that is stored marks the requests that listed before.       *)
LEMMA ListingOKStep == ListingOK /\ TypeOK /\ CallsOK /\ [Next]_vars => ListingOK'
<1> SUFFICES ASSUME ListingOK, TypeOK, CallsOK, [Next]_vars PROVE ListingOK'
  OBVIOUS
<1> USE NoneAssumption, KeysAssumption, NoneFresh, HistoryAssumption
        DEF accountVars, credVars, cerVars, answerVars, sessVars, callVars
<1>1. ASSUME NEW c \in Call, NEW u \in User, StartRegister(c, u) PROVE ListingOK'
  BY <1>1 DEF StartRegister, Enter, Known, Exists, ListingOK, TypeOK, CredsOf, Names, PC
<1>2. ASSUME NEW c \in Call, NEW u \in User, StartLogin(c, u) PROVE ListingOK'
  BY <1>2 DEF StartLogin, Enter, Exists, ListingOK, TypeOK, CredsOf, Names, PC
<1>3. ASSUME NEW c \in Call, NEW u \in User, NEW x \in Ceremony, FinishRegister(c, u, x) PROVE ListingOK'
  BY <1>3 DEF FinishRegister, Enter, Known, Exists, ListingOK, TypeOK, CredsOf, Names, PC
<1>4. ASSUME NEW c \in Call, NEW u \in User, NEW x \in Ceremony, FinishLogin(c, u, x) PROVE ListingOK'
  BY <1>4 DEF FinishLogin, Enter, Exists, ListingOK, TypeOK, CredsOf, Names, PC
<1>5. ASSUME NEW c \in Call, ListCredentials(c) PROVE ListingOK'
  <2> DEFINE L == {<<k, ctr[k]>> : k \in CredsOf(usr[c])}
  <2>1. CredsOf(usr[c]) \subseteq Names(L)
    <3>1. ASSUME NEW k \in CredsOf(usr[c]) PROVE k \in Names(L)
      <4>1. <<k, ctr[k]>> \in L /\ <<k, ctr[k]>>[1] = k
        OBVIOUS
      <4> QED
        BY <4>1 DEF Names
    <3> QED
      BY <3>1
  <2>2. ASSUME NEW d \in Call, pc'[d] = "file"
        PROVE  CredsOf(usr[d])' \subseteq Names(got[d])' \/ d \in stale'
    <3>1. CASE d = c
      <4>1. got'[c] = L /\ usr' = usr
        BY <1>5, <2>2, <3>1 DEF ListCredentials, Return, TypeOK
      <4>2. UNCHANGED <<rows, cUser>>
        BY <1>5 DEF ListCredentials
      <4> HIDE DEF L
      <4> QED
        BY <2>1, <3>1, <4>1, <4>2 DEF CredsOf, Names
    <3>2. CASE d # c
      BY <1>5, <2>2, <3>2 DEF ListCredentials, Return, ListingOK, TypeOK, CredsOf
    <3> QED
      BY <3>1, <3>2
  <2> QED
    BY <2>2 DEF ListingOK
<1>6. ASSUME NEW c \in Call, FileCeremony(c) PROVE ListingOK'
  BY <1>6 DEF FileCeremony, Return, ListingOK, TypeOK, CredsOf, Names, PC
<1>7. ASSUME NEW c \in Call, Take(c) PROVE ListingOK'
  BY <1>7 DEF Take, Return, ListingOK, TypeOK, CredsOf, Names, PC
<1>8. ASSUME NEW c \in Call, Drop(c) PROVE ListingOK'
  BY <1>8 DEF Drop, Return, Goto, ListingOK, TypeOK, CredsOf, Names, PC
<1>9. ASSUME NEW c \in Call, Insert(c) PROVE ListingOK'
  <2>1. ASSUME NEW d \in Call, pc'[d] = "file"
        PROVE  CredsOf(usr[d])' \subseteq Names(got[d])' \/ d \in stale'
    <3>1. d # c /\ pc[d] = "file" /\ usr'[d] = usr[d] /\ got'[d] = got[d]
      BY <1>9, <2>1 DEF Insert, Return, TypeOK
    <3>2. CASE usr[d] = usr[c]
      BY <1>9, <3>1, <3>2 DEF Insert
    <3>3. CASE usr[d] # usr[c]
      <4>0. aCred[cer[c]] \in Cred
        BY <1>9 DEF Insert, CallsOK, AfterTake, AfterPass, TypeOK
      <4>1. CredsOf(usr[d])' \subseteq CredsOf(usr[d])
        BY <1>9, <3>1, <3>3, <4>0 DEF Insert, CredsOf, TypeOK
      <4>2. d \in stale => d \in stale'
        BY <1>9, <3>1 DEF Insert
      <4> QED
        BY <3>1, <4>1, <4>2 DEF ListingOK, Names
    <3> QED
      BY <3>2, <3>3
  <2> QED
    BY <2>1 DEF ListingOK
<1>10. ASSUME NEW c \in Call, Reload(c) PROVE ListingOK'
  BY <1>10 DEF Reload, Goto, ListingOK, TypeOK, CredsOf, Names, PC
<1>11. ASSUME NEW c \in Call, Update(c) PROVE ListingOK'
  BY <1>11 DEF Update, Goto, ListingOK, TypeOK, CredsOf, Names, PC
<1>12. ASSUME NEW c \in Call, Issue(c) PROVE ListingOK'
  BY <1>12 DEF Issue, Return, Exists, ListingOK, TypeOK, CredsOf, Names, PC
<1>13. ASSUME NEW c \in Call, Abort(c) PROVE ListingOK'
  BY <1>13 DEF Abort, Return, ListingOK, TypeOK, CredsOf, Names, PC
<1>14. ASSUME NEW u \in User, NEW k \in Cred, RemoveCredential(u, k) PROVE ListingOK'
  BY <1>14 DEF RemoveCredential, ListingOK, TypeOK, CredsOf, Names, PC
<1>15. ASSUME Account PROVE ListingOK'
  BY <1>15 DEF Account, Register, Rename, Remove, ListingOK, TypeOK, CredsOf, Names, PC
<1>16. ASSUME Restart PROVE ListingOK'
  BY <1>16 DEF Restart, ListingOK, TypeOK, CredsOf, Names, PC
<1>17. ASSUME NEW x \in Ceremony, Age(x) PROVE ListingOK'
  BY <1>17 DEF Age, ListingOK, TypeOK, CredsOf, Names, PC
<1>18. ASSUME NEW n \in Key, Evict(n) PROVE ListingOK'
  BY <1>18 DEF Evict, ListingOK, TypeOK, CredsOf, Names, PC
<1>19. ASSUME NEW x \in Ceremony, NEW k \in Cred, Sign(x, k) PROVE ListingOK'
  BY <1>19 DEF Sign, ListingOK, TypeOK, CredsOf, Names, PC
<1>20. ASSUME NEW x \in Ceremony, NEW k \in Cred, NEW d \in Device, Create(x, k, d) PROVE ListingOK'
  BY <1>20 DEF Create, ListingOK, TypeOK, CredsOf, Names, PC
<1>21. CASE UNCHANGED vars
  BY <1>21 DEF vars, ListingOK, TypeOK, CredsOf, Names, PC
<1> QED
  BY <1>1, <1>2, <1>3, <1>4, <1>5, <1>6, <1>7, <1>8, <1>9, <1>10, <1>11, <1>12, <1>13, <1>14, <1>15, <1>16, <1>17, <1>18, <1>19, <1>20, <1>21 DEF Next, Request, Advance, Authenticator

(* A stored credential is in every list taken after it, and marks those     *)
(* taken before it.                                                         *)
LEMMA ListedOKStep == ListedOK /\ ListingOK /\ TypeOK /\ CallsOK /\ StoreOK /\ CeremonyIsOwn /\ DevicesOK /\ [Next]_vars => ListedOK'
<1> SUFFICES ASSUME ListedOK, ListingOK, TypeOK, CallsOK, StoreOK, CeremonyIsOwn, DevicesOK, [Next]_vars PROVE ListedOK'
  OBVIOUS
<1> USE NoneAssumption, KeysAssumption, NoneFresh, HistoryAssumption
        DEF accountVars, credVars, cerVars, answerVars, sessVars, callVars
<1>1. ASSUME NEW c \in Call, FileCeremony(c) PROVE ListedOK'
  <2>1. PICK x \in Ceremony :
          /\ xKey[x] = None
          /\ xKey' = [xKey EXCEPT ![x] = key[c]]
          /\ listed' = [listed EXCEPT ![x] = got[c]]
          /\ stale' = IF c \in stale THEN (stale \ {c}) \cup {x} ELSE stale
    BY <1>1 DEF FileCeremony
  <2>2. UNCHANGED <<rows, cUser, aCred>> /\ pc[c] = "file"
    BY <1>1 DEF FileCeremony
  <2>3. aCred[x] = None
    BY <2>1 DEF StoreOK
  <2> SUFFICES ASSUME NEW y \in Ceremony, NEW z \in Ceremony,
                      Registration(y)', Registration(z)', xKey'[y] = xKey'[z], y # z,
                      aCred[y] \in rows
               PROVE  Told(y, z)'
    BY <2>2 DEF ListedOK
  <2>4. y # x
    BY <2>3 DEF TypeOK
  <2>5. CASE z # x
    <3>1. Told(y, z)
      BY <2>1, <2>4, <2>5 DEF ListedOK, Registration, TypeOK
    <3> QED
      BY <2>1, <2>2, <2>4, <2>5, <3>1 DEF Told, TypeOK
  <2>6. CASE z = x
    <3>1. Registration(y) /\ xKey[y] = key[c] /\ key[c] = usr[c]
      BY <2>1, <2>2, <2>4, <2>6 DEF Registration, CallsOK, TypeOK
    <3>2. PICK w \in Ceremony : aCred[w] = aCred[y] /\ xKey[w] = cUser[aCred[y]]
      BY DEF CeremonyIsOwn
    <3>3. Registration(w)
      BY <3>2 DEF Registration, StoreOK, TypeOK
    <3>4. w = y
      BY <3>1, <3>2, <3>3 DEF DevicesOK, TypeOK
    <3>5. aCred[y] \in CredsOf(usr[c])
      BY <3>1, <3>2, <3>4 DEF CredsOf
    <3>6. CASE aCred[y] \in Names(got[c])
      BY <2>1, <2>2, <2>6, <3>6 DEF Told, Names, TypeOK
    <3>7. CASE c \in stale
      BY <2>1, <2>6, <3>7 DEF Told
    <3> QED
      BY <2>2, <3>5, <3>6, <3>7 DEF ListingOK
  <2> QED
    BY <2>5, <2>6
<1>2. ASSUME NEW c \in Call, Insert(c) PROVE ListedOK'
  <2> DEFINE x == cer[c]
  <2>1. /\ x \in Ceremony /\ aCred[x] # None /\ Registration(x)
        /\ xKey[x] = usr[c] /\ pc[c] = "insert"
    BY <1>2 DEF Insert, CallsOK, AfterTake, AfterPass, Registration
  <2>2. /\ rows' = rows \cup {aCred[x]} /\ UNCHANGED <<xKey, listed, aCred>>
        /\ \A y \in Ceremony : y \in stale => y \in stale'
        /\ \A y \in Begun \ {x} : xFor[y] = usr[c] /\ aCred[y] \notin rows => y \in stale'
    BY <1>2 DEF Insert
  <2> SUFFICES ASSUME NEW y \in Ceremony, NEW z \in Ceremony,
                      Registration(y), Registration(z), xKey[y] = xKey[z], y # z,
                      aCred[y] \in rows'
               PROVE  Told(y, z)'
    BY <2>2 DEF ListedOK, Registration
  <2>3. Told(y, z) => Told(y, z)'
    BY <2>2 DEF Told, Names
  <2>4. CASE aCred[y] \in rows
    BY <2>3, <2>4 DEF ListedOK
  <2>5. CASE aCred[y] \notin rows
    <3>1. y = x
      BY <2>1, <2>2, <2>5 DEF DevicesOK
    <3>2. CASE aCred[z] \in rows
      BY <2>3, <3>2 DEF ListedOK, Told
    <3>3. CASE aCred[z] \notin rows
      <4>1. z \in Begun \ {x} /\ xFor[z] = usr[c]
        BY <2>1, <3>1 DEF Begun, Registration, StoreOK
      <4> QED
        BY <2>2, <3>3, <4>1 DEF Told
    <3> QED
      BY <3>2, <3>3
  <2> QED
    BY <2>4, <2>5
<1>3. ASSUME NEW c \in Call, Reload(c) PROVE ListedOK'
  <2>1. /\ UNCHANGED <<rows, xKey, listed, aCred>>
        /\ \A y \in Ceremony : y \in stale => y \in stale'
    BY <1>3 DEF Reload
  <2> QED
    BY <2>1 DEF ListedOK, Told, Registration, Names
<1>4. ASSUME NEW c \in Call, Update(c) PROVE ListedOK'
  <2>1. /\ UNCHANGED <<rows, xKey, listed, aCred>>
        /\ \A y \in Ceremony : y \in stale => y \in stale'
    BY <1>4 DEF Update
  <2> QED
    BY <2>1 DEF ListedOK, Told, Registration, Names
<1>5. ASSUME NEW c \in Call, Abort(c) PROVE ListedOK'
  <2>1. /\ UNCHANGED <<rows, xKey, listed, aCred>>
        /\ \A y \in Ceremony : y \in stale => y \in stale'
    BY <1>5 DEF Abort
  <2> QED
    BY <2>1 DEF ListedOK, Told, Registration, Names
<1>6. ASSUME NEW u \in User, NEW k \in Cred, RemoveCredential(u, k) PROVE ListedOK'
  BY <1>6 DEF RemoveCredential, ListedOK, Told, TypeOK, CredsOf, Registration, Names
<1>7. ASSUME NEW x \in Ceremony, NEW k \in Cred, Sign(x, k) PROVE ListedOK'
  <2>1. /\ aCred' = [aCred EXCEPT ![x] = k] /\ ~Registration(x)
        /\ UNCHANGED <<rows, xKey, listed, stale>>
    BY <1>7 DEF Sign, Registration
  <2>2. ASSUME NEW y \in Ceremony, Registration(y)
        PROVE  aCred'[y] = aCred[y]
    BY <2>1, <2>2 DEF TypeOK
  <2> QED
    BY <2>1, <2>2 DEF ListedOK, Told, Registration, Names
<1>8. ASSUME NEW x \in Ceremony, NEW k \in Cred, NEW d \in Device, Create(x, k, d) PROVE ListedOK'
  <2>1. /\ aCred[x] = None /\ aCred' = [aCred EXCEPT ![x] = k] /\ k \notin rows
        /\ UNCHANGED <<rows, xKey, listed, stale>>
    BY <1>8 DEF Create, DevicesOK
  <2>2. ASSUME NEW y \in Ceremony PROVE None \notin Names(listed[y])
    BY DEF Names, TypeOK
  <2> SUFFICES ASSUME NEW y \in Ceremony, NEW z \in Ceremony,
                      Registration(y), Registration(z), xKey[y] = xKey[z], y # z,
                      aCred'[y] \in rows
               PROVE  Told(y, z)'
    BY <2>1 DEF ListedOK, Registration
  <2>3. y # x /\ aCred[y] \in rows
    BY <2>1 DEF TypeOK
  <2>4. Told(y, z)
    BY <2>3 DEF ListedOK
  <2> QED
    BY <2>1, <2>2, <2>3, <2>4 DEF Told, Names, TypeOK
<1>9. ASSUME Account PROVE ListedOK'
  BY <1>9 DEF Account, Register, Rename, Remove, ListedOK, Told, TypeOK, CredsOf, Registration, Names
<1>10. ASSUME Restart PROVE ListedOK'
  <2>1. /\ UNCHANGED <<rows, xKey, listed, aCred>>
        /\ \A y \in Ceremony : y \in stale => y \in stale'
    BY <1>10 DEF Restart
  <2> QED
    BY <2>1 DEF ListedOK, Told, Registration, Names
<1>11. ASSUME NEW c \in Call, NEW u \in User, StartRegister(c, u) \/ StartLogin(c, u) PROVE ListedOK'
  BY <1>11 DEF StartRegister, Enter, Known, Exists, StartLogin, ListedOK, Told, TypeOK, CredsOf, Registration, Names
<1>12. ASSUME NEW c \in Call, NEW u \in User, NEW x \in Ceremony, FinishRegister(c, u, x) \/ FinishLogin(c, u, x) PROVE ListedOK'
  BY <1>12 DEF FinishRegister, Enter, Known, Exists, FinishLogin, ListedOK, Told, TypeOK, CredsOf, Registration, Names
<1>13. ASSUME NEW c \in Call, ListCredentials(c) \/ Take(c) \/ Drop(c) \/ Issue(c) PROVE ListedOK'
  BY <1>13 DEF ListCredentials, Return, Take, Drop, Goto, Issue, Exists, ListedOK, Told, TypeOK, CredsOf, Registration, Names
<1>14. ASSUME NEW x \in Ceremony, Age(x) PROVE ListedOK'
  BY <1>14 DEF Age, ListedOK, Told, TypeOK, CredsOf, Registration, Names
<1>15. ASSUME NEW n \in Key, Evict(n) PROVE ListedOK'
  BY <1>15 DEF Evict, ListedOK, Told, TypeOK, CredsOf, Registration, Names
<1>16. CASE UNCHANGED vars
  BY <1>16 DEF vars, ListedOK, Told, TypeOK, CredsOf, Registration, Names
<1> QED
  BY <1>1, <1>2, <1>3, <1>4, <1>5, <1>6, <1>7, <1>8, <1>9, <1>10, <1>11, <1>12, <1>13, <1>14, <1>15, <1>16 DEF Next, Request, Advance, Authenticator

LEMMA InitInv == Init => IInv
  BY NoneAssumption, KeysAssumption, NoneFresh, HistoryAssumption
  DEF Init, AccountsInit, IInv, TypeOK, AccountsTypeOK, PC, CallsOK, StoreOK, NamesOK,
      CeremonyIsOwn, DevicesOK, CounterOK, ListingOK, ListedOK, AfterTake, AfterPass, Registration,
      Names, CredsOf, Key

LEMMA StepInv == IInv /\ [Next]_vars => IInv'
  BY TypeOKStep, CallsOKStep, StoreOKStep, NamesOKStep, OwnStep, DevicesOKStep,
     CounterOKStep, ListingOKStep, ListedOKStep DEF IInv

(* The inductive invariant holds in every reachable state.                  *)
THEOREM Invariance == Spec => []IInv
<1>1. Init => IInv
  BY InitInv
<1>2. IInv /\ [Next]_vars => IInv'
  BY StepInv
<1> QED
  BY <1>1, <1>2, PTL DEF Spec

(* The variables keep their types.                                          *)
THEOREM TypeCorrectness == Spec => []TypeOK
<1>1. IInv => TypeOK
  BY DEF IInv
<1> QED
  BY <1>1, Invariance, PTL

(* A passkey belongs to the account that registered it, and a login is for  *)
(* the account whose passkey signed, unless that account was renamed or     *)
(* deleted.                                                                 *)
THEOREM CeremoniesAreOwn == Spec => []CeremonyIsOwn
<1>1. IInv => CeremonyIsOwn
  BY DEF IInv
<1> QED
  BY <1>1, Invariance, PTL

-----------------------------------------------------------------------------
(* An authenticator is registered twice for an account only by a            *)
(* registration whose list was out of date.                                 *)
THEOREM DevicesRegisterOnce == Spec => []OneCredentialPerDevice
<1>1. ASSUME IInv, NEW j \in rows, NEW k \in rows,
             cUser[j] = cUser[k], device[j] = device[k], j # k
      PROVE  \E x \in stale \cap Ceremony : aCred[x] \in {j, k}
  <2>1. PICK x \in Ceremony : aCred[x] = j /\ xKey[x] = cUser[j]
    BY <1>1 DEF IInv, CeremonyIsOwn
  <2>2. PICK y \in Ceremony : aCred[y] = k /\ xKey[y] = cUser[k]
    BY <1>1 DEF IInv, CeremonyIsOwn
  <2>3. Registration(x) /\ Registration(y) /\ x # y /\ aCred[x] # None /\ aCred[y] # None
    BY <1>1, <2>1, <2>2, NoneFresh DEF IInv, StoreOK, TypeOK, Registration
  <2>4. j \notin Names(listed[y]) /\ k \notin Names(listed[x])
    BY <1>1, <2>1, <2>2, <2>3 DEF IInv, DevicesOK
  <2>5. Told(x, y)
    BY <1>1, <2>1, <2>2, <2>3 DEF IInv, ListedOK
  <2> QED
    BY <2>1, <2>2, <2>4, <2>5 DEF Told
<1>2. IInv => OneCredentialPerDevice
  BY <1>1 DEF OneCredentialPerDevice
<1> QED
  BY <1>2, Invariance, PTL

-----------------------------------------------------------------------------
(* A ceremony that left its store does not come back, and no further        *)
(* finish gets it.                                                          *)
LEMMA LeftStays ==
  ASSUME IInv, [Next]_vars, NEW x \in Left
  PROVE  x \in Left'
<1> USE NoneFresh
<1>1. ASSUME NEW c \in Call, FileCeremony(c)
      PROVE  x \in Left'
  <2>1. PICK y \in Ceremony : /\ xKey[y] = None
                             /\ xKey' = [xKey EXCEPT ![y] = key[c]]
                             /\ store' \in {[store EXCEPT ![key[c]] = y], store}
    BY <1>1 DEF FileCeremony
  <2>2. x # y /\ x \in Ceremony /\ xKey[x] # None /\ store[xKey[x]] # x
    BY <2>1 DEF Left, Begun
  <2>3. xKey'[x] = xKey[x] /\ xKey[x] \in Key
    BY <2>1, <2>2 DEF IInv, TypeOK
  <2> QED
    BY <2>1, <2>2, <2>3 DEF IInv, TypeOK, Left, Begun
<1>2. ASSUME xKey' = xKey,
             \A k \in Key : store'[k] = store[k] \/ store'[k] = None
      PROVE  x \in Left'
  BY <1>2 DEF IInv, TypeOK, Left, Begun
<1>3. ASSUME NEW c \in Call, Drop(c) PROVE x \in Left'
  BY <1>2, <1>3 DEF Drop, IInv, TypeOK
<1>4. ASSUME NEW k \in Key, Evict(k) PROVE x \in Left'
  BY <1>2, <1>4 DEF Evict, IInv, TypeOK
<1>5. CASE Restart
  BY <1>2, <1>5 DEF Restart, IInv, TypeOK
<1>6. ASSUME NEW c \in Call,
             \/ Request(c) \/ ListCredentials(c) \/ Take(c) \/ Insert(c) \/ Reload(c)
             \/ Update(c) \/ Issue(c) \/ Abort(c)
      PROVE  x \in Left'
  BY <1>2, <1>6 DEF Request, StartRegister, StartLogin, FinishRegister, FinishLogin,
       ListCredentials, Take, Insert, Reload, Update, Issue, Abort, cerVars
<1>7. CASE \/ \E u \in User, k \in Cred : RemoveCredential(u, k)
           \/ (\E y \in Ceremony : Age(y)) \/ Authenticator \/ Account \/ UNCHANGED vars
  BY <1>2, <1>7 DEF RemoveCredential, Age, Authenticator, Sign, Create, Account, vars, cerVars
<1> QED
  BY <1>1, <1>3, <1>4, <1>5, <1>6, <1>7 DEF Next, Advance

(* The finishes that hold such a ceremony only become fewer.                *)
LEMMA NoNewTaker ==
  ASSUME IInv, [Next]_vars, NEW x \in Left
  PROVE  Takers(x)' \subseteq Takers(x)
<1> USE NoneFresh
<1>0. x \in Ceremony /\ x # None
  BY DEF Left, Begun
<1>1. ASSUME NEW c \in Call, Take(c) PROVE Takers(x)' \subseteq Takers(x)
  <2>1. store[key[c]] # x
    <3>1. key[c] \in Key
      BY <1>1 DEF Take, IInv, CallsOK, Key
    <3> QED
      BY <1>0, <3>1 DEF IInv, StoreOK, Left
  <2> QED
    BY <1>0, <1>1, <2>1 DEF Take, Return, Takers, IInv, TypeOK
<1>2. ASSUME NEW c \in Call,
             \/ Request(c) \/ ListCredentials(c) \/ FileCeremony(c) \/ Drop(c) \/ Insert(c)
             \/ Reload(c) \/ Update(c) \/ Issue(c) \/ Abort(c)
      PROVE  Takers(x)' \subseteq Takers(x)
  <2>1. cer' = cer \/ cer' = [cer EXCEPT ![c] = None]
    BY <1>2 DEF Request, StartRegister, StartLogin, FinishRegister, FinishLogin, Enter,
         ListCredentials, FileCeremony, Drop, Insert, Reload, Update, Issue, Abort,
         Return, Goto
  <2> QED
    BY <1>0, <2>1 DEF Takers, IInv, TypeOK
<1>3. CASE \/ \E u \in User, k \in Cred : RemoveCredential(u, k)
           \/ (\E y \in Ceremony : Age(y)) \/ (\E k \in Key : Evict(k))
           \/ Authenticator \/ Account \/ Restart \/ UNCHANGED vars
  BY <1>0, <1>3 DEF RemoveCredential, Age, Evict, Authenticator, Sign, Create, Account,
       Restart, vars, callVars, Takers
<1> QED
  BY <1>1, <1>2, <1>3 DEF Next, Advance

(* A ceremony that was taken, overwritten, evicted or never filed is spent  *)
(* for good, whatever finishes follow.                                      *)
THEOREM SpentIsForever == Spec => SpentStaysSpent
<1>1. IInv /\ [Next]_vars =>
        [\A x \in Left : x \in Left' /\ Takers(x)' \subseteq Takers(x)]_vars
  BY LeftStays, NoNewTaker
<1> QED
  BY <1>1, Invariance, PTL DEF Spec, SpentStaysSpent

-----------------------------------------------------------------------------
(* The body of CounterForward: only Update writes a counter that is stored,  *)
(* and a smaller one only when the row was written since it was compared.   *)
LEMMA CounterStep ==
  ASSUME IInv, [Next]_vars, NEW k \in rows \cap rows', ctr'[k] < ctr[k]
  PROVE  \E c \in stale \cap Call : pc[c] = "update" /\ aCred[cer[c]] = k
<1>1. k \in Cred /\ ctr[k] \in Nat /\ ~(ctr[k] < ctr[k])
  BY DEF IInv, TypeOK
<1>2. ASSUME NEW c \in Call, Update(c)
      PROVE  c \in stale /\ pc[c] = "update" /\ aCred[cer[c]] = k
  <2>1. ctr' = [ctr EXCEPT ![aCred[cer[c]]] = aCtr[cer[c]]] /\ pc[c] = "update"
    BY <1>1, <1>2 DEF Update
  <2>2. aCred[cer[c]] = k /\ ctr'[k] = aCtr[cer[c]]
    BY <1>1, <2>1 DEF IInv, TypeOK
  <2>3. ~(ctr[k] <= aCtr[cer[c]])
    <3>1. aCtr[cer[c]] \in Nat
      BY <2>1 DEF IInv, TypeOK, CallsOK, AfterTake
    <3> QED
      BY <1>1, <2>2, <3>1
  <2> QED
    BY <2>1, <2>2, <2>3 DEF IInv, CounterOK
<1>3. ASSUME NEW c \in Call, Insert(c) PROVE FALSE
  <2>1. ctr' = [ctr EXCEPT ![aCred[cer[c]]] = 0] /\ aCred[cer[c]] \notin rows
    BY <1>3 DEF Insert
  <2> QED
    BY <1>1, <2>1 DEF IInv, TypeOK
<1>4. ASSUME ctr' = ctr PROVE FALSE
  BY <1>1, <1>4
<1>5. ASSUME NEW c \in Call,
             \/ Request(c) \/ ListCredentials(c) \/ FileCeremony(c) \/ Take(c) \/ Drop(c)
             \/ Reload(c) \/ Issue(c) \/ Abort(c)
      PROVE  FALSE
  BY <1>4, <1>5 DEF Request, StartRegister, StartLogin, FinishRegister, FinishLogin,
       ListCredentials, FileCeremony, Take, Drop, Reload, Issue, Abort, credVars
<1>6. CASE \/ \E u \in User, j \in Cred : RemoveCredential(u, j)
           \/ (\E y \in Ceremony : Age(y)) \/ (\E n \in Key : Evict(n))
           \/ Authenticator \/ Account \/ Restart \/ UNCHANGED vars
  BY <1>4, <1>6 DEF RemoveCredential, Age, Evict, Authenticator, Sign, Create, Account,
       Restart, vars, credVars
<1> QED
  BY <1>2, <1>3, <1>5, <1>6 DEF Next, Advance

(* The counter of a passkey goes back only by a write that another one      *)
(* overtook.                                                                *)
THEOREM CounterGoesForward == Spec => CounterForward
<1>1. IInv /\ [Next]_vars =>
        [\A k \in rows \cap rows' : ctr'[k] < ctr[k] =>
           \E c \in stale \cap Call : pc[c] = "update" /\ aCred[cer[c]] = k]_vars
  BY CounterStep
<1> QED
  BY <1>1, Invariance, PTL DEF Spec, CounterForward

-----------------------------------------------------------------------------
(* The body of RemovedOnlyDrains: lists are read from the rows, and a       *)
(* ceremony gets the list of the start that files it.                       *)
LEMMA DrainStep ==
  ASSUME IInv, [Next]_vars, NEW k \in Cred \ (rows \cup rows')
  PROVE  /\ Starting(k)' \subseteq Starting(k)
         /\ Allowing(k)' \subseteq Allowing(k) \/ Starting(k)' # Starting(k)
<1> DEFINE Drained ==
      /\ Starting(k)' \subseteq Starting(k)
      /\ Allowing(k)' \subseteq Allowing(k) \/ Starting(k)' # Starting(k)
<1>1. ASSUME NEW c \in Call, got' = [got EXCEPT ![c] = {}], listed' = listed PROVE Drained
  BY <1>1 DEF Starting, Allowing, IInv, TypeOK
<1>2. ASSUME UNCHANGED <<got, listed>> PROVE Drained
  BY <1>2 DEF Starting, Allowing
<1>3. ASSUME NEW c \in Call, ListCredentials(c) PROVE Drained
  <2>1. CASE got' = [got EXCEPT ![c] = {<<j, ctr[j]>> : j \in CredsOf(usr[c])}] /\ listed' = listed
    <3>1. ~ \E p \in {<<j, ctr[j]>> : j \in CredsOf(usr[c])} : p[1] = k
      BY DEF CredsOf
    <3>2. Starting(k)' \subseteq Starting(k)
      BY <2>1, <3>1 DEF Starting, IInv, TypeOK
    <3> QED
      BY <2>1, <3>2 DEF Allowing
  <2> QED
    BY <1>1, <1>3, <2>1 DEF ListCredentials, Return, cerVars
<1>4. ASSUME NEW c \in Call, FileCeremony(c) PROVE Drained
  <2>1. PICK x \in Ceremony : listed' = [listed EXCEPT ![x] = got[c]]
    BY <1>4 DEF FileCeremony
  <2>2. got' = [got EXCEPT ![c] = {}]
    BY <1>4 DEF FileCeremony, Return
  <2>3. Starting(k)' = Starting(k) \ {c}
    BY <2>2 DEF Starting, IInv, TypeOK
  <2>4. Allowing(k)' \subseteq Allowing(k) \cup {x}
    BY <2>1 DEF Allowing, IInv, TypeOK
  <2>5. x \in Allowing(k)' => c \in Starting(k)
    BY <2>1 DEF Allowing, Starting, IInv, TypeOK
  <2> QED
    BY <2>3, <2>4, <2>5
<1>5. ASSUME NEW c \in Call, Take(c) \/ Drop(c) PROVE Drained
  BY <1>1, <1>2, <1>5 DEF Take, Drop, Return, Goto, cerVars
<1>6. ASSUME NEW c \in Call, Insert(c) \/ Issue(c) \/ Abort(c) PROVE Drained
  BY <1>1, <1>6 DEF Insert, Issue, Abort, Return, cerVars
<1>7. ASSUME NEW c \in Call, Request(c) \/ Reload(c) \/ Update(c) PROVE Drained
  BY <1>2, <1>7 DEF Request, StartRegister, StartLogin, FinishRegister, FinishLogin, Enter,
       Reload, Update, Goto, cerVars
<1>8. CASE Restart
  BY <1>8 DEF Restart, Starting, Allowing
<1>9. CASE \/ \E u \in User, j \in Cred : RemoveCredential(u, j)
           \/ (\E y \in Ceremony : Age(y)) \/ (\E n \in Key : Evict(n))
           \/ Authenticator \/ Account \/ UNCHANGED vars
  BY <1>2, <1>9 DEF RemoveCredential, Age, Evict, Authenticator, Sign, Create, Account,
       vars, callVars, cerVars
<1> QED
  BY <1>3, <1>4, <1>5, <1>6, <1>7, <1>8, <1>9 DEF Next, Advance

(* A removed passkey logs in only with what was begun before its removal.   *)
THEOREM RemovedPasskeysDrain == Spec => RemovedOnlyDrains
<1>1. IInv /\ [Next]_vars =>
        [\A k \in Cred \ (rows \cup rows') :
           /\ Starting(k)' \subseteq Starting(k)
           /\ Allowing(k)' \subseteq Allowing(k) \/ Starting(k)' # Starting(k)]_vars
  BY DrainStep
<1> QED
  BY <1>1, Invariance, PTL DEF Spec, RemovedOnlyDrains

-----------------------------------------------------------------------------
(* The refinement of OneTimeLogin.  A ceremony that was begun stays begun,  *)
(* and one that left its store stays away from it.                          *)
LEMMA BegunStays == IInv /\ [Next]_vars => Begun \subseteq Begun'
<1> SUFFICES ASSUME IInv, [Next]_vars PROVE Begun \subseteq Begun'
  OBVIOUS
<1>1. ASSUME NEW c \in Call, FileCeremony(c) PROVE Begun \subseteq Begun'
  <2>1. key[c] \in Key /\ key[c] # None
    BY <1>1, NoneAssumption DEF FileCeremony, IInv, CallsOK, TypeOK, Key
  <2>2. PICK x \in Ceremony : xKey[x] = None /\ xKey' = [xKey EXCEPT ![x] = key[c]]
    BY <1>1 DEF FileCeremony
  <2> QED
    BY <2>1, <2>2 DEF Begun, IInv, TypeOK
<1>2. ASSUME xKey' = xKey PROVE Begun \subseteq Begun'
  BY <1>2 DEF Begun
<1>3. ASSUME NEW c \in Call,
             \/ Request(c) \/ ListCredentials(c) \/ Take(c) \/ Drop(c) \/ Insert(c)
             \/ Reload(c) \/ Update(c) \/ Issue(c) \/ Abort(c)
      PROVE  Begun \subseteq Begun'
  BY <1>2, <1>3 DEF Request, StartRegister, StartLogin, FinishRegister, FinishLogin,
       ListCredentials, Take, Drop, Insert, Reload, Update, Issue, Abort, cerVars
<1>4. CASE \/ \E u \in User, k \in Cred : RemoveCredential(u, k)
           \/ (\E y \in Ceremony : Age(y)) \/ (\E n \in Key : Evict(n))
           \/ Authenticator \/ Account \/ Restart \/ UNCHANGED vars
  BY <1>2, <1>4 DEF RemoveCredential, Age, Evict, Authenticator, Sign, Create, Account,
       Restart, vars, cerVars
<1> QED
  BY <1>1, <1>3, <1>4 DEF Next, Advance

LEMMA StateOf ==
  ASSUME NEW x \in Ceremony
  PROVE  /\ LoginState[x] = IF x \notin Begun THEN "unknown"
                            ELSE IF x \notin Left THEN "offered" ELSE "gone"
         /\ LoginState'[x] = IF x \notin Begun' THEN "unknown"
                             ELSE IF x \notin Left' THEN "offered" ELSE "gone"
  BY DEF LoginState

LEMMA Forwards == IInv /\ [Next]_vars => Login!Forward
<1> SUFFICES ASSUME IInv, [Next]_vars PROVE Login!Forward
  OBVIOUS
<1>1. LoginState' \in [Ceremony -> Login!State]
  BY DEF LoginState, Login!State
<1>2. ASSUME NEW x \in Ceremony
      PROVE  \/ LoginState'[x] = LoginState[x]
             \/ LoginState[x] = "unknown"
             \/ LoginState[x] = "offered" /\ LoginState'[x] = "gone"
  <2>1. x \in Begun => x \in Begun'
    BY BegunStays
  <2>2. x \in Left => x \in Left'
    BY LeftStays
  <2> QED
    BY <2>1, <2>2, StateOf
<1> QED
  BY <1>1, <1>2 DEF Login!Forward

Holders == [x \in Ceremony |-> Takers(x)]

(* A step that takes no ceremony and issues no session is a lapse.          *)
Quiet ==
  /\ \A c \in Call : cer'[c] = cer[c] \/ cer'[c] = None
  /\ UNCHANGED sCer

LEMMA QuietLapses == ASSUME IInv, [Next]_vars, Quiet PROVE Login!Lapse
<1>1. Holders' \in [Ceremony -> SUBSET Call]
  BY DEF Holders, Takers
<1>2. \A x \in Ceremony : Holders'[x] \subseteq Holders[x]
  BY NoneFresh DEF Holders, Takers, Quiet
<1> QED
  BY <1>1, <1>2, Forwards DEF Login!Lapse, Quiet, Holders

(* A finish that finds a ceremony takes one that is filed.                  *)
LEMMA TakeStep ==
  ASSUME IInv, [Next]_vars, NEW c \in Call, Take(c), store[key[c]] # None
  PROVE  \E x \in Ceremony : Login!Take(c, x)
<1>1. key[c] \in Key /\ key[c] # None
  BY NoneAssumption DEF Take, IInv, CallsOK, Key
<1> PICK x \in Ceremony : x = store[key[c]]
  BY <1>1 DEF IInv, TypeOK
<1>2. xKey[x] = key[c] /\ store[xKey[x]] = x
  BY <1>1 DEF IInv, StoreOK
<1>3. LoginState[x] = "offered"
  BY <1>1, <1>2, StateOf DEF Begun, Left
<1>4. cer' = [cer EXCEPT ![c] = x] /\ cer[c] = None /\ sCer' = sCer
  BY DEF Take, IInv, CallsOK, AfterTake, sessVars
<1>5. Takers(x)' = Takers(x) \cup {c}
  BY <1>4 DEF Takers, IInv, TypeOK
<1>6. ASSUME NEW y \in Ceremony, y # x PROVE Takers(y)' = Takers(y)
  BY <1>4, <1>6, NoneFresh DEF Takers, IInv, TypeOK
<1>7. Holders' = [y \in Ceremony |-> Takers(y)']
  BY DEF Holders
<1>8. Holders' = [Holders EXCEPT ![x] = @ \cup {c}]
  BY <1>5, <1>6, <1>7 DEF Holders
<1>9. Login!Take(c, x)
  BY <1>3, <1>4, <1>8, Forwards DEF Login!Take, Holders
<1> QED
  BY <1>9

(* A login that issues its session redeems the ceremony it took.            *)
LEMMA RedeemStep ==
  ASSUME IInv, NEW c \in Call, Issue(c)
  PROVE  \E x \in Ceremony, s \in Session : Login!Redeem(c, x, s)
<1> PICK x \in Ceremony : x = cer[c]
  BY DEF Issue, IInv, CallsOK, AfterTake
<1>1. PICK s \in Session : sCer[s] = None /\ sCer' = [sCer EXCEPT ![s] = x]
  BY DEF Issue
<1>3. cer' = [cer EXCEPT ![c] = None] /\ store' = store /\ xKey' = xKey
  BY DEF Issue, Return, cerVars
<1>4. LoginState' = LoginState
  <2>1. Begun' = Begun /\ Left' = Left
    BY <1>3 DEF Begun, Left
  <2> QED
    BY <2>1 DEF LoginState
<1>5. Takers(x)' = Takers(x) \ {c} /\ c \in Takers(x)
  BY <1>3, NoneFresh DEF Takers, IInv, TypeOK
<1>6. ASSUME NEW y \in Ceremony, y # x PROVE Takers(y)' = Takers(y)
  BY <1>3, <1>6, NoneFresh DEF Takers, IInv, TypeOK
<1>7. Holders' = [y \in Ceremony |-> Takers(y)']
  BY DEF Holders
<1>8. Holders' = [Holders EXCEPT ![x] = @ \ {c}] /\ c \in Holders[x]
  BY <1>5, <1>6, <1>7 DEF Holders
<1>9. Login!Redeem(c, x, s)
  BY <1>1, <1>4, <1>8 DEF Login!Redeem, Holders
<1> QED
  BY <1>9

LEMMA RefineInit == Init => Login!Init
<1> SUFFICES ASSUME Init PROVE Login!Init
  OBVIOUS
<1>1. LoginState = [x \in Ceremony |-> "unknown"]
  BY DEF Init, LoginState, Begun
<1>2. [x \in Ceremony |-> Takers(x)] = [x \in Ceremony |-> {}]
  BY NoneFresh DEF Init, Takers
<1>3. sCer = [s \in Session |-> None]
  BY DEF Init
<1> QED
  BY <1>1, <1>2, <1>3 DEF Login!Init

LEMMA RefineStep == IInv /\ [Next]_vars => [Login!Next]_(Login!loginVars)
<1> SUFFICES ASSUME IInv, [Next]_vars PROVE Login!Next
  OBVIOUS
<1>1. Quiet => Login!Next
  BY QuietLapses DEF Login!Next
<1>2. ASSUME NEW c \in Call, Take(c) PROVE Login!Next
  <2>1. CASE store[key[c]] # None
    BY <1>2, <2>1, TakeStep DEF Login!Next
  <2>2. CASE store[key[c]] = None
    <3>1. cer' = [cer EXCEPT ![c] = None] /\ sCer' = sCer
      BY <1>2, <2>2 DEF Take, Return, sessVars
    <3> QED
      BY <1>1, <3>1 DEF Quiet, IInv, TypeOK
  <2> QED
    BY <2>1, <2>2
<1>3. ASSUME NEW c \in Call, Issue(c) PROVE Login!Next
  BY <1>3, RedeemStep DEF Login!Next
<1>4. ASSUME NEW c \in Call,
             \/ Request(c) \/ ListCredentials(c) \/ FileCeremony(c) \/ Drop(c) \/ Insert(c)
             \/ Reload(c) \/ Update(c) \/ Abort(c)
      PROVE  Quiet
  <2>1. cer' = cer \/ cer' = [cer EXCEPT ![c] = None]
    BY <1>4 DEF Request, StartRegister, StartLogin, FinishRegister, FinishLogin, Enter,
         ListCredentials, FileCeremony, Drop, Insert, Reload, Update, Abort, Return, Goto
  <2>2. sCer' = sCer
    BY <1>4 DEF Request, StartRegister, StartLogin, FinishRegister, FinishLogin,
         ListCredentials, FileCeremony, Drop, Insert, Reload, Update, Abort, sessVars
  <2> QED
    BY <2>1, <2>2 DEF Quiet, IInv, TypeOK
<1>5. ASSUME \/ \E u \in User, k \in Cred : RemoveCredential(u, k)
             \/ (\E y \in Ceremony : Age(y)) \/ (\E n \in Key : Evict(n))
             \/ Authenticator \/ Account \/ Restart \/ UNCHANGED vars
      PROVE  Quiet
  BY <1>5 DEF RemoveCredential, Age, Evict, Authenticator, Sign, Create, Account,
       Restart, vars, callVars, sessVars, Quiet
<1> QED
  BY <1>1, <1>2, <1>3, <1>4, <1>5 DEF Next, Advance

(* The passkey login implements OneTimeLogin without exclusive takes: what  *)
(* pays for a session is a ceremony taken while it was filed, by one        *)
(* request per session.                                                     *)
THEOREM ImplementsOneTimeLogin == Spec => KeepsLoginPromise
<1>1. Init => Login!Init
  BY RefineInit
<1>2. IInv /\ [Next]_vars => [Login!Next]_(Login!loginVars)
  BY RefineStep
<1> QED
  BY <1>1, <1>2, Invariance, PTL DEF Spec, KeepsLoginPromise, Login!Spec

-----------------------------------------------------------------------------
(* What OneTimeLoginProofs shows of the contract holds of the passkeys.     *)
Contract == INSTANCE OneTimeLoginProofs
              WITH Item <- Ceremony, state <- LoginState,
                   holders <- [x \in Ceremony |-> Takers(x)],
                   paid <- sCer, Nobody <- None, Exclusive <- FALSE

LEMMA SameContract == Login!Spec => Contract!Spec
<1>1. Login!Init => Contract!Init
  BY DEF Login!Init, Contract!Init
<1>2. [Login!Next]_(Login!loginVars) => [Contract!Next]_(Contract!loginVars)
  BY DEF Login!Next, Contract!Next, Login!loginVars, Contract!loginVars,
         Login!Lapse, Contract!Lapse, Login!Take, Contract!Take,
         Login!Redeem, Contract!Redeem, Login!Forward, Contract!Forward,
         Login!State, Contract!State
<1> QED
  BY <1>1, <1>2, PTL DEF Login!Spec, Contract!Spec

(* A ceremony that left its store pays for no more sessions than finishes   *)
(* had taken it by then.                                                    *)
THEOREM SpentCeremoniesDrain == Spec => Contract!GoneDrains
<1>1. Contract!Spec => Contract!GoneDrains
  BY Contract!GoneItemsDrain
<1>2. Login!Spec => Contract!Spec
  BY SameContract
<1> QED
  BY <1>1, <1>2, ImplementsOneTimeLogin, PTL DEF KeepsLoginPromise
=============================================================================
