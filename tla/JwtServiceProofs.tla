--------------------------- MODULE JwtServiceProofs ---------------------------
(***************************************************************************)
(* Theorems of JwtService for every set of users, tokens and calls.        *)
(***************************************************************************)
EXTENDS JwtService, FiniteSetTheorems, WellFoundedInduction, TLAPS

(* A refresh past its checks works for the owner of a token that was once   *)
(* committed; only a call at its commit holds a generated token, its own.   *)
CallsOK ==
  /\ \A c \in Call : pc[c] \in AcceptedPC =>
       usr[c] \in User /\ tok[c] \in minted /\ owner[tok[c]] = usr[c]
  /\ \A c \in Call : pc[c] \in RefreshPC => tok[c] \in Token
  /\ \A c \in Call : pc[c] \in {"scan", "apply", "lock", "cascade"} => usr[c] \in User
  /\ \A c \in Call : pc[c] = "commit" => new[c] \in Token \ minted
  /\ \A c \in Call : pc[c] # "commit" => new[c] = NoToken
  /\ \A c, d \in Call : new[c] = new[d] /\ new[c] # NoToken => c = d

(* A call past its DELETE holds the row it deleted, if there was one; a     *)
(* statement on many rows those it has passed.  They are rows of the table, *)
(* and no two calls hold the same.                                          *)
LocksOK ==
  /\ \A c \in Call : held[c] \subseteq rows
  /\ \A c \in Call : pc[c] \in {"insert", "commit"} => held[c] = {tok[c]} \cap rows
  /\ \A c \in Call :
       pc[c] \notin {"insert", "commit", "apply", "cascade"} => held[c] = {}
  /\ \A c, d \in Call : c # d => held[c] \cap held[d] = {}

(* A statement on many rows is at one of those it has left, and has passed  *)
(* or will visit rows of its user alone; the cascade of a deletion every    *)
(* one of them.                                                             *)
SweepsOK ==
  /\ \A c \in Call : pc[c] \in {"apply", "cascade"} =>
       /\ tok[c] \in RowAt(snap[c])
       /\ \A t \in snap[c] \cup held[c] : t \in minted /\ owner[t] = usr[c]
  /\ \A c \in Call :
       pc[c] = "cascade" => OwnedBy(usr[c]) \subseteq snap[c] \cup held[c]

RowsOK ==
  /\ rows \subseteq minted
  /\ revoked \subseteq minted /\ expired \subseteq minted

(* From INSERT to commit the user's row stays: the key-share lock excludes  *)
(* the user's deletion.                                                     *)
UsersOK ==
  /\ NoOrphanToken
  /\ \A c \in Call : pc[c] = "commit" => usr[c] \in users
  /\ \A c, d \in Call : pc[c] = "commit" /\ pc[d] = "cascade" => usr[c] # usr[d]

(* No mint for its user overlapped a quiet revoke-all, so it has passed or  *)
(* will visit every row of the user.                                        *)
QuietOK ==
  \A c \in quiet :
    /\ pc[c] = "apply"
    /\ \A d \in Call : pc[d] \in AcceptedPC => usr[d] # usr[c]
    /\ OwnedBy(usr[c]) \subseteq snap[c] \cup held[c]

IInv == TypeOK /\ CallsOK /\ LocksOK /\ SweepsOK /\ RowsOK /\ UsersOK /\ QuietOK

(* Every step keeps every variable in its set.                              *)
LEMMA TypeOKStep == TypeOK /\ CallsOK /\ [Next]_vars => TypeOK'
<1> SUFFICES ASSUME TypeOK, CallsOK, [Next]_vars PROVE TypeOK'
  OBVIOUS
<1> USE DEF tableVars, callVars, Goto, Return, StartScan, RowAt, Overlapped
<1>1. ASSUME NEW c \in Call, NEW t \in Token, RefreshBegin(c, t) PROVE TypeOK'
  BY <1>1 DEF RefreshBegin, TypeOK, PC, RefreshPC
<1>2. ASSUME NEW c \in Call, NEW t \in Token, LogoutBegin(c, t) PROVE TypeOK'
  BY <1>2 DEF LogoutBegin, TypeOK, PC, RefreshPC
<1>3. ASSUME NEW c \in Call, NEW u \in User, RevokeAllBegin(c, u) PROVE TypeOK'
  BY <1>3 DEF RevokeAllBegin, TypeOK, PC, RefreshPC
<1>4. ASSUME NEW c \in Call, NEW u \in User, RemoveUserBegin(c, u) PROVE TypeOK'
  BY <1>4 DEF RemoveUserBegin, TypeOK, PC, RefreshPC
<1>5. ASSUME NEW c \in Call, RefreshSelect(c) PROVE TypeOK'
  BY <1>5 DEF RefreshSelect, TypeOK, PC, RefreshPC, Live
<1>6. ASSUME NEW c \in Call, RefreshRetrieve(c) PROVE TypeOK'
  BY <1>6 DEF RefreshRetrieve, TypeOK, PC, RefreshPC
<1>7. ASSUME NEW c \in Call, RefreshDelete(c) PROVE TypeOK'
  BY <1>7 DEF RefreshDelete, TypeOK, PC, RefreshPC
<1>8. ASSUME NEW c \in Call, RefreshInsert(c) PROVE TypeOK'
  BY <1>8 DEF RefreshInsert, TypeOK, PC, RefreshPC, Unused
<1>9. ASSUME NEW c \in Call, RefreshCommit(c) PROVE TypeOK'
  BY <1>9 DEF RefreshCommit, TypeOK, PC, RefreshPC, CallsOK
<1>10. ASSUME NEW c \in Call, Logout(c) PROVE TypeOK'
  BY <1>10 DEF Logout, TypeOK, PC, RefreshPC
<1>11. ASSUME NEW c \in Call, RevokeAllScan(c) PROVE TypeOK'
  BY <1>11 DEF RevokeAllScan, TypeOK, PC, RefreshPC, OwnedBy
<1>12. ASSUME NEW c \in Call, RevokeAllApply(c) PROVE TypeOK'
  BY <1>12 DEF RevokeAllApply, TypeOK, PC, RefreshPC
<1>13. ASSUME NEW c \in Call, RemoveUserLock(c) PROVE TypeOK'
  <2>1. snap' \in [Call -> SUBSET Token] /\ tok' \in [Call -> Token \cup {NoToken}]
    BY <1>13 DEF RemoveUserLock, TypeOK, OwnedBy
  <2>2. pc' \in [Call -> PC] /\ usr' \in [Call -> User \cup {NoUser}]
    BY <1>13 DEF RemoveUserLock, TypeOK, PC
  <2>3. new' \in [Call -> Token \cup {NoToken}] /\ held' \in [Call -> SUBSET Token]
    BY <1>13 DEF RemoveUserLock, TypeOK
  <2> QED
    BY <1>13, <2>1, <2>2, <2>3 DEF RemoveUserLock, TypeOK
<1>14. ASSUME NEW c \in Call, RemoveUserCascade(c) PROVE TypeOK'
  BY <1>14 DEF RemoveUserCascade, TypeOK, PC, RefreshPC, OwnedBy
<1>15. ASSUME NEW c \in Call, Abort(c) PROVE TypeOK'
  BY <1>15 DEF Abort, TypeOK, PC, RefreshPC
<1>16. ASSUME NEW u \in User, IssueTokenPair(u) PROVE TypeOK'
  BY <1>16 DEF IssueTokenPair, TypeOK, PC, RefreshPC, Unused
<1>17. ASSUME NEW t \in Token, Expire(t) PROVE TypeOK'
  BY <1>17 DEF Expire, TypeOK, PC, RefreshPC
<1>18. CASE UNCHANGED vars
  BY <1>18 DEF vars, TypeOK, PC, RefreshPC
<1>19. ASSUME NEW c \in Call, LockNextRow(c) PROVE TypeOK'
  BY <1>19 DEF LockNextRow, TypeOK, PC, RefreshPC
<1> QED
  BY <1>1, <1>2, <1>3, <1>4, <1>5, <1>6, <1>7, <1>8, <1>9, <1>10, <1>11, <1>12, <1>13, <1>14, <1>15, <1>16, <1>17, <1>18, <1>19
  DEF Next, Request, Advance

(* A refresh passes its checks only with a committed token, and a token is   *)
(* drawn only if no call holds it.                                           *)
LEMMA CallsOKStep == CallsOK /\ TypeOK /\ RowsOK /\ UsersOK /\ [Next]_vars => CallsOK'
<1> SUFFICES ASSUME CallsOK, TypeOK, RowsOK, UsersOK, [Next]_vars PROVE CallsOK'
  OBVIOUS
<1> USE NoTokenAssumption, NoUserAssumption DEF tableVars, callVars, Goto, Return, StartScan, RowAt, Overlapped
<1>1. ASSUME NEW c \in Call, NEW t \in Token, RefreshBegin(c, t) PROVE CallsOK'
  BY <1>1 DEF RefreshBegin, CallsOK, TypeOK, AcceptedPC, RefreshPC, PC
<1>2. ASSUME NEW c \in Call, NEW t \in Token, LogoutBegin(c, t) PROVE CallsOK'
  BY <1>2 DEF LogoutBegin, CallsOK, TypeOK, AcceptedPC, RefreshPC, PC
<1>3. ASSUME NEW c \in Call, NEW u \in User, RevokeAllBegin(c, u) PROVE CallsOK'
  BY <1>3 DEF RevokeAllBegin, CallsOK, TypeOK, AcceptedPC, RefreshPC, PC
<1>4. ASSUME NEW c \in Call, NEW u \in User, RemoveUserBegin(c, u) PROVE CallsOK'
  BY <1>4 DEF RemoveUserBegin, CallsOK, TypeOK, AcceptedPC, RefreshPC, PC
<1>5. ASSUME NEW c \in Call, RefreshSelect(c) PROVE CallsOK'
  BY <1>5 DEF RefreshSelect, CallsOK, TypeOK, AcceptedPC, RefreshPC, PC, Live, RowsOK, UsersOK, NoOrphanToken
<1>6. ASSUME NEW c \in Call, RefreshRetrieve(c) PROVE CallsOK'
  BY <1>6 DEF RefreshRetrieve, CallsOK, TypeOK, AcceptedPC, RefreshPC, PC
<1>7. ASSUME NEW c \in Call, RefreshDelete(c) PROVE CallsOK'
  BY <1>7 DEF RefreshDelete, CallsOK, TypeOK, AcceptedPC, RefreshPC, PC
<1>8. ASSUME NEW c \in Call, RefreshInsert(c) PROVE CallsOK'
  BY <1>8 DEF RefreshInsert, CallsOK, TypeOK, AcceptedPC, RefreshPC, PC, Unused
<1>9. ASSUME NEW c \in Call, RefreshCommit(c) PROVE CallsOK'
  BY <1>9 DEF RefreshCommit, CallsOK, TypeOK, AcceptedPC, RefreshPC, PC
<1>10. ASSUME NEW c \in Call, Logout(c) PROVE CallsOK'
  BY <1>10 DEF Logout, CallsOK, TypeOK, AcceptedPC, RefreshPC, PC
<1>11. ASSUME NEW c \in Call, RevokeAllScan(c) PROVE CallsOK'
  BY <1>11 DEF RevokeAllScan, CallsOK, TypeOK, AcceptedPC, RefreshPC, PC
<1>12. ASSUME NEW c \in Call, RevokeAllApply(c) PROVE CallsOK'
  BY <1>12 DEF RevokeAllApply, CallsOK, TypeOK, AcceptedPC, RefreshPC, PC
<1>13. ASSUME NEW c \in Call, RemoveUserLock(c) PROVE CallsOK'
  BY <1>13 DEF RemoveUserLock, CallsOK, TypeOK, AcceptedPC, RefreshPC, PC
<1>14. ASSUME NEW c \in Call, RemoveUserCascade(c) PROVE CallsOK'
  BY <1>14 DEF RemoveUserCascade, CallsOK, TypeOK, AcceptedPC, RefreshPC, PC
<1>15. ASSUME NEW c \in Call, Abort(c) PROVE CallsOK'
  BY <1>15 DEF Abort, CallsOK, TypeOK, AcceptedPC, RefreshPC, PC
<1>16. ASSUME NEW u \in User, IssueTokenPair(u) PROVE CallsOK'
  BY <1>16 DEF IssueTokenPair, CallsOK, TypeOK, AcceptedPC, RefreshPC, PC, Unused
<1>17. ASSUME NEW t \in Token, Expire(t) PROVE CallsOK'
  BY <1>17 DEF Expire, CallsOK, TypeOK, AcceptedPC, RefreshPC, PC
<1>18. CASE UNCHANGED vars
  BY <1>18 DEF vars, CallsOK, TypeOK, AcceptedPC, RefreshPC, PC
<1>19. ASSUME NEW c \in Call, LockNextRow(c) PROVE CallsOK'
  BY <1>19 DEF LockNextRow, CallsOK, TypeOK, AcceptedPC, RefreshPC, PC
<1> QED
  BY <1>1, <1>2, <1>3, <1>4, <1>5, <1>6, <1>7, <1>8, <1>9, <1>10, <1>11, <1>12, <1>13, <1>14, <1>15, <1>16, <1>17, <1>18, <1>19
  DEF Next, Request, Advance

(* A row some call holds is deleted by no other call, so it is there until   *)
(* that call ends; a row that is gone does not come back.                    *)
LEMMA LocksOKStep == LocksOK /\ TypeOK /\ CallsOK /\ RowsOK /\ [Next]_vars => LocksOK'
<1> SUFFICES ASSUME LocksOK, TypeOK, CallsOK, RowsOK, [Next]_vars PROVE LocksOK'
  OBVIOUS
<1> USE DEF tableVars, callVars, Goto, Return, StartScan, RowAt, Overlapped
<1>1. ASSUME NEW c \in Call, NEW t \in Token, RefreshBegin(c, t) PROVE LocksOK'
  BY <1>1 DEF RefreshBegin, LocksOK, TypeOK
<1>2. ASSUME NEW c \in Call, NEW t \in Token, LogoutBegin(c, t) PROVE LocksOK'
  BY <1>2 DEF LogoutBegin, LocksOK, TypeOK
<1>3. ASSUME NEW c \in Call, NEW u \in User, RevokeAllBegin(c, u) PROVE LocksOK'
  BY <1>3 DEF RevokeAllBegin, LocksOK, TypeOK
<1>4. ASSUME NEW c \in Call, NEW u \in User, RemoveUserBegin(c, u) PROVE LocksOK'
  BY <1>4 DEF RemoveUserBegin, LocksOK, TypeOK
<1>5. ASSUME NEW c \in Call, RefreshSelect(c) PROVE LocksOK'
  BY <1>5 DEF RefreshSelect, LocksOK, TypeOK
<1>6. ASSUME NEW c \in Call, RefreshRetrieve(c) PROVE LocksOK'
  BY <1>6 DEF RefreshRetrieve, LocksOK, TypeOK
<1>7. ASSUME NEW c \in Call, RefreshDelete(c) PROVE LocksOK'
  BY <1>7 DEF RefreshDelete, LocksOK, TypeOK, RowFree
<1>8. ASSUME NEW c \in Call, RefreshInsert(c) PROVE LocksOK'
  BY <1>8 DEF RefreshInsert, LocksOK, TypeOK, Unused
<1>9. ASSUME NEW c \in Call, RefreshCommit(c) PROVE LocksOK'
  BY <1>9 DEF RefreshCommit, LocksOK, TypeOK, CallsOK, RowsOK, AcceptedPC, RefreshPC
<1>10. ASSUME NEW c \in Call, Logout(c) PROVE LocksOK'
  BY <1>10 DEF Logout, LocksOK, TypeOK
<1>11. ASSUME NEW c \in Call, RevokeAllScan(c) PROVE LocksOK'
  BY <1>11 DEF RevokeAllScan, LocksOK, TypeOK
<1>12. ASSUME NEW c \in Call, RevokeAllApply(c) PROVE LocksOK'
  BY <1>12 DEF RevokeAllApply, LocksOK, TypeOK
<1>13. ASSUME NEW c \in Call, RemoveUserLock(c) PROVE LocksOK'
  BY <1>13 DEF RemoveUserLock, LocksOK, TypeOK
<1>14. ASSUME NEW c \in Call, RemoveUserCascade(c) PROVE LocksOK'
  BY <1>14 DEF RemoveUserCascade, LocksOK, TypeOK, RowFree, OwnedBy
<1>15. ASSUME NEW c \in Call, Abort(c) PROVE LocksOK'
  BY <1>15 DEF Abort, LocksOK, TypeOK
<1>16. ASSUME NEW u \in User, IssueTokenPair(u) PROVE LocksOK'
  BY <1>16 DEF IssueTokenPair, LocksOK, TypeOK, CallsOK, RowsOK, AcceptedPC, RefreshPC, Unused
<1>17. ASSUME NEW t \in Token, Expire(t) PROVE LocksOK'
  BY <1>17 DEF Expire, LocksOK, TypeOK
<1>18. CASE UNCHANGED vars
  BY <1>18 DEF vars, LocksOK, TypeOK
<1>19. ASSUME NEW c \in Call, LockNextRow(c) PROVE LocksOK'
  <2>1. /\ pc' = pc /\ rows' = rows /\ pc[c] \in {"apply", "cascade"}
        /\ \A d \in Call \ {c} : tok'[d] = tok[d] /\ held'[d] = held[d]
        /\ held'[c] = held[c] \cup ({tok[c]} \cap rows)
    BY <1>19 DEF LockNextRow, TypeOK
  <2>2. \A d \in Call \ {c} : tok[c] \notin held[d]
    BY <1>19 DEF LockNextRow, RowFree
  <2>3. \A d \in Call : held'[d] \subseteq rows'
    BY <2>1 DEF LocksOK
  <2>4. \A d, e \in Call : d # e => held'[d] \cap held'[e] = {}
    BY <2>1, <2>2 DEF LocksOK
  <2>5. /\ \A d \in Call : pc'[d] \in {"insert", "commit"} =>
             held'[d] = {tok'[d]} \cap rows'
        /\ \A d \in Call : pc'[d] \notin {"insert", "commit", "apply", "cascade"} =>
             held'[d] = {}
    BY <2>1 DEF LocksOK
  <2> QED
    BY <2>3, <2>4, <2>5 DEF LocksOK
<1> QED
  BY <1>1, <1>2, <1>3, <1>4, <1>5, <1>6, <1>7, <1>8, <1>9, <1>10, <1>11, <1>12, <1>13, <1>14, <1>15, <1>16, <1>17, <1>18, <1>19
  DEF Next, Request, Advance

(* A statement on many rows that starts will visit all rows of its user.     *)
LEMMA StartsSweep ==
  ASSUME SweepsOK, RowsOK, NEW c \in Call, held[c] = {},
         snap'[c] = OwnedBy(usr[c]), tok'[c] \in RowAt(snap'[c]),
         pc'[c] \in {"apply", "cascade"},
         UNCHANGED <<rows, owner, minted, usr, held>>,
         \A d \in Call \ {c} : pc'[d] = pc[d] /\ tok'[d] = tok[d] /\ snap'[d] = snap[d]
  PROVE  SweepsOK'
<1>1. ASSUME NEW d \in Call, pc'[d] \in {"apply", "cascade"}
      PROVE  tok'[d] \in RowAt(snap'[d])
  BY <1>1 DEF SweepsOK
<1>2. ASSUME NEW d \in Call, pc'[d] \in {"apply", "cascade"},
             NEW t \in snap'[d] \cup held'[d]
      PROVE  t \in minted' /\ owner'[t] = usr'[d]
  <2>1. CASE d = c
    BY <1>2, <2>1 DEF OwnedBy, RowsOK
  <2>2. CASE d # c
    BY <1>2, <2>2 DEF SweepsOK
  <2> QED
    BY <2>1, <2>2
<1>3. ASSUME NEW d \in Call, pc'[d] = "cascade"
      PROVE  OwnedBy(usr[d])' \subseteq snap'[d] \cup held'[d]
  <2>1. CASE d = c
    BY <2>1 DEF OwnedBy
  <2>2. CASE d # c
    BY <1>3, <2>2 DEF SweepsOK, OwnedBy
  <2> QED
    BY <2>1, <2>2
<1>4. \A d \in Call : RowAt(snap[d])' = RowAt(snap'[d])
  BY DEF RowAt
<1> QED
  BY <1>1, <1>2, <1>3, <1>4 DEF SweepsOK

(* The rows of a user only become fewer while a deletion has the user's row, *)
(* and a row never changes hands.                                            *)
LEMMA SweepsOKStep ==
  SweepsOK /\ TypeOK /\ CallsOK /\ LocksOK /\ RowsOK /\ UsersOK /\ [Next]_vars => SweepsOK'
<1> SUFFICES ASSUME SweepsOK, TypeOK, CallsOK, LocksOK, RowsOK, UsersOK, [Next]_vars
             PROVE  SweepsOK'
  OBVIOUS
<1> USE DEF tableVars, callVars, Goto, Return, StartScan, RowAt
<1>1. ASSUME NEW c \in Call, NEW t \in Token, RefreshBegin(c, t) PROVE SweepsOK'
  BY <1>1 DEF RefreshBegin, SweepsOK, TypeOK, OwnedBy
<1>2. ASSUME NEW c \in Call, NEW t \in Token, LogoutBegin(c, t) PROVE SweepsOK'
  BY <1>2 DEF LogoutBegin, SweepsOK, TypeOK, OwnedBy
<1>3. ASSUME NEW c \in Call, NEW u \in User, RevokeAllBegin(c, u) PROVE SweepsOK'
  BY <1>3 DEF RevokeAllBegin, SweepsOK, TypeOK, OwnedBy
<1>4. ASSUME NEW c \in Call, NEW u \in User, RemoveUserBegin(c, u) PROVE SweepsOK'
  BY <1>4 DEF RemoveUserBegin, SweepsOK, TypeOK, OwnedBy
<1>5. ASSUME NEW c \in Call, RefreshSelect(c) PROVE SweepsOK'
  BY <1>5 DEF RefreshSelect, SweepsOK, TypeOK, OwnedBy, RowsOK
<1>6. ASSUME NEW c \in Call, RefreshRetrieve(c) PROVE SweepsOK'
  BY <1>6 DEF RefreshRetrieve, SweepsOK, TypeOK, OwnedBy, RowsOK
<1>7. ASSUME NEW c \in Call, RefreshDelete(c) PROVE SweepsOK'
  BY <1>7 DEF RefreshDelete, SweepsOK, TypeOK, OwnedBy, RowsOK
<1>8. ASSUME NEW c \in Call, RefreshInsert(c) PROVE SweepsOK'
  BY <1>8 DEF RefreshInsert, SweepsOK, TypeOK, OwnedBy, RowsOK
<1>9. ASSUME NEW c \in Call, RefreshCommit(c) PROVE SweepsOK'
  BY <1>9 DEF RefreshCommit, SweepsOK, TypeOK, OwnedBy, RowsOK, CallsOK, LocksOK, UsersOK, RefreshPC, AcceptedPC
<1>10. ASSUME NEW c \in Call, Logout(c) PROVE SweepsOK'
  BY <1>10 DEF Logout, SweepsOK, TypeOK, OwnedBy, RowsOK
<1>11. ASSUME NEW c \in Call, RevokeAllScan(c) PROVE SweepsOK'
  <2>1. held[c] = {} /\ snap'[c] = OwnedBy(usr[c]) /\ tok'[c] \in RowAt(snap'[c])
    BY <1>11 DEF RevokeAllScan, TypeOK, LocksOK
  <2>2. /\ pc'[c] = "apply" /\ UNCHANGED <<rows, owner, minted, usr, held>>
        /\ \A d \in Call \ {c} : pc'[d] = pc[d] /\ tok'[d] = tok[d] /\ snap'[d] = snap[d]
    BY <1>11 DEF RevokeAllScan, TypeOK
  <2> QED
    BY <2>1, <2>2, StartsSweep
<1>12. ASSUME NEW c \in Call, RevokeAllApply(c) PROVE SweepsOK'
  BY <1>12 DEF RevokeAllApply, SweepsOK, TypeOK, OwnedBy, RowsOK
<1>13. ASSUME NEW c \in Call, RemoveUserLock(c) PROVE SweepsOK'
  <2>1. CASE usr[c] \in users
    <3>1. held[c] = {} /\ snap'[c] = OwnedBy(usr[c]) /\ tok'[c] \in RowAt(snap'[c])
      BY <1>13, <2>1 DEF RemoveUserLock, TypeOK, LocksOK
    <3>2. /\ pc'[c] = "cascade" /\ UNCHANGED <<rows, owner, minted, usr, held>>
          /\ \A d \in Call \ {c} : /\ pc'[d] = pc[d] /\ tok'[d] = tok[d]
                                   /\ snap'[d] = snap[d]
      BY <1>13, <2>1 DEF RemoveUserLock, TypeOK
    <3> QED
      BY <3>1, <3>2, StartsSweep
  <2>2. CASE usr[c] \notin users
    BY <1>13, <2>2 DEF RemoveUserLock, SweepsOK, TypeOK, OwnedBy
  <2> QED
    BY <2>1, <2>2
<1>14. ASSUME NEW c \in Call, RemoveUserCascade(c) PROVE SweepsOK'
  BY <1>14 DEF RemoveUserCascade, SweepsOK, TypeOK, OwnedBy, RowsOK
<1>15. ASSUME NEW c \in Call, Abort(c) PROVE SweepsOK'
  BY <1>15 DEF Abort, SweepsOK, TypeOK, OwnedBy, RowsOK
<1>16. ASSUME NEW u \in User, IssueTokenPair(u) PROVE SweepsOK'
  BY <1>16 DEF IssueTokenPair, SweepsOK, TypeOK, OwnedBy, RowsOK, Unused, UserRowFree
<1>17. ASSUME NEW t \in Token, Expire(t) PROVE SweepsOK'
  BY <1>17 DEF Expire, SweepsOK, TypeOK, OwnedBy
<1>18. CASE UNCHANGED vars
  BY <1>18 DEF vars, SweepsOK, TypeOK, OwnedBy
<1>19. ASSUME NEW c \in Call, LockNextRow(c) PROVE SweepsOK'
  BY <1>19 DEF LockNextRow, SweepsOK, TypeOK, OwnedBy
<1> QED
  BY <1>1, <1>2, <1>3, <1>4, <1>5, <1>6, <1>7, <1>8, <1>9, <1>10, <1>11, <1>12, <1>13, <1>14, <1>15, <1>16, <1>17, <1>18, <1>19
  DEF Next, Request, Advance

(* Rows come from commits, and only rows are revoked or expire.              *)
LEMMA RowsOKStep == RowsOK /\ TypeOK /\ CallsOK /\ LocksOK /\ [Next]_vars => RowsOK'
<1> SUFFICES ASSUME RowsOK, TypeOK, CallsOK, LocksOK, [Next]_vars PROVE RowsOK'
  OBVIOUS
<1> USE DEF tableVars, callVars, Goto, Return, StartScan, RowAt, Overlapped
<1>1. ASSUME NEW c \in Call, NEW t \in Token, RefreshBegin(c, t) PROVE RowsOK'
  BY <1>1 DEF RefreshBegin, RowsOK, TypeOK
<1>2. ASSUME NEW c \in Call, NEW t \in Token, LogoutBegin(c, t) PROVE RowsOK'
  BY <1>2 DEF LogoutBegin, RowsOK, TypeOK
<1>3. ASSUME NEW c \in Call, NEW u \in User, RevokeAllBegin(c, u) PROVE RowsOK'
  BY <1>3 DEF RevokeAllBegin, RowsOK, TypeOK
<1>4. ASSUME NEW c \in Call, NEW u \in User, RemoveUserBegin(c, u) PROVE RowsOK'
  BY <1>4 DEF RemoveUserBegin, RowsOK, TypeOK
<1>5. ASSUME NEW c \in Call, RefreshSelect(c) PROVE RowsOK'
  BY <1>5 DEF RefreshSelect, RowsOK, TypeOK
<1>6. ASSUME NEW c \in Call, RefreshRetrieve(c) PROVE RowsOK'
  BY <1>6 DEF RefreshRetrieve, RowsOK, TypeOK
<1>7. ASSUME NEW c \in Call, RefreshDelete(c) PROVE RowsOK'
  BY <1>7 DEF RefreshDelete, RowsOK, TypeOK
<1>8. ASSUME NEW c \in Call, RefreshInsert(c) PROVE RowsOK'
  BY <1>8 DEF RefreshInsert, RowsOK, TypeOK
<1>9. ASSUME NEW c \in Call, RefreshCommit(c) PROVE RowsOK'
  BY <1>9 DEF RefreshCommit, RowsOK, TypeOK
<1>10. ASSUME NEW c \in Call, Logout(c) PROVE RowsOK'
  BY <1>10 DEF Logout, RowsOK, TypeOK
<1>11. ASSUME NEW c \in Call, RevokeAllScan(c) PROVE RowsOK'
  BY <1>11 DEF RevokeAllScan, RowsOK, TypeOK
<1>12. ASSUME NEW c \in Call, RevokeAllApply(c) PROVE RowsOK'
  BY <1>12 DEF RevokeAllApply, RowsOK, TypeOK, LocksOK
<1>13. ASSUME NEW c \in Call, RemoveUserLock(c) PROVE RowsOK'
  BY <1>13 DEF RemoveUserLock, RowsOK, TypeOK
<1>14. ASSUME NEW c \in Call, RemoveUserCascade(c) PROVE RowsOK'
  BY <1>14 DEF RemoveUserCascade, RowsOK, TypeOK, OwnedBy
<1>15. ASSUME NEW c \in Call, Abort(c) PROVE RowsOK'
  BY <1>15 DEF Abort, RowsOK, TypeOK
<1>16. ASSUME NEW u \in User, IssueTokenPair(u) PROVE RowsOK'
  BY <1>16 DEF IssueTokenPair, RowsOK, TypeOK, Unused
<1>17. ASSUME NEW t \in Token, Expire(t) PROVE RowsOK'
  BY <1>17 DEF Expire, RowsOK, TypeOK
<1>18. CASE UNCHANGED vars
  BY <1>18 DEF vars, RowsOK, TypeOK
<1>19. ASSUME NEW c \in Call, LockNextRow(c) PROVE RowsOK'
  BY <1>19 DEF LockNextRow, RowsOK, TypeOK
<1> QED
  BY <1>1, <1>2, <1>3, <1>4, <1>5, <1>6, <1>7, <1>8, <1>9, <1>10, <1>11, <1>12, <1>13, <1>14, <1>15, <1>16, <1>17, <1>18, <1>19
  DEF Next, Request, Advance

(* A user goes only with its tokens, and only when no refresh between INSERT *)
(* and commit holds the user's row.                                          *)
LEMMA UsersOKStep ==
  UsersOK /\ TypeOK /\ CallsOK /\ SweepsOK /\ RowsOK /\ [Next]_vars => UsersOK'
<1> SUFFICES ASSUME UsersOK, TypeOK, CallsOK, SweepsOK, RowsOK, [Next]_vars PROVE UsersOK'
  OBVIOUS
<1> USE DEF tableVars, callVars, Goto, Return, StartScan, RowAt, Overlapped
<1>1. ASSUME NEW c \in Call, NEW t \in Token, RefreshBegin(c, t) PROVE UsersOK'
  BY <1>1 DEF RefreshBegin, UsersOK, NoOrphanToken, TypeOK
<1>2. ASSUME NEW c \in Call, NEW t \in Token, LogoutBegin(c, t) PROVE UsersOK'
  BY <1>2 DEF LogoutBegin, UsersOK, NoOrphanToken, TypeOK
<1>3. ASSUME NEW c \in Call, NEW u \in User, RevokeAllBegin(c, u) PROVE UsersOK'
  BY <1>3 DEF RevokeAllBegin, UsersOK, NoOrphanToken, TypeOK
<1>4. ASSUME NEW c \in Call, NEW u \in User, RemoveUserBegin(c, u) PROVE UsersOK'
  BY <1>4 DEF RemoveUserBegin, UsersOK, NoOrphanToken, TypeOK
<1>5. ASSUME NEW c \in Call, RefreshSelect(c) PROVE UsersOK'
  BY <1>5 DEF RefreshSelect, UsersOK, NoOrphanToken, TypeOK
<1>6. ASSUME NEW c \in Call, RefreshRetrieve(c) PROVE UsersOK'
  BY <1>6 DEF RefreshRetrieve, UsersOK, NoOrphanToken, TypeOK
<1>7. ASSUME NEW c \in Call, RefreshDelete(c) PROVE UsersOK'
  BY <1>7 DEF RefreshDelete, UsersOK, NoOrphanToken, TypeOK
<1>8. ASSUME NEW c \in Call, RefreshInsert(c) PROVE UsersOK'
  BY <1>8 DEF RefreshInsert, UsersOK, NoOrphanToken, TypeOK, UserRowFree, Unused
<1>9. ASSUME NEW c \in Call, RefreshCommit(c) PROVE UsersOK'
  BY <1>9 DEF RefreshCommit, UsersOK, NoOrphanToken, TypeOK, CallsOK, RowsOK
<1>10. ASSUME NEW c \in Call, Logout(c) PROVE UsersOK'
  BY <1>10 DEF Logout, UsersOK, NoOrphanToken, TypeOK
<1>11. ASSUME NEW c \in Call, RevokeAllScan(c) PROVE UsersOK'
  BY <1>11 DEF RevokeAllScan, UsersOK, NoOrphanToken, TypeOK
<1>12. ASSUME NEW c \in Call, RevokeAllApply(c) PROVE UsersOK'
  BY <1>12 DEF RevokeAllApply, UsersOK, NoOrphanToken, TypeOK
<1>13. ASSUME NEW c \in Call, RemoveUserLock(c) PROVE UsersOK'
  BY <1>13 DEF RemoveUserLock, UsersOK, NoOrphanToken, TypeOK, KeyShareFree
<1>14. ASSUME NEW c \in Call, RemoveUserCascade(c) PROVE UsersOK'
  BY <1>14 DEF RemoveUserCascade, UsersOK, NoOrphanToken, TypeOK, SweepsOK, OwnedBy
<1>15. ASSUME NEW c \in Call, Abort(c) PROVE UsersOK'
  BY <1>15 DEF Abort, UsersOK, NoOrphanToken, TypeOK
<1>16. ASSUME NEW u \in User, IssueTokenPair(u) PROVE UsersOK'
  BY <1>16 DEF IssueTokenPair, UsersOK, NoOrphanToken, TypeOK, RowsOK, Unused
<1>17. ASSUME NEW t \in Token, Expire(t) PROVE UsersOK'
  BY <1>17 DEF Expire, UsersOK, NoOrphanToken, TypeOK
<1>18. CASE UNCHANGED vars
  BY <1>18 DEF vars, UsersOK, NoOrphanToken, TypeOK
<1>19. ASSUME NEW c \in Call, LockNextRow(c) PROVE UsersOK'
  BY <1>19 DEF LockNextRow, UsersOK, NoOrphanToken, TypeOK
<1> QED
  BY <1>1, <1>2, <1>3, <1>4, <1>5, <1>6, <1>7, <1>8, <1>9, <1>10, <1>11, <1>12, <1>13, <1>14, <1>15, <1>16, <1>17, <1>18, <1>19
  DEF Next, Request, Advance

(* A mint for the user, or a refresh accepted for it, ends the quiet.        *)
LEMMA QuietOKStep == QuietOK /\ TypeOK /\ CallsOK /\ RowsOK /\ [Next]_vars => QuietOK'
<1> SUFFICES ASSUME QuietOK, TypeOK, CallsOK, RowsOK, [Next]_vars PROVE QuietOK'
  OBVIOUS
<1> USE DEF tableVars, callVars, Goto, Return, StartScan, RowAt, Overlapped
<1>1. ASSUME NEW c \in Call, NEW t \in Token, RefreshBegin(c, t) PROVE QuietOK'
  BY <1>1 DEF RefreshBegin, QuietOK, TypeOK, AcceptedPC, RefreshPC, OwnedBy
<1>2. ASSUME NEW c \in Call, NEW t \in Token, LogoutBegin(c, t) PROVE QuietOK'
  BY <1>2 DEF LogoutBegin, QuietOK, TypeOK, AcceptedPC, RefreshPC, OwnedBy
<1>3. ASSUME NEW c \in Call, NEW u \in User, RevokeAllBegin(c, u) PROVE QuietOK'
  BY <1>3 DEF RevokeAllBegin, QuietOK, TypeOK, AcceptedPC, RefreshPC, OwnedBy
<1>4. ASSUME NEW c \in Call, NEW u \in User, RemoveUserBegin(c, u) PROVE QuietOK'
  BY <1>4 DEF RemoveUserBegin, QuietOK, TypeOK, AcceptedPC, RefreshPC, OwnedBy
<1>5. ASSUME NEW c \in Call, RefreshSelect(c) PROVE QuietOK'
  BY <1>5 DEF RefreshSelect, QuietOK, TypeOK, AcceptedPC, RefreshPC, OwnedBy
<1>6. ASSUME NEW c \in Call, RefreshRetrieve(c) PROVE QuietOK'
  BY <1>6 DEF RefreshRetrieve, QuietOK, TypeOK, AcceptedPC, RefreshPC, OwnedBy
<1>7. ASSUME NEW c \in Call, RefreshDelete(c) PROVE QuietOK'
  BY <1>7 DEF RefreshDelete, QuietOK, TypeOK, AcceptedPC, RefreshPC, OwnedBy
<1>8. ASSUME NEW c \in Call, RefreshInsert(c) PROVE QuietOK'
  BY <1>8 DEF RefreshInsert, QuietOK, TypeOK, AcceptedPC, RefreshPC, OwnedBy
<1>9. ASSUME NEW c \in Call, RefreshCommit(c) PROVE QuietOK'
  BY <1>9 DEF RefreshCommit, QuietOK, TypeOK, AcceptedPC, RefreshPC, OwnedBy, CallsOK, RowsOK
<1>10. ASSUME NEW c \in Call, Logout(c) PROVE QuietOK'
  BY <1>10 DEF Logout, QuietOK, TypeOK, AcceptedPC, RefreshPC, OwnedBy
<1>11. ASSUME NEW c \in Call, RevokeAllScan(c) PROVE QuietOK'
  BY <1>11 DEF RevokeAllScan, QuietOK, TypeOK, AcceptedPC, RefreshPC, OwnedBy
<1>12. ASSUME NEW c \in Call, RevokeAllApply(c) PROVE QuietOK'
  BY <1>12 DEF RevokeAllApply, QuietOK, TypeOK, AcceptedPC, RefreshPC, OwnedBy
<1>13. ASSUME NEW c \in Call, RemoveUserLock(c) PROVE QuietOK'
  BY <1>13 DEF RemoveUserLock, QuietOK, TypeOK, AcceptedPC, RefreshPC, OwnedBy
<1>14. ASSUME NEW c \in Call, RemoveUserCascade(c) PROVE QuietOK'
  BY <1>14 DEF RemoveUserCascade, QuietOK, TypeOK, AcceptedPC, RefreshPC, OwnedBy
<1>15. ASSUME NEW c \in Call, Abort(c) PROVE QuietOK'
  BY <1>15 DEF Abort, QuietOK, TypeOK, AcceptedPC, RefreshPC, OwnedBy
<1>16. ASSUME NEW u \in User, IssueTokenPair(u) PROVE QuietOK'
  BY <1>16 DEF IssueTokenPair, QuietOK, TypeOK, AcceptedPC, RefreshPC, OwnedBy, CallsOK, RowsOK, Unused
<1>17. ASSUME NEW t \in Token, Expire(t) PROVE QuietOK'
  BY <1>17 DEF Expire, QuietOK, TypeOK, AcceptedPC, RefreshPC, OwnedBy
<1>18. CASE UNCHANGED vars
  BY <1>18 DEF vars, QuietOK, TypeOK, AcceptedPC, RefreshPC, OwnedBy
<1>19. ASSUME NEW c \in Call, LockNextRow(c) PROVE QuietOK'
  BY <1>19 DEF LockNextRow, QuietOK, TypeOK, AcceptedPC, RefreshPC, OwnedBy
<1> QED
  BY <1>1, <1>2, <1>3, <1>4, <1>5, <1>6, <1>7, <1>8, <1>9, <1>10, <1>11, <1>12, <1>13, <1>14, <1>15, <1>16, <1>17, <1>18, <1>19
  DEF Next, Request, Advance

LEMMA InitInv == Init => IInv
  BY NoTokenAssumption
  DEF Init, IInv, TypeOK, CallsOK, LocksOK, SweepsOK, RowsOK, UsersOK, QuietOK, NoOrphanToken,
      PC, RefreshPC, AcceptedPC

LEMMA StepInv == IInv /\ [Next]_vars => IInv'
  BY TypeOKStep, CallsOKStep, LocksOKStep, SweepsOKStep, RowsOKStep, UsersOKStep, QuietOKStep DEF IInv

(* The inductive invariant holds in every reachable state.                  *)
THEOREM Invariance == Spec => []IInv
<1>1. Init => IInv
  BY InitInv
<1>2. IInv /\ [Next]_vars => IInv'
  BY StepInv
<1> QED
  BY <1>1, <1>2, PTL DEF Spec

(* The variables keep their types, for any users, tokens and calls.         *)
THEOREM TypeCorrectness == Spec => []TypeOK
<1>1. IInv => TypeOK
  BY DEF IInv
<1> QED
  BY <1>1, Invariance, PTL

(* No token outlives its user (ON DELETE CASCADE against a concurrent       *)
(* refresh or issue).                                                       *)
THEOREM NoOrphans == Spec => []NoOrphanToken
<1>1. IInv => NoOrphanToken
  BY DEF IInv, UsersOK
<1> QED
  BY <1>1, Invariance, PTL

-----------------------------------------------------------------------------
(* A revoke-all that no mint for its user overlaps leaves no live token.    *)
THEOREM RevokeAllIsComplete == Spec => RevokeAllComplete
<1>1. ASSUME IInv, NEW c \in quiet, RevokeAllApply(c), NEW t \in rows' \ revoked'
      PROVE  owner'[t] = owner[t] /\ owner[t] # usr[c]
  BY <1>1 DEF IInv, QuietOK, OwnedBy, RevokeAllApply
<1>2. IInv /\ [Next]_vars =>
        [\A c \in quiet : RevokeAllApply(c) => \A t \in rows' \ revoked' : owner[t] # usr[c]]_vars
  BY <1>1
<1> QED
  BY <1>2, Invariance, PTL DEF Spec, RevokeAllComplete

-----------------------------------------------------------------------------
(* A token row disappears only with its replacement for the same user, or   *)
(* with its user: whatever a refresh dies of, the old token stays.          *)
THEOREM RotationIsAtomic == Spec => RotationAtomic
<1> DEFINE Kept(t) ==
      \/ \E n \in rows' \ rows : parent'[n] = t /\ owner'[n] = owner[t]
      \/ owner[t] \notin users'
<1>1. ASSUME IInv, NEW c \in Call, RefreshCommit(c), NEW t \in rows \ rows'
      PROVE  Kept(t)
  <2>1. t = tok[c] /\ pc[c] = "commit"
    BY <1>1 DEF IInv, LocksOK, RefreshCommit
  <2>2. new[c] \in rows' \ rows /\ new[c] \in Token
    BY <1>1, <2>1 DEF IInv, CallsOK, RowsOK, RefreshCommit
  <2>3. parent'[new[c]] = t /\ owner'[new[c]] = owner[t]
    BY <1>1, <2>1, <2>2 DEF IInv, TypeOK, CallsOK, AcceptedPC, RefreshPC, RefreshCommit
  <2> QED
    BY <2>2, <2>3
<1>2. ASSUME IInv, NEW c \in Call, RemoveUserCascade(c), NEW t \in rows \ rows'
      PROVE  Kept(t)
  BY <1>2 DEF IInv, SweepsOK, RemoveUserCascade
<1>3. ASSUME [Next]_vars, \A c \in Call : ~RefreshCommit(c) /\ ~RemoveUserCascade(c)
      PROVE  rows \subseteq rows'
  BY <1>3 DEF Next, Request, Advance, vars, tableVars, RefreshBegin, LogoutBegin,
       RevokeAllBegin, RemoveUserBegin, RefreshSelect, RefreshRetrieve, RefreshDelete,
       RefreshInsert, Logout, RevokeAllScan, LockNextRow, RevokeAllApply, RemoveUserLock, Abort,
       IssueTokenPair, Expire
<1>4. IInv /\ [Next]_vars => [\A t \in rows \ rows' : Kept(t)]_vars
  BY <1>1, <1>2, <1>3
<1> QED
  BY <1>4, Invariance, PTL DEF Spec, RotationAtomic

(* A token that is not live stays so, and no refresh gets past the checks   *)
(* with it any more.                                                        *)
THEOREM ClosedIsForever == Spec => ClosedStaysClosed
<1> DEFINE Shut(t) == t \in Closed' /\ InFlight(t)' \subseteq InFlight(t)
<1>1. ASSUME IInv, [Next]_vars, NEW t \in Closed
      PROVE  t \in Closed'
  <2>1. t \in minted' /\ revoked \subseteq revoked' /\ expired \subseteq expired'
    BY <1>1 DEF Closed, Next, Request, Advance, vars, tableVars, RefreshBegin, LogoutBegin,
         RevokeAllBegin, RemoveUserBegin, RefreshSelect, RefreshRetrieve, RefreshDelete,
         RefreshInsert, RefreshCommit, Logout, RevokeAllScan, LockNextRow, RevokeAllApply,
         RemoveUserLock, RemoveUserCascade, Abort, IssueTokenPair, Expire
  <2>2. t \notin rows => t \notin rows'
    <3> USE <1>1 DEF IInv, CallsOK, Closed
    <3>1. CASE \E c \in Call : RefreshCommit(c)
      BY <3>1 DEF RefreshCommit
    <3>2. CASE \E u \in User : IssueTokenPair(u)
      BY <3>2 DEF IssueTokenPair, Unused
    <3>3. CASE \E c \in Call : RemoveUserCascade(c)
      BY <3>3 DEF RemoveUserCascade
    <3>4. CASE (\E s \in Token : Expire(s)) \/ UNCHANGED vars
      BY <3>4 DEF Expire, vars, tableVars
    <3>5. CASE \E c \in Call : Request(c) \/ Abort(c)
      BY <3>5 DEF Request, RefreshBegin, LogoutBegin, RevokeAllBegin, RemoveUserBegin,
           Abort, tableVars
    <3>6. CASE \E c \in Call : \/ RefreshSelect(c) \/ RefreshRetrieve(c) \/ RefreshDelete(c)
                               \/ RefreshInsert(c) \/ Logout(c) \/ RevokeAllScan(c)
                               \/ LockNextRow(c) \/ RevokeAllApply(c) \/ RemoveUserLock(c)
      BY <3>6 DEF RefreshSelect, RefreshRetrieve, RefreshDelete, RefreshInsert, Logout,
           RevokeAllScan, LockNextRow, RevokeAllApply, RemoveUserLock, tableVars
    <3> QED
      BY <3>1, <3>2, <3>3, <3>4, <3>5, <3>6 DEF Next, Advance
  <2> QED
    BY <2>1, <2>2 DEF Closed, Live
<1>2. ASSUME IInv, [Next]_vars, NEW t \in Closed, NEW d \in Call,
             pc'[d] \in AcceptedPC, tok'[d] = t
      PROVE  pc[d] \in AcceptedPC /\ tok[d] = t
  <2> USE <1>2 DEF IInv, TypeOK, callVars, Goto, Return, AcceptedPC, RefreshPC
  <2>1. CASE \E c \in Call : RefreshSelect(c)
    BY <2>1 DEF RefreshSelect, Closed
  <2>2. CASE \E c \in Call : Request(c)
    BY <2>2 DEF Request, RefreshBegin, LogoutBegin, RevokeAllBegin, RemoveUserBegin
  <2>3. CASE \E c \in Call : RefreshRetrieve(c) \/ RefreshDelete(c) \/ RefreshInsert(c)
                             \/ RefreshCommit(c)
    BY <2>3 DEF RefreshRetrieve, RefreshDelete, RefreshInsert, RefreshCommit
  <2>4. CASE \E c \in Call : \/ Logout(c) \/ RevokeAllScan(c) \/ LockNextRow(c)
                             \/ RevokeAllApply(c) \/ Abort(c)
    BY <2>4 DEF Logout, RevokeAllScan, LockNextRow, StartScan, RevokeAllApply, Abort
  <2>5. CASE \E c \in Call : RemoveUserLock(c) \/ RemoveUserCascade(c)
    BY <2>5 DEF RemoveUserLock, StartScan, RemoveUserCascade
  <2>6. CASE (\E u \in User : IssueTokenPair(u)) \/ (\E s \in Token : Expire(s)) \/ UNCHANGED vars
    BY <2>6 DEF IssueTokenPair, Expire, vars
  <2> QED
    BY <2>1, <2>2, <2>3, <2>4, <2>5, <2>6 DEF Next, Advance
<1>3. IInv /\ [Next]_vars => [\A t \in Closed : Shut(t)]_vars
  BY <1>1, <1>2 DEF InFlight
<1> QED
  BY <1>3, Invariance, PTL DEF Spec, ClosedStaysClosed

-----------------------------------------------------------------------------
(* Who waits for whom.                                                      *)

(* The guards on locks of the statements of JwtService say that a call      *)
(* waits for nobody.                                                        *)
LEMMA WaitsAreGuards ==
  ASSUME NEW c \in Call
  PROVE  /\ pc[c] \in {"delete", "update", "apply", "cascade"} =>
              (WaitsFor(c) = {} <=> RowFree(c, tok[c]))
         /\ pc[c] = "insert" => (WaitsFor(c) = {} <=> UserRowFree(usr[c]))
         /\ pc[c] = "lock" =>
              (WaitsFor(c) = {} <=> UserRowFree(usr[c]) /\ KeyShareFree(usr[c]))
<1>1. CASE pc[c] \in {"delete", "update", "apply", "cascade"}
  BY <1>1 DEF WaitsFor, RowHolders, RowFree
<1>2. CASE pc[c] = "insert"
  BY <1>2 DEF WaitsFor, UserHolders, UserRowFree
<1>3. CASE pc[c] = "lock"
  BY <1>3 DEF WaitsFor, UserHolders, UserRowFree, KeyShareFree
<1> QED
  BY <1>1, <1>2, <1>3

LEMMA WaitsForCalls ==
  ASSUME NEW c \in Call
  PROVE  WaitsFor(c) \subseteq Call
  BY DEF WaitsFor, RowHolders, UserHolders

(* Ahead is what it is meant to be: it has those a call waits for, and those *)
(* that they wait for.                                                       *)
LEMMA AheadIsClosed ==
  ASSUME NEW c \in Call
  PROVE  /\ Ahead(c) \in SUBSET Call
         /\ WaitsFor(c) \subseteq Ahead(c)
         /\ ClosedUnderWaits(Ahead(c))
<1>1. Ahead(c) \in SUBSET Call
  BY DEF Ahead
<1>2. WaitsFor(c) \subseteq Ahead(c)
  BY WaitsForCalls DEF Ahead
<1>3. ASSUME NEW d \in Ahead(c), NEW e \in WaitsFor(d)
      PROVE  e \in Ahead(c)
  <2>1. d \in Call /\ e \in Call
    BY <1>1, <1>3, WaitsForCalls
  <2>2. ASSUME NEW S \in SUBSET Call, WaitsFor(c) \subseteq S, ClosedUnderWaits(S)
        PROVE  e \in S
    <3>1. d \in S
      BY <1>3, <2>2 DEF Ahead
    <3> QED
      BY <1>3, <2>2, <3>1 DEF ClosedUnderWaits
  <2> QED
    BY <2>1, <2>2 DEF Ahead
<1> QED
  BY <1>1, <1>2, <1>3 DEF ClosedUnderWaits

LEMMA AheadIsLeast ==
  ASSUME NEW c \in Call, NEW S \in SUBSET Call,
         WaitsFor(c) \subseteq S, ClosedUnderWaits(S)
  PROVE  Ahead(c) \subseteq S
  BY DEF Ahead

LEMMA AheadIsTransitive ==
  ASSUME NEW c \in Call, NEW d \in Ahead(c)
  PROVE  Ahead(d) \subseteq Ahead(c)
<1>1. d \in Call /\ WaitsFor(d) \subseteq Ahead(c)
  BY AheadIsClosed DEF ClosedUnderWaits
<1> QED
  BY <1>1, AheadIsClosed, AheadIsLeast

(* Only a call past its DELETE, or in the midst of a statement on many rows, *)
(* holds what another may wait for.                                          *)
Holder == {d \in Call : pc[d] \in {"insert", "commit", "apply", "cascade"}}

LEMMA WaitsForHolders ==
  ASSUME IInv, NEW c \in Call
  PROVE  WaitsFor(c) \subseteq Holder
<1>1. \A d \in Call : held[d] # {} => d \in Holder
  BY DEF IInv, LocksOK, Holder
<1>2. RowHolders(c) \subseteq Holder
  BY <1>1 DEF RowHolders
<1>3. UserHolders(c, {"cascade"}) \subseteq Holder
  BY DEF UserHolders, Holder
<1>4. UserHolders(c, {"cascade", "commit"}) \subseteq Holder
  BY DEF UserHolders, Holder
<1> QED
  BY <1>2, <1>3, <1>4 DEF WaitsFor

LEMMA AheadAreHolders ==
  ASSUME IInv, NEW c \in Call
  PROVE  Ahead(c) \subseteq Holder
<1>1. Holder \in SUBSET Call
  BY DEF Holder
<1>2. WaitsFor(c) \subseteq Holder /\ ClosedUnderWaits(Holder)
  BY <1>1, WaitsForHolders DEF ClosedUnderWaits
<1> QED
  BY <1>1, <1>2, AheadIsLeast

(* What a call that waits is looking for.                                    *)
Ready(d) == Running(d) /\ pc[d] # "retrieve"
Sweep(d) == pc[d] \in {"apply", "cascade"}

(* Ahead of a call that waits is one that can go on, or a statement on many  *)
(* rows: an INSERT waits only for the deletion of its user.                  *)
LEMMA SweepAhead ==
  ASSUME IInv, NEW c \in Call, WaitsFor(c) # {},
         \A d \in Ahead(c) : ~Ready(d)
  PROVE  \E d \in Ahead(c) : Sweep(d)
<1>1. PICK d \in Ahead(c) : TRUE
  BY AheadIsClosed
<1>2. d \in Call /\ pc[d] \in {"insert", "commit", "apply", "cascade"}
  BY <1>1, AheadAreHolders DEF Holder
<1>3. WaitsFor(d) # {}
  BY <1>1, <1>2 DEF Ready, Running
<1>4. CASE Sweep(d)
  BY <1>1, <1>4
<1>5. CASE pc[d] = "insert"
  <2>1. PICK e \in WaitsFor(d) : TRUE
    BY <1>3
  <2>2. e \in Ahead(c)
    BY <1>1, <2>1, AheadIsClosed DEF ClosedUnderWaits
  <2>3. pc[e] = "cascade"
    BY <1>5, <2>1 DEF WaitsFor, UserHolders
  <2> QED
    BY <2>2, <2>3 DEF Sweep
<1>6. CASE pc[d] = "commit"
  BY <1>3, <1>6 DEF WaitsFor
<1> QED
  BY <1>2, <1>4, <1>5, <1>6 DEF Sweep

(* In a set of calls with finitely many ahead of each, one has the fewest.   *)
LEMMA FewestAhead ==
  ASSUME NEW T, T # {}, \A x \in T : Cardinality(Ahead(x)) \in Nat
  PROVE  \E x \in T : \A y \in T : Cardinality(Ahead(x)) <= Cardinality(Ahead(y))
<1> DEFINE N == {Cardinality(Ahead(x)) : x \in T}
<1>1. N \subseteq Nat /\ N # {}
  OBVIOUS
<1>2. PICK n \in N : \A k \in N : ~(<<k, n>> \in OpToRel(<, Nat))
  BY <1>1, NatLessThanWellFounded, WFMin
<1>3. ASSUME NEW k \in N PROVE n <= k
  <2>1. k \in Nat /\ n \in Nat
    BY <1>1
  <2>2. k < n => <<k, n>> \in OpToRel(<, Nat)
    BY <2>1 DEF OpToRel
  <2>3. ~(k < n)
    BY <1>2, <2>2
  <2> QED
    BY <2>1, <2>3
<1> QED
  BY <1>3

(* If nobody ahead of a call that waits can go on, there is a circle with a  *)
(* statement on many rows among them: such a statement with the fewest calls *)
(* ahead has another ahead, which has the same calls ahead, itself included. *)
LEMMA WaitEnds ==
  ASSUME IInv, NEW c \in Call, WaitsFor(c) # {}, IsFiniteSet(Ahead(c))
  PROVE  \E d \in Ahead(c) : Ready(d) \/ (InDeadlock(d) /\ Sweep(d))
<1> SUFFICES ASSUME \A d \in Ahead(c) : ~Ready(d)
             PROVE  \E d \in Ahead(c) : InDeadlock(d) /\ Sweep(d)
  OBVIOUS
<1> DEFINE T == {x \in Ahead(c) : Sweep(x)}
<1>1. T # {}
  BY SweepAhead
<1>2. ASSUME NEW x \in Ahead(c)
      PROVE  x \in Call /\ Ahead(x) \subseteq Ahead(c) /\ IsFiniteSet(Ahead(x))
  BY <1>2, AheadIsClosed, AheadIsTransitive, FS_Subset
<1>3. \A x \in T : Cardinality(Ahead(x)) \in Nat
  BY <1>2, FS_CardinalityType
<1>4. PICK x \in T : \A y \in T : Cardinality(Ahead(x)) <= Cardinality(Ahead(y))
  <2> HIDE DEF T
  <2> QED
    BY <1>1, <1>3, FewestAhead
<1>5. x \in Ahead(c) /\ x \in Call /\ Ahead(x) \subseteq Ahead(c) /\ IsFiniteSet(Ahead(x))
  BY <1>2
<1>6. WaitsFor(x) # {}
  BY <1>5 DEF Ready, Running, Sweep
<1>7. PICK y \in Ahead(x) : Sweep(y)
  BY <1>5, <1>6, SweepAhead
<1>8. y \in T /\ y \in Call /\ Ahead(y) \subseteq Ahead(x)
  BY <1>5, <1>7, <1>2, AheadIsTransitive
<1>9. Cardinality(Ahead(y)) = Cardinality(Ahead(x))
  <2>1. Cardinality(Ahead(y)) <= Cardinality(Ahead(x))
    BY <1>5, <1>8, FS_Subset
  <2>2. Cardinality(Ahead(x)) <= Cardinality(Ahead(y))
    BY <1>4, <1>8
  <2>3. Cardinality(Ahead(x)) \in Nat /\ Cardinality(Ahead(y)) \in Nat
    BY <1>3, <1>4, <1>8
  <2> QED
    BY <2>1, <2>2, <2>3
<1>10. Ahead(x) = Ahead(y)
  BY <1>5, <1>8, <1>9, FS_Subset
<1>11. InDeadlock(y)
  BY <1>7, <1>10 DEF InDeadlock
<1> QED
  BY <1>7, <1>8, <1>11

(* However waits queue up, for any number of users and tokens and any finite *)
(* number of calls, a wait leads to a call that can go on or to a deadlock   *)
(* that a statement on many rows is part of.                                 *)
THEOREM WaitsEnd ==
  ASSUME IsFiniteSet(Call)
  PROVE  Spec => []EveryWaitEnds
<1>1. ASSUME IInv, NEW c \in Call, WaitsFor(c) # {}
      PROVE  \E d \in Ahead(c) : Ready(d) \/ (InDeadlock(d) /\ Sweep(d))
  <2>1. IsFiniteSet(Ahead(c))
    BY AheadIsClosed, FS_Subset
  <2> QED
    BY <1>1, <2>1, WaitEnds
<1>2. IInv => EveryWaitEnds
  BY <1>1 DEF EveryWaitEnds, Ready, Sweep
<1> QED
  BY <1>2, Invariance, PTL
=============================================================================
