--------------------------- MODULE CredentialsProofs ---------------------------
(***************************************************************************)
(* Theorems of Credentials for every set of users, sessions, tokens, resets*)
(* and calls, and any bound on password writes.                            *)
(***************************************************************************)
EXTENDS Credentials, FiniteSetTheorems, TLAPS

Rotating == {"list", "sweep", "lookup", "reissue", "revoke", "close"}

(* A call acts for a user, under a password that user has or had.  The      *)
(* reset a call names is its user's; the one it is about to spend is open   *)
(* and no other call holds it.  What a call will delete is its user's.      *)
CallsOK ==
  /\ \A c \in Call : pc[c] # "idle" => usr[c] \in User /\ g[c] <= gen[usr[c]]
  /\ \A c \in Call : pc[c] \in {"claim", "apply"} =>
       item[c] \in Reset /\ rUser[item[c]] = usr[c]
  /\ \A c \in Call : pc[c] = "apply" => item[c] \in open
  /\ \A c, d \in Call : pc[c] = "apply" /\ pc[d] = "apply" /\ item[c] = item[d] => c = d
  /\ \A c \in Call : pc[c] = "sweep" =>
       snap[c] \subseteq Session /\ \A s \in snap[c] : sUser[s] = usr[c]
  /\ \A c \in Call : pc[c] = "close" => snap[c] \subseteq Token
  /\ \A c \in Call : pc[c] \notin {"sweep", "close"} => snap[c] = {}
  /\ \A c \in Call : pc[c] = "rotate" => item[c] \in Token /\ tUser[item[c]] = usr[c]
  /\ \A c \in Call : pc[c] = "remove" => item[c] \in Session /\ sUser[item[c]] = usr[c]

(* A row belongs to a user who is there and rests on a password that user   *)
(* has or had; a reset is open or used.                                     *)
RowsOK ==
  /\ \A s \in sessions : sUser[s] \in users /\ sGen[s] <= gen[sUser[s]]
  /\ \A t \in tokens : tUser[t] \in users /\ tGen[t] <= gen[tUser[t]]
  /\ \A r \in open \cup used : rUser[r] \in users
  /\ open \cap used = {}

(* Until it has swept, a rotation holds every session of an older password, *)
(* and then, from its scan on, every token of one.                          *)
SweepOK ==
  \A c \in Call \ (faulty \cup raced) :
    pc[c] \in {"sweep", "lookup", "reissue", "revoke", "close"} =>
      \A s \in SessionsOf(usr[c]) : sGen[s] >= g[c] \/ (pc[c] = "sweep" /\ s \in snap[c])

CloseOK ==
  \A c \in Call \ (faulty \cup raced) :
    pc[c] = "close" => \A t \in TokensOf(usr[c]) : tGen[t] >= g[c] \/ t \in snap[c]

(* Writes of a password are paid for, and finitely many resets are used.    *)
PaidOK == IsFiniteSet(used) /\ PasswordWritesAccounted

IInv == TypeOK /\ CallsOK /\ RowsOK /\ SweepOK /\ CloseOK /\ PaidOK

Spent(w) == {r \in used : rUser[r] = w}

LEMMA SpentFinite ==
  ASSUME PaidOK, NEW w
  PROVE  IsFiniteSet(Spent(w)) /\ Cardinality(Spent(w)) \in Nat
  BY FS_Subset, FS_CardinalityType DEF PaidOK, Spent

(* What does not touch the passwords or the resets keeps the account.       *)
LEMMA PaidFrame ==
  ASSUME PaidOK, users' = users, gen' = gen, changes' = changes, used' = used, rUser' = rUser
  PROVE  PaidOK'
  BY DEF PaidOK, PasswordWritesAccounted

(* The body of CleanStaysClean.                                             *)
CleanKept == \A u \in User : Clean(u) /\ gen'[u] = gen[u] => Clean(u)'

(* A request that returns, or goes on to its next statement, and writes     *)
(* nothing of the database.                                                 *)
LEMMA FinishTypeOK ==
  ASSUME TypeOK, NEW c \in Call, Finish(c),
         UNCHANGED <<users, gen, sessVars, tokVars, resetVars>>
  PROVE  TypeOK'
  BY DEF Finish, Return, TypeOK, PC, sessVars, tokVars, resetVars

LEMMA GotoTypeOK ==
  ASSUME TypeOK, NEW c \in Call, NEW l \in PC, Goto(c, l),
         UNCHANGED <<users, gen, sessVars, tokVars, resetVars, history>>
  PROVE  TypeOK'
  BY DEF Goto, TypeOK, sessVars, tokVars, resetVars, history

(* A token that was issued keeps its user.                                  *)
TokensKept == \A t \in Token : tUser[t] # None => tUser'[t] = tUser[t]

LEMMA ReturnCallsOK ==
  ASSUME TypeOK, CallsOK, NEW c \in Call, Return(c),
         UNCHANGED <<users, gen, sUser, open, rUser>>, TokensKept
  PROVE  CallsOK'
<1>1. \A d \in Call \ {c} : /\ pc'[d] = pc[d] /\ usr'[d] = usr[d] /\ g'[d] = g[d]
                            /\ item'[d] = item[d] /\ snap'[d] = snap[d]
  BY DEF Return, TypeOK
<1>2. pc'[c] = "idle" /\ snap'[c] = {}
  BY DEF Return, TypeOK
<1>3. \A d \in Call : pc'[d] = "rotate" =>
        item'[d] \in Token /\ tUser'[item'[d]] = usr'[d]
  BY <1>1, <1>2, NoneAssumption DEF CallsOK, TokensKept
<1> QED
  BY <1>1, <1>2, <1>3 DEF CallsOK

LEMMA FinishCallsOK ==
  ASSUME TypeOK, CallsOK, NEW c \in Call, Finish(c),
         UNCHANGED <<users, gen, sUser, tUser, open, rUser>>
  PROVE  CallsOK'
  BY ReturnCallsOK DEF Finish, TokensKept

LEMMA GotoCallsOK ==
  ASSUME TypeOK, CallsOK, NEW c \in Call, NEW l \in PC, Goto(c, l),
         pc[c] # "idle", snap[c] = {}, l \notin {"claim", "apply", "remove", "rotate"},
         UNCHANGED <<users, gen, sUser, tUser, open, rUser>>
  PROVE  CallsOK'
<1>1. \A d \in Call \ {c} : pc'[d] = pc[d]
  BY DEF Goto, TypeOK
<1>2. pc'[c] = l /\ UNCHANGED <<usr, g, item, snap>>
  BY DEF Goto, TypeOK
<1> QED
  BY <1>1, <1>2 DEF CallsOK

(* Every step keeps every variable in its set.                              *)
LEMMA TypeOKStep ==
  TypeOK /\ CallsOK /\ RowsOK /\ [Next]_vars
    => TypeOK'
<1> SUFFICES ASSUME TypeOK, CallsOK, RowsOK, [Next]_vars
             PROVE  TypeOK'
  OBVIOUS
<1> USE NoneAssumption DEF userVars, sessVars, tokVars, resetVars, callVars, history
<1>1. ASSUME NEW c \in Call, NEW u \in User, PasswordLogin(c, u) PROVE TypeOK'
  BY <1>1 DEF PasswordLogin, Start, TypeOK, PC
<1>2. ASSUME NEW c \in Call, NEW s \in Session, ChangeBegin(c, s) PROVE TypeOK'
  BY <1>2 DEF ChangeBegin, Start, TypeOK, PC, RowsOK
<1>3. ASSUME NEW c \in Call, NEW s \in Session, JwtBegin(c, s) PROVE TypeOK'
  BY <1>3 DEF JwtBegin, Start, TypeOK, PC, RowsOK
<1>4. ASSUME NEW c \in Call, NEW s \in Session, NEW i \in Session, DeleteBegin(c, s, i) PROVE TypeOK'
  BY <1>4 DEF DeleteBegin, Start, TypeOK, PC, RowsOK
<1>5. ASSUME NEW c \in Call, NEW r \in Reset, ConfirmBegin(c, r) PROVE TypeOK'
  BY <1>5 DEF ConfirmBegin, Start, TypeOK, PC, RowsOK
<1>6. ASSUME NEW c \in Call, NEW t \in Token, RefreshBegin(c, t) PROVE TypeOK'
  BY <1>6 DEF RefreshBegin, Start, TypeOK, PC, RowsOK
<1>7. ASSUME NEW c \in Call, LoginIssue(c) PROVE TypeOK'
  BY <1>7 DEF LoginIssue, Return, AddSession, Sweeping, TypeOK, PC, CallsOK
<1>8. ASSUME NEW c \in Call, ChangeVerify(c) PROVE TypeOK'
  <2>1. CASE Finish(c)
    BY <1>8, <2>1, FinishTypeOK DEF ChangeVerify
  <2>2. CASE ~Finish(c)
    BY <1>8, <2>2 DEF ChangeVerify, TypeOK, CallsOK, PC
  <2> QED
    BY <2>1, <2>2
<1>9. ASSUME NEW c \in Call, ChangeUpdate(c) PROVE TypeOK'
  <2>1. CASE usr[c] \in users /\ SetPassword(c)
    BY <1>9, <2>1 DEF ChangeUpdate, SetPassword, TypeOK, PC, CallsOK
  <2>2. CASE usr[c] \notin users /\ Goto(c, "list") /\ UNCHANGED <<userVars, changes>>
    BY <1>9, <2>2, GotoTypeOK DEF ChangeUpdate, PC
  <2> QED
    BY <1>9, <2>1, <2>2 DEF ChangeUpdate
<1>10. ASSUME NEW c \in Call, ConfirmClaim(c) PROVE TypeOK'
  <2>1. CASE Finish(c)
    BY <1>10, <2>1, FinishTypeOK DEF ConfirmClaim
  <2>2. CASE ~Finish(c)
    BY <1>10, <2>2, GotoTypeOK DEF ConfirmClaim, PC
  <2> QED
    BY <2>1, <2>2
<1>11. ASSUME NEW c \in Call, ConfirmApply(c) PROVE TypeOK'
  BY <1>11 DEF ConfirmApply, SetPassword, TypeOK, PC, CallsOK
<1>12. ASSUME NEW c \in Call, RevokeList(c) PROVE TypeOK'
  BY <1>12 DEF RevokeList, SessionsOf, TypeOK, PC, CallsOK
<1>13. ASSUME NEW c \in Call, RevokeSession(c) PROVE TypeOK'
  BY <1>13 DEF RevokeSession, TypeOK, PC
<1>14. ASSUME NEW c \in Call, RevokeSessionsDone(c) PROVE TypeOK'
  BY <1>14, GotoTypeOK DEF RevokeSessionsDone, PC
<1>15. ASSUME NEW c \in Call, ChangeLookup(c) PROVE TypeOK'
  <2>1. CASE Finish(c)
    BY <1>15, <2>1, FinishTypeOK DEF ChangeLookup
  <2>2. CASE ~Finish(c)
    BY <1>15, <2>2, GotoTypeOK DEF ChangeLookup, PC
  <2> QED
    BY <2>1, <2>2
<1>16. ASSUME NEW c \in Call, ChangeReissue(c) PROVE TypeOK'
  <2>1. CASE Finish(c) /\ UNCHANGED sessVars
    BY <1>16, <2>1, FinishTypeOK DEF ChangeReissue
  <2>2. CASE Goto(c, "revoke") /\ AddSession(c)
    <3>1. usr[c] \in User /\ g[c] \in Nat
      BY <1>16 DEF ChangeReissue, CallsOK, TypeOK
    <3>2. sessions' \subseteq Session /\ raced' \subseteq Call
      BY <1>16, <2>2 DEF ChangeReissue, AddSession, Sweeping, TypeOK
    <3>3. sUser' \in [Session -> User \cup {None}] /\ sGen' \in [Session -> Nat]
      BY <1>16, <2>2, <3>1 DEF ChangeReissue, AddSession, TypeOK
    <3>4. pc' \in [Call -> PC]
      BY <1>16, <2>2 DEF ChangeReissue, Goto, TypeOK, PC
    <3> QED
      BY <1>16, <2>2, <3>2, <3>3, <3>4 DEF ChangeReissue, AddSession, Goto, TypeOK
  <2> QED
    BY <1>16, <2>1, <2>2 DEF ChangeReissue
<1>17. ASSUME NEW c \in Call, RevokeTokensScan(c) PROVE TypeOK'
  BY <1>17 DEF RevokeTokensScan, TokensOf, TypeOK, PC
<1>18. ASSUME NEW c \in Call, RevokeTokensFails(c) PROVE TypeOK'
  BY <1>18, FinishTypeOK DEF RevokeTokensFails
<1>19. ASSUME NEW c \in Call, DeleteRetrieve(c) PROVE TypeOK'
  <2>1. CASE Finish(c)
    BY <1>19, <2>1, FinishTypeOK DEF DeleteRetrieve
  <2>2. CASE ~Finish(c)
    BY <1>19, <2>2, GotoTypeOK DEF DeleteRetrieve, PC
  <2> QED
    BY <2>1, <2>2
<1>20. ASSUME NEW c \in Call, DeleteRemove(c) PROVE TypeOK'
  BY <1>20 DEF DeleteRemove, Finish, Return, TypeOK, PC
<1>21. ASSUME NEW c \in Call, JwtMint(c) PROVE TypeOK'
  BY <1>21 DEF JwtMint, AddToken, Closing, Return, TypeOK, PC, CallsOK
<1>22. ASSUME NEW c \in Call, RefreshCommit(c) PROVE TypeOK'
  BY <1>22 DEF RefreshCommit, AddToken, Closing, Return, TypeOK, PC, CallsOK
<1>23. ASSUME NEW c \in Call, Abort(c) PROVE TypeOK'
  BY <1>23, FinishTypeOK DEF Abort
<1>24. ASSUME NEW u \in User, RequestReset(u) PROVE TypeOK'
  BY <1>24 DEF RequestReset, TypeOK, PC
<1>25. ASSUME NEW s \in Session, Logout(s) PROVE TypeOK'
  BY <1>25 DEF Logout, TypeOK, PC
<1>26. ASSUME NEW t \in Token, DropToken(t) PROVE TypeOK'
  BY <1>26 DEF DropToken, TypeOK, PC
<1>27. ASSUME NEW r \in Reset, ExpireReset(r) PROVE TypeOK'
  BY <1>27 DEF ExpireReset, TypeOK, PC
<1>28. CASE UNCHANGED vars
  BY <1>28 DEF vars, TypeOK, PC
<1>29. ASSUME NEW c \in Call, RevokeTokensApply(c) PROVE TypeOK'
  BY <1>29 DEF RevokeTokensApply, Finish, Return, TypeOK, PC
<1>30. ASSUME NEW s \in Session, AdminRemoveSession(s) PROVE TypeOK'
  BY <1>30 DEF AdminRemoveSession, TypeOK, PC
<1>31. ASSUME NEW u \in User, RemoveUser(u) PROVE TypeOK'
  BY <1>31 DEF RemoveUser, SessionsOf, TokensOf, ResetsOf, TypeOK, PC
<1> QED
  BY <1>1, <1>2, <1>3, <1>4, <1>5, <1>6, <1>7, <1>8, <1>9,
     <1>10, <1>11, <1>12, <1>13, <1>14, <1>15, <1>16, <1>17, <1>18,
     <1>19, <1>20, <1>21, <1>22, <1>23, <1>24, <1>25, <1>26, <1>27,
     <1>28, <1>29, <1>30, <1>31
  DEF Next, Request, Advance

(* Passwords only get newer, and a reset is claimed under its row lock.     *)
LEMMA CallsOKStep ==
  CallsOK /\ TypeOK /\ RowsOK /\ [Next]_vars
    => CallsOK'
<1> SUFFICES ASSUME CallsOK, TypeOK, RowsOK, [Next]_vars
             PROVE  CallsOK'
  OBVIOUS
<1> USE NoneAssumption DEF userVars, sessVars, tokVars, resetVars, callVars, history
<1>1. ASSUME NEW c \in Call, NEW u \in User, PasswordLogin(c, u) PROVE CallsOK'
  BY <1>1 DEF PasswordLogin, Start, CallsOK, TypeOK, Rotating
<1>2. ASSUME NEW c \in Call, NEW s \in Session, ChangeBegin(c, s) PROVE CallsOK'
  BY <1>2 DEF ChangeBegin, Start, CallsOK, TypeOK, Rotating, RowsOK
<1>3. ASSUME NEW c \in Call, NEW s \in Session, JwtBegin(c, s) PROVE CallsOK'
  BY <1>3 DEF JwtBegin, Start, CallsOK, TypeOK, Rotating, RowsOK
<1>4. ASSUME NEW c \in Call, NEW s \in Session, NEW i \in Session, DeleteBegin(c, s, i) PROVE CallsOK'
  BY <1>4 DEF DeleteBegin, Start, CallsOK, TypeOK, Rotating, RowsOK
<1>5. ASSUME NEW c \in Call, NEW r \in Reset, ConfirmBegin(c, r) PROVE CallsOK'
  BY <1>5 DEF ConfirmBegin, Start, CallsOK, TypeOK, Rotating, RowsOK
<1>6. ASSUME NEW c \in Call, NEW t \in Token, RefreshBegin(c, t) PROVE CallsOK'
  BY <1>6 DEF RefreshBegin, Start, CallsOK, TypeOK, Rotating, RowsOK
<1>7. ASSUME NEW c \in Call, LoginIssue(c) PROVE CallsOK'
  BY <1>7 DEF LoginIssue, Return, AddSession, Sweeping, CallsOK, TypeOK, Rotating, RowsOK
<1>8. ASSUME NEW c \in Call, ChangeVerify(c) PROVE CallsOK'
  <2>1. CASE Finish(c)
    BY <1>8, <2>1, FinishCallsOK DEF ChangeVerify
  <2>2. CASE ~Finish(c)
    <3>1. pc[c] = "verify" /\ pc'[c] = "update" /\ g'[c] = gen[usr[c]]
      BY <1>8, <2>2 DEF ChangeVerify, TypeOK
    <3>2. \A d \in Call \ {c} : pc'[d] = pc[d] /\ g'[d] = g[d]
      BY <1>8, <2>2 DEF ChangeVerify, TypeOK
    <3>3. UNCHANGED <<users, gen, sUser, tUser, open, rUser, usr, item, snap>>
      BY <1>8, <2>2 DEF ChangeVerify
    <3>4. gen[usr[c]] \in Nat
      BY <3>1 DEF CallsOK, TypeOK
    <3> QED
      BY <3>1, <3>2, <3>3, <3>4 DEF CallsOK
  <2> QED
    BY <2>1, <2>2
<1>9. ASSUME NEW c \in Call, ChangeUpdate(c) PROVE CallsOK'
  <2>1. CASE usr[c] \in users /\ SetPassword(c)
    BY <1>9, <2>1 DEF ChangeUpdate, SetPassword, CallsOK, TypeOK
  <2>2. CASE usr[c] \notin users /\ Goto(c, "list") /\ UNCHANGED <<userVars, changes>>
    BY <1>9, <2>2, GotoCallsOK DEF ChangeUpdate, CallsOK, PC
  <2> QED
    BY <1>9, <2>1, <2>2 DEF ChangeUpdate
<1>10. ASSUME NEW c \in Call, ConfirmClaim(c) PROVE CallsOK'
  <2>1. CASE Finish(c)
    BY <1>10, <2>1, FinishCallsOK DEF ConfirmClaim
  <2>2. CASE ~Finish(c)
    <3>1. pc[c] \notin {"idle", "sweep", "close"} /\ pc'[c] = "apply"
          /\ \A d \in Call \ {c} : pc'[d] = pc[d]
      BY <1>10, <2>2 DEF ConfirmClaim, Goto, TypeOK
    <3>2. UNCHANGED <<users, gen, sUser, tUser, open, rUser, usr, g, item, snap>>
      BY <1>10, <2>2 DEF ConfirmClaim, Goto
    <3>3. /\ item[c] \in Reset /\ rUser[item[c]] = usr[c] /\ item[c] \in open
          /\ \A d \in Call : ~(pc[d] = "apply" /\ item[d] = item[c])
      BY <1>10, <2>2 DEF ConfirmClaim, CallsOK
    <3> QED
      BY <3>1, <3>2, <3>3 DEF CallsOK
  <2> QED
    BY <2>1, <2>2
<1>11. ASSUME NEW c \in Call, ConfirmApply(c) PROVE CallsOK'
  BY <1>11 DEF ConfirmApply, SetPassword, CallsOK, TypeOK, Rotating, RowsOK
<1>12. ASSUME NEW c \in Call, RevokeList(c) PROVE CallsOK'
  BY <1>12 DEF RevokeList, SessionsOf, CallsOK, TypeOK, Rotating
<1>13. ASSUME NEW c \in Call, RevokeSession(c) PROVE CallsOK'
  BY <1>13 DEF RevokeSession, CallsOK, TypeOK, Rotating
<1>14. ASSUME NEW c \in Call, RevokeSessionsDone(c) PROVE CallsOK'
  BY <1>14, GotoCallsOK DEF RevokeSessionsDone, PC
<1>15. ASSUME NEW c \in Call, ChangeLookup(c) PROVE CallsOK'
  <2>1. CASE Finish(c)
    BY <1>15, <2>1, FinishCallsOK DEF ChangeLookup
  <2>2. CASE ~Finish(c)
    BY <1>15, <2>2, GotoCallsOK DEF ChangeLookup, CallsOK, PC
  <2> QED
    BY <2>1, <2>2
<1>16. ASSUME NEW c \in Call, ChangeReissue(c) PROVE CallsOK'
  <2>1. CASE Finish(c) /\ UNCHANGED sessVars
    BY <1>16, <2>1, FinishCallsOK DEF ChangeReissue
  <2>2. CASE Goto(c, "revoke") /\ AddSession(c)
    <3>1. pc[c] = "reissue" /\ pc'[c] = "revoke" /\ \A d \in Call \ {c} : pc'[d] = pc[d]
      BY <1>16, <2>2 DEF ChangeReissue, Goto, TypeOK
    <3>2. UNCHANGED <<users, gen, tUser, open, rUser, usr, g, item, snap>>
      BY <1>16, <2>2 DEF ChangeReissue, Goto
    <3>3. \A q \in Session : sUser[q] # None => sUser'[q] = sUser[q]
      BY <1>16, <2>2 DEF ChangeReissue, AddSession, TypeOK
    <3>4. \A d \in Call : pc[d] = "sweep" =>
            \A q \in snap[d] : q \in Session /\ sUser[q] \in User
      BY DEF CallsOK
    <3>5. \A d \in Call : pc[d] = "remove" => usr[d] \in User
      BY DEF CallsOK
    <3>6. \A d \in Call : pc'[d] = "sweep" =>
            snap'[d] \subseteq Session /\ \A q \in snap'[d] : sUser'[q] = usr'[d]
      BY <3>1, <3>2, <3>3, <3>4 DEF CallsOK
    <3>7. \A d \in Call : pc'[d] = "remove" =>
            item'[d] \in Session /\ sUser'[item'[d]] = usr'[d]
      BY <3>1, <3>2, <3>3, <3>5 DEF CallsOK
    <3> QED
      BY <3>1, <3>2, <3>6, <3>7 DEF CallsOK
  <2> QED
    BY <1>16, <2>1, <2>2 DEF ChangeReissue
<1>17. ASSUME NEW c \in Call, RevokeTokensScan(c) PROVE CallsOK'
  BY <1>17 DEF RevokeTokensScan, TokensOf, CallsOK, TypeOK
<1>18. ASSUME NEW c \in Call, RevokeTokensFails(c) PROVE CallsOK'
  BY <1>18, FinishCallsOK DEF RevokeTokensFails
<1>19. ASSUME NEW c \in Call, DeleteRetrieve(c) PROVE CallsOK'
  <2>1. CASE Finish(c)
    BY <1>19, <2>1, FinishCallsOK DEF DeleteRetrieve
  <2>2. CASE ~Finish(c)
    <3>1. pc[c] \notin {"idle", "sweep", "close"} /\ pc'[c] = "remove"
          /\ \A d \in Call \ {c} : pc'[d] = pc[d]
      BY <1>19, <2>2 DEF DeleteRetrieve, Goto, TypeOK
    <3>2. UNCHANGED <<users, gen, sUser, tUser, open, rUser, usr, g, item, snap>>
      BY <1>19, <2>2 DEF DeleteRetrieve, Goto
    <3>3. item[c] \in Session /\ sUser[item[c]] = usr[c]
      BY <1>19, <2>2 DEF DeleteRetrieve, SessionsOf, TypeOK
    <3> QED
      BY <3>1, <3>2, <3>3 DEF CallsOK
  <2> QED
    BY <2>1, <2>2
<1>20. ASSUME NEW c \in Call, DeleteRemove(c) PROVE CallsOK'
  BY <1>20, FinishCallsOK DEF DeleteRemove
<1>21. ASSUME NEW c \in Call, JwtMint(c) PROVE CallsOK'
  <2>1. TokensKept
    BY <1>21 DEF JwtMint, AddToken, TypeOK, TokensKept
  <2> QED
    BY <1>21, <2>1, ReturnCallsOK DEF JwtMint
<1>22. ASSUME NEW c \in Call, RefreshCommit(c) PROVE CallsOK'
  <2>1. TokensKept
    BY <1>22 DEF RefreshCommit, AddToken, TypeOK, TokensKept
  <2> QED
    BY <1>22, <2>1, ReturnCallsOK DEF RefreshCommit
<1>23. ASSUME NEW c \in Call, Abort(c) PROVE CallsOK'
  BY <1>23, FinishCallsOK DEF Abort
<1>24. ASSUME NEW u \in User, RequestReset(u) PROVE CallsOK'
  BY <1>24 DEF RequestReset, CallsOK, TypeOK, Rotating
<1>25. ASSUME NEW s \in Session, Logout(s) PROVE CallsOK'
  BY <1>25 DEF Logout, CallsOK, TypeOK, Rotating
<1>26. ASSUME NEW t \in Token, DropToken(t) PROVE CallsOK'
  BY <1>26 DEF DropToken, CallsOK, TypeOK, Rotating
<1>27. ASSUME NEW r \in Reset, ExpireReset(r) PROVE CallsOK'
  BY <1>27 DEF ExpireReset, CallsOK, TypeOK, Rotating
<1>28. CASE UNCHANGED vars
  BY <1>28 DEF vars, CallsOK, TypeOK, Rotating
<1>29. ASSUME NEW c \in Call, RevokeTokensApply(c) PROVE CallsOK'
  BY <1>29, FinishCallsOK DEF RevokeTokensApply
<1>30. ASSUME NEW s \in Session, AdminRemoveSession(s) PROVE CallsOK'
  BY <1>30 DEF AdminRemoveSession, CallsOK, TypeOK, Rotating
<1>31. ASSUME NEW u \in User, RemoveUser(u) PROVE CallsOK'
  BY <1>31 DEF RemoveUser, SessionsOf, TokensOf, ResetsOf, CallsOK, TypeOK, Rotating
<1> QED
  BY <1>1, <1>2, <1>3, <1>4, <1>5, <1>6, <1>7, <1>8, <1>9,
     <1>10, <1>11, <1>12, <1>13, <1>14, <1>15, <1>16, <1>17, <1>18,
     <1>19, <1>20, <1>21, <1>22, <1>23, <1>24, <1>25, <1>26, <1>27,
     <1>28, <1>29, <1>30, <1>31
  DEF Next, Request, Advance

(* A row is filed under the user of the call that adds it.                  *)
LEMMA RowsOKStep ==
  RowsOK /\ TypeOK /\ CallsOK /\ [Next]_vars
    => RowsOK'
<1> SUFFICES ASSUME RowsOK, TypeOK, CallsOK, [Next]_vars
             PROVE  RowsOK'
  OBVIOUS
<1> USE NoneAssumption DEF userVars, sessVars, tokVars, resetVars, callVars, history
<1>1. ASSUME NEW c \in Call, NEW u \in User, PasswordLogin(c, u) PROVE RowsOK'
  BY <1>1 DEF PasswordLogin, Start, RowsOK, TypeOK, CallsOK
<1>2. ASSUME NEW c \in Call, NEW s \in Session, ChangeBegin(c, s) PROVE RowsOK'
  BY <1>2 DEF ChangeBegin, Start, RowsOK, TypeOK, CallsOK
<1>3. ASSUME NEW c \in Call, NEW s \in Session, JwtBegin(c, s) PROVE RowsOK'
  BY <1>3 DEF JwtBegin, Start, RowsOK, TypeOK, CallsOK
<1>4. ASSUME NEW c \in Call, NEW s \in Session, NEW i \in Session, DeleteBegin(c, s, i) PROVE RowsOK'
  BY <1>4 DEF DeleteBegin, Start, RowsOK, TypeOK, CallsOK
<1>5. ASSUME NEW c \in Call, NEW r \in Reset, ConfirmBegin(c, r) PROVE RowsOK'
  BY <1>5 DEF ConfirmBegin, Start, RowsOK, TypeOK, CallsOK
<1>6. ASSUME NEW c \in Call, NEW t \in Token, RefreshBegin(c, t) PROVE RowsOK'
  BY <1>6 DEF RefreshBegin, Start, RowsOK, TypeOK, CallsOK
<1>7. ASSUME NEW c \in Call, LoginIssue(c) PROVE RowsOK'
  BY <1>7 DEF LoginIssue, Return, AddSession, Sweeping, RowsOK, TypeOK, CallsOK
<1>8. ASSUME NEW c \in Call, ChangeVerify(c) PROVE RowsOK'
  BY <1>8 DEF ChangeVerify, Finish, Return, RowsOK, TypeOK, CallsOK
<1>9. ASSUME NEW c \in Call, ChangeUpdate(c) PROVE RowsOK'
  BY <1>9 DEF ChangeUpdate, SetPassword, RowsOK, TypeOK, CallsOK
<1>10. ASSUME NEW c \in Call, ConfirmClaim(c) PROVE RowsOK'
  BY <1>10 DEF ConfirmClaim, Goto, Finish, Return, RowsOK, TypeOK, CallsOK
<1>11. ASSUME NEW c \in Call, ConfirmApply(c) PROVE RowsOK'
  BY <1>11 DEF ConfirmApply, SetPassword, RowsOK, TypeOK, CallsOK
<1>12. ASSUME NEW c \in Call, RevokeList(c) PROVE RowsOK'
  BY <1>12 DEF RevokeList, SessionsOf, RowsOK, TypeOK, CallsOK
<1>13. ASSUME NEW c \in Call, RevokeSession(c) PROVE RowsOK'
  BY <1>13 DEF RevokeSession, RowsOK, TypeOK, CallsOK
<1>14. ASSUME NEW c \in Call, RevokeSessionsDone(c) PROVE RowsOK'
  BY <1>14 DEF RevokeSessionsDone, Goto, RowsOK, TypeOK, CallsOK
<1>15. ASSUME NEW c \in Call, ChangeLookup(c) PROVE RowsOK'
  BY <1>15 DEF ChangeLookup, Goto, Finish, Return, RowsOK, TypeOK, CallsOK
<1>16. ASSUME NEW c \in Call, ChangeReissue(c) PROVE RowsOK'
  BY <1>16 DEF ChangeReissue, Goto, AddSession, Sweeping, Finish, Return, RowsOK, TypeOK, CallsOK
<1>17. ASSUME NEW c \in Call, RevokeTokensScan(c) PROVE RowsOK'
  BY <1>17 DEF RevokeTokensScan, RowsOK
<1>18. ASSUME NEW c \in Call, RevokeTokensFails(c) PROVE RowsOK'
  BY <1>18 DEF RevokeTokensFails, Finish, Return, RowsOK, TypeOK, CallsOK
<1>19. ASSUME NEW c \in Call, DeleteRetrieve(c) PROVE RowsOK'
  BY <1>19 DEF DeleteRetrieve, SessionsOf, Goto, Finish, Return, RowsOK, TypeOK, CallsOK
<1>20. ASSUME NEW c \in Call, DeleteRemove(c) PROVE RowsOK'
  BY <1>20 DEF DeleteRemove, Finish, Return, RowsOK, TypeOK, CallsOK
<1>21. ASSUME NEW c \in Call, JwtMint(c) PROVE RowsOK'
  BY <1>21 DEF JwtMint, AddToken, Return, RowsOK, TypeOK, CallsOK
<1>22. ASSUME NEW c \in Call, RefreshCommit(c) PROVE RowsOK'
  BY <1>22 DEF RefreshCommit, AddToken, Return, RowsOK, TypeOK, CallsOK
<1>23. ASSUME NEW c \in Call, Abort(c) PROVE RowsOK'
  BY <1>23 DEF Abort, Finish, Return, RowsOK, TypeOK, CallsOK
<1>24. ASSUME NEW u \in User, RequestReset(u) PROVE RowsOK'
  BY <1>24 DEF RequestReset, RowsOK, TypeOK, CallsOK
<1>25. ASSUME NEW s \in Session, Logout(s) PROVE RowsOK'
  BY <1>25 DEF Logout, RowsOK, TypeOK, CallsOK
<1>26. ASSUME NEW t \in Token, DropToken(t) PROVE RowsOK'
  BY <1>26 DEF DropToken, RowsOK, TypeOK, CallsOK
<1>27. ASSUME NEW r \in Reset, ExpireReset(r) PROVE RowsOK'
  BY <1>27 DEF ExpireReset, RowsOK, TypeOK, CallsOK
<1>28. CASE UNCHANGED vars
  BY <1>28 DEF vars, RowsOK, TypeOK, CallsOK
<1>29. ASSUME NEW c \in Call, RevokeTokensApply(c) PROVE RowsOK'
  BY <1>29 DEF RevokeTokensApply, Finish, Return, RowsOK, TypeOK, CallsOK
<1>30. ASSUME NEW s \in Session, AdminRemoveSession(s) PROVE RowsOK'
  BY <1>30 DEF AdminRemoveSession, RowsOK, TypeOK, CallsOK
<1>31. ASSUME NEW u \in User, RemoveUser(u) PROVE RowsOK'
  BY <1>31 DEF RemoveUser, SessionsOf, TokensOf, ResetsOf, RowsOK, TypeOK, CallsOK
<1> QED
  BY <1>1, <1>2, <1>3, <1>4, <1>5, <1>6, <1>7, <1>8, <1>9,
     <1>10, <1>11, <1>12, <1>13, <1>14, <1>15, <1>16, <1>17, <1>18,
     <1>19, <1>20, <1>21, <1>22, <1>23, <1>24, <1>25, <1>26, <1>27,
     <1>28, <1>29, <1>30, <1>31
  DEF Next, Request, Advance

(* The list holds all old sessions; those added later mark the rotation.    *)
LEMMA SweepOKStep ==
  SweepOK /\ TypeOK /\ CallsOK /\ RowsOK /\ [Next]_vars
    => SweepOK'
<1> SUFFICES ASSUME SweepOK, TypeOK, CallsOK, RowsOK, [Next]_vars
             PROVE  SweepOK'
  OBVIOUS
<1> USE NoneAssumption DEF userVars, sessVars, tokVars, resetVars, callVars, history
<1>1. ASSUME NEW c \in Call, NEW u \in User, PasswordLogin(c, u) PROVE SweepOK'
  BY <1>1 DEF PasswordLogin, Start, SweepOK, TypeOK, CallsOK, RowsOK, SessionsOf
<1>2. ASSUME NEW c \in Call, NEW s \in Session, ChangeBegin(c, s) PROVE SweepOK'
  BY <1>2 DEF ChangeBegin, Start, SweepOK, TypeOK, CallsOK, RowsOK, SessionsOf
<1>3. ASSUME NEW c \in Call, NEW s \in Session, JwtBegin(c, s) PROVE SweepOK'
  BY <1>3 DEF JwtBegin, Start, SweepOK, TypeOK, CallsOK, RowsOK, SessionsOf
<1>4. ASSUME NEW c \in Call, NEW s \in Session, NEW i \in Session, DeleteBegin(c, s, i) PROVE SweepOK'
  BY <1>4 DEF DeleteBegin, Start, SweepOK, TypeOK, CallsOK, RowsOK, SessionsOf
<1>5. ASSUME NEW c \in Call, NEW r \in Reset, ConfirmBegin(c, r) PROVE SweepOK'
  BY <1>5 DEF ConfirmBegin, Start, SweepOK, TypeOK, CallsOK, RowsOK, SessionsOf
<1>6. ASSUME NEW c \in Call, NEW t \in Token, RefreshBegin(c, t) PROVE SweepOK'
  BY <1>6 DEF RefreshBegin, Start, SweepOK, TypeOK, CallsOK, RowsOK, SessionsOf
<1>7. ASSUME NEW c \in Call, LoginIssue(c) PROVE SweepOK'
  BY <1>7 DEF LoginIssue, Return, AddSession, Sweeping, SweepOK, TypeOK, CallsOK, RowsOK, SessionsOf, Rotating
<1>8. ASSUME NEW c \in Call, ChangeVerify(c) PROVE SweepOK'
  BY <1>8 DEF ChangeVerify, Finish, Return, SweepOK, TypeOK, CallsOK, RowsOK, SessionsOf
<1>9. ASSUME NEW c \in Call, ChangeUpdate(c) PROVE SweepOK'
  <2>1. CASE usr[c] \in users /\ SetPassword(c)
    BY <1>9, <2>1 DEF ChangeUpdate, SetPassword, SweepOK, TypeOK, CallsOK, SessionsOf
  <2>2. CASE usr[c] \notin users /\ Goto(c, "list") /\ UNCHANGED <<userVars, changes>>
    BY <1>9, <2>2 DEF ChangeUpdate, Goto, SweepOK, TypeOK, SessionsOf
  <2> QED
    BY <1>9, <2>1, <2>2 DEF ChangeUpdate
<1>10. ASSUME NEW c \in Call, ConfirmClaim(c) PROVE SweepOK'
  BY <1>10 DEF ConfirmClaim, Goto, Finish, Return, SweepOK, TypeOK, CallsOK, RowsOK, SessionsOf
<1>11. ASSUME NEW c \in Call, ConfirmApply(c) PROVE SweepOK'
  BY <1>11 DEF ConfirmApply, SetPassword, SweepOK, TypeOK, CallsOK, RowsOK, SessionsOf
<1>12. ASSUME NEW c \in Call, RevokeList(c) PROVE SweepOK'
  BY <1>12 DEF RevokeList, SessionsOf, SweepOK, TypeOK, CallsOK, RowsOK, SessionsOf
<1>13. ASSUME NEW c \in Call, RevokeSession(c) PROVE SweepOK'
  BY <1>13 DEF RevokeSession, SweepOK, TypeOK, CallsOK, RowsOK, SessionsOf
<1>14. ASSUME NEW c \in Call, RevokeSessionsDone(c) PROVE SweepOK'
  BY <1>14 DEF RevokeSessionsDone, Goto, SweepOK, TypeOK, CallsOK, RowsOK, SessionsOf
<1>15. ASSUME NEW c \in Call, ChangeLookup(c) PROVE SweepOK'
  BY <1>15 DEF ChangeLookup, Goto, Finish, Return, SweepOK, TypeOK, CallsOK, RowsOK, SessionsOf
<1>16. ASSUME NEW c \in Call, ChangeReissue(c) PROVE SweepOK'
  BY <1>16 DEF ChangeReissue, Goto, AddSession, Sweeping, Finish, Return, SweepOK, TypeOK, CallsOK, RowsOK, SessionsOf, Rotating
<1>17. ASSUME NEW c \in Call, RevokeTokensScan(c) PROVE SweepOK'
  BY <1>17 DEF RevokeTokensScan, SweepOK, TypeOK, CallsOK, SessionsOf
<1>18. ASSUME NEW c \in Call, RevokeTokensFails(c) PROVE SweepOK'
  BY <1>18 DEF RevokeTokensFails, Finish, Return, SweepOK, TypeOK, CallsOK, RowsOK, SessionsOf
<1>19. ASSUME NEW c \in Call, DeleteRetrieve(c) PROVE SweepOK'
  BY <1>19 DEF DeleteRetrieve, SessionsOf, Goto, Finish, Return, SweepOK, TypeOK, CallsOK, RowsOK, SessionsOf
<1>20. ASSUME NEW c \in Call, DeleteRemove(c) PROVE SweepOK'
  BY <1>20 DEF DeleteRemove, Finish, Return, SweepOK, TypeOK, CallsOK, RowsOK, SessionsOf
<1>21. ASSUME NEW c \in Call, JwtMint(c) PROVE SweepOK'
  BY <1>21 DEF JwtMint, AddToken, Return, SweepOK, TypeOK, CallsOK, RowsOK, SessionsOf
<1>22. ASSUME NEW c \in Call, RefreshCommit(c) PROVE SweepOK'
  BY <1>22 DEF RefreshCommit, AddToken, Return, SweepOK, TypeOK, CallsOK, RowsOK, SessionsOf
<1>23. ASSUME NEW c \in Call, Abort(c) PROVE SweepOK'
  BY <1>23 DEF Abort, Finish, Return, SweepOK, TypeOK, CallsOK, RowsOK, SessionsOf
<1>24. ASSUME NEW u \in User, RequestReset(u) PROVE SweepOK'
  BY <1>24 DEF RequestReset, SweepOK, TypeOK, CallsOK, RowsOK, SessionsOf
<1>25. ASSUME NEW s \in Session, Logout(s) PROVE SweepOK'
  BY <1>25 DEF Logout, SweepOK, TypeOK, CallsOK, RowsOK, SessionsOf
<1>26. ASSUME NEW t \in Token, DropToken(t) PROVE SweepOK'
  BY <1>26 DEF DropToken, SweepOK, TypeOK, CallsOK, RowsOK, SessionsOf
<1>27. ASSUME NEW r \in Reset, ExpireReset(r) PROVE SweepOK'
  BY <1>27 DEF ExpireReset, SweepOK, TypeOK, CallsOK, RowsOK, SessionsOf
<1>28. CASE UNCHANGED vars
  BY <1>28 DEF vars, SweepOK, TypeOK, CallsOK, RowsOK, SessionsOf
<1>29. ASSUME NEW c \in Call, RevokeTokensApply(c) PROVE SweepOK'
  BY <1>29 DEF RevokeTokensApply, Finish, Return, SweepOK, TypeOK, CallsOK, SessionsOf
<1>30. ASSUME NEW s \in Session, AdminRemoveSession(s) PROVE SweepOK'
  BY <1>30 DEF AdminRemoveSession, SweepOK, TypeOK, CallsOK, RowsOK, SessionsOf
<1>31. ASSUME NEW u \in User, RemoveUser(u) PROVE SweepOK'
  BY <1>31 DEF RemoveUser, TokensOf, ResetsOf, SweepOK, TypeOK, CallsOK, RowsOK, SessionsOf
<1> QED
  BY <1>1, <1>2, <1>3, <1>4, <1>5, <1>6, <1>7, <1>8, <1>9,
     <1>10, <1>11, <1>12, <1>13, <1>14, <1>15, <1>16, <1>17, <1>18,
     <1>19, <1>20, <1>21, <1>22, <1>23, <1>24, <1>25, <1>26, <1>27,
     <1>28, <1>29, <1>30, <1>31
  DEF Next, Request, Advance

(* The scan finds all old tokens; those added later mark the rotation.       *)
LEMMA CloseOKStep ==
  CloseOK /\ TypeOK /\ CallsOK /\ RowsOK /\ [Next]_vars
    => CloseOK'
<1> SUFFICES ASSUME CloseOK, TypeOK, CallsOK, RowsOK, [Next]_vars
             PROVE  CloseOK'
  OBVIOUS
<1> USE NoneAssumption DEF userVars, sessVars, tokVars, resetVars, callVars, history
<1>1. ASSUME NEW c \in Call, NEW u \in User, PasswordLogin(c, u) PROVE CloseOK'
  BY <1>1 DEF PasswordLogin, Start, CloseOK, TypeOK, CallsOK, RowsOK, TokensOf
<1>2. ASSUME NEW c \in Call, NEW s \in Session, ChangeBegin(c, s) PROVE CloseOK'
  BY <1>2 DEF ChangeBegin, Start, CloseOK, TypeOK, CallsOK, RowsOK, TokensOf
<1>3. ASSUME NEW c \in Call, NEW s \in Session, JwtBegin(c, s) PROVE CloseOK'
  BY <1>3 DEF JwtBegin, Start, CloseOK, TypeOK, CallsOK, RowsOK, TokensOf
<1>4. ASSUME NEW c \in Call, NEW s \in Session, NEW i \in Session, DeleteBegin(c, s, i) PROVE CloseOK'
  BY <1>4 DEF DeleteBegin, Start, CloseOK, TypeOK, CallsOK, RowsOK, TokensOf
<1>5. ASSUME NEW c \in Call, NEW r \in Reset, ConfirmBegin(c, r) PROVE CloseOK'
  BY <1>5 DEF ConfirmBegin, Start, CloseOK, TypeOK, CallsOK, RowsOK, TokensOf
<1>6. ASSUME NEW c \in Call, NEW t \in Token, RefreshBegin(c, t) PROVE CloseOK'
  BY <1>6 DEF RefreshBegin, Start, CloseOK, TypeOK, CallsOK, RowsOK, TokensOf
<1>7. ASSUME NEW c \in Call, LoginIssue(c) PROVE CloseOK'
  BY <1>7 DEF LoginIssue, Return, AddSession, Sweeping, CloseOK, TypeOK, CallsOK, RowsOK, TokensOf
<1>8. ASSUME NEW c \in Call, ChangeVerify(c) PROVE CloseOK'
  BY <1>8 DEF ChangeVerify, Finish, Return, CloseOK, TypeOK, CallsOK, RowsOK, TokensOf
<1>9. ASSUME NEW c \in Call, ChangeUpdate(c) PROVE CloseOK'
  <2>1. CASE usr[c] \in users /\ SetPassword(c)
    BY <1>9, <2>1 DEF ChangeUpdate, SetPassword, CloseOK, TypeOK, CallsOK, TokensOf
  <2>2. CASE usr[c] \notin users /\ Goto(c, "list") /\ UNCHANGED <<userVars, changes>>
    BY <1>9, <2>2 DEF ChangeUpdate, Goto, CloseOK, TypeOK, TokensOf
  <2> QED
    BY <1>9, <2>1, <2>2 DEF ChangeUpdate
<1>10. ASSUME NEW c \in Call, ConfirmClaim(c) PROVE CloseOK'
  BY <1>10 DEF ConfirmClaim, Goto, Finish, Return, CloseOK, TypeOK, CallsOK, RowsOK, TokensOf
<1>11. ASSUME NEW c \in Call, ConfirmApply(c) PROVE CloseOK'
  BY <1>11 DEF ConfirmApply, SetPassword, CloseOK, TypeOK, CallsOK, RowsOK, TokensOf
<1>12. ASSUME NEW c \in Call, RevokeList(c) PROVE CloseOK'
  BY <1>12 DEF RevokeList, CloseOK, TypeOK, CallsOK, RowsOK, TokensOf
<1>13. ASSUME NEW c \in Call, RevokeSession(c) PROVE CloseOK'
  BY <1>13 DEF RevokeSession, CloseOK, TypeOK, CallsOK, RowsOK, TokensOf
<1>14. ASSUME NEW c \in Call, RevokeSessionsDone(c) PROVE CloseOK'
  BY <1>14 DEF RevokeSessionsDone, Goto, CloseOK, TypeOK, CallsOK, RowsOK, TokensOf
<1>15. ASSUME NEW c \in Call, ChangeLookup(c) PROVE CloseOK'
  BY <1>15 DEF ChangeLookup, Goto, Finish, Return, CloseOK, TypeOK, CallsOK, RowsOK, TokensOf
<1>16. ASSUME NEW c \in Call, ChangeReissue(c) PROVE CloseOK'
  BY <1>16 DEF ChangeReissue, Goto, AddSession, Sweeping, Finish, Return, CloseOK, TypeOK, CallsOK, RowsOK, TokensOf
<1>17. ASSUME NEW c \in Call, RevokeTokensScan(c) PROVE CloseOK'
  BY <1>17 DEF RevokeTokensScan, CloseOK, TypeOK, CallsOK, TokensOf
<1>18. ASSUME NEW c \in Call, RevokeTokensFails(c) PROVE CloseOK'
  BY <1>18 DEF RevokeTokensFails, Finish, Return, CloseOK, TypeOK, CallsOK, RowsOK, TokensOf
<1>19. ASSUME NEW c \in Call, DeleteRetrieve(c) PROVE CloseOK'
  BY <1>19 DEF DeleteRetrieve, TokensOf, Goto, Finish, Return, CloseOK, TypeOK, CallsOK, RowsOK, TokensOf
<1>20. ASSUME NEW c \in Call, DeleteRemove(c) PROVE CloseOK'
  BY <1>20 DEF DeleteRemove, Finish, Return, CloseOK, TypeOK, CallsOK, RowsOK, TokensOf
<1>21. ASSUME NEW c \in Call, JwtMint(c) PROVE CloseOK'
  BY <1>21 DEF JwtMint, AddToken, Closing, Return, CloseOK, TypeOK, CallsOK, RowsOK, TokensOf
<1>22. ASSUME NEW c \in Call, RefreshCommit(c) PROVE CloseOK'
  BY <1>22 DEF RefreshCommit, AddToken, Closing, Return, CloseOK, TypeOK, CallsOK, RowsOK, TokensOf
<1>23. ASSUME NEW c \in Call, Abort(c) PROVE CloseOK'
  BY <1>23 DEF Abort, Finish, Return, CloseOK, TypeOK, CallsOK, RowsOK, TokensOf
<1>24. ASSUME NEW u \in User, RequestReset(u) PROVE CloseOK'
  BY <1>24 DEF RequestReset, CloseOK, TypeOK, CallsOK, RowsOK, TokensOf
<1>25. ASSUME NEW s \in Session, Logout(s) PROVE CloseOK'
  BY <1>25 DEF Logout, CloseOK, TypeOK, CallsOK, RowsOK, TokensOf
<1>26. ASSUME NEW t \in Token, DropToken(t) PROVE CloseOK'
  BY <1>26 DEF DropToken, CloseOK, TypeOK, CallsOK, RowsOK, TokensOf
<1>27. ASSUME NEW r \in Reset, ExpireReset(r) PROVE CloseOK'
  BY <1>27 DEF ExpireReset, CloseOK, TypeOK, CallsOK, RowsOK, TokensOf
<1>28. CASE UNCHANGED vars
  BY <1>28 DEF vars, CloseOK, TypeOK, CallsOK, RowsOK, TokensOf
<1>29. ASSUME NEW c \in Call, RevokeTokensApply(c) PROVE CloseOK'
  BY <1>29 DEF RevokeTokensApply, Finish, Return, CloseOK, TypeOK, CallsOK, TokensOf
<1>30. ASSUME NEW s \in Session, AdminRemoveSession(s) PROVE CloseOK'
  BY <1>30 DEF AdminRemoveSession, CloseOK, TypeOK, CallsOK, RowsOK, TokensOf
<1>31. ASSUME NEW u \in User, RemoveUser(u) PROVE CloseOK'
  BY <1>31 DEF RemoveUser, SessionsOf, ResetsOf, CloseOK, TypeOK, CallsOK, RowsOK, TokensOf
<1> QED
  BY <1>1, <1>2, <1>3, <1>4, <1>5, <1>6, <1>7, <1>8, <1>9,
     <1>10, <1>11, <1>12, <1>13, <1>14, <1>15, <1>16, <1>17, <1>18,
     <1>19, <1>20, <1>21, <1>22, <1>23, <1>24, <1>25, <1>26, <1>27,
     <1>28, <1>29, <1>30, <1>31
  DEF Next, Request, Advance

(* The claim of a reset and the write it pays for commit together.          *)
LEMMA PaidOKStep ==
  PaidOK /\ TypeOK /\ CallsOK /\ RowsOK /\ [Next]_vars
    => PaidOK'
<1> SUFFICES ASSUME PaidOK, TypeOK, CallsOK, RowsOK, [Next]_vars
             PROVE  PaidOK'
  OBVIOUS
<1> USE NoneAssumption DEF userVars, sessVars, tokVars, resetVars, callVars, history
<1>1. ASSUME NEW c \in Call, NEW u \in User, PasswordLogin(c, u) PROVE PaidOK'
  BY <1>1, PaidFrame DEF PasswordLogin, Start
<1>2. ASSUME NEW c \in Call, NEW s \in Session, ChangeBegin(c, s) PROVE PaidOK'
  BY <1>2, PaidFrame DEF ChangeBegin, Start
<1>3. ASSUME NEW c \in Call, NEW s \in Session, JwtBegin(c, s) PROVE PaidOK'
  BY <1>3, PaidFrame DEF JwtBegin, Start
<1>4. ASSUME NEW c \in Call, NEW s \in Session, NEW i \in Session, DeleteBegin(c, s, i) PROVE PaidOK'
  BY <1>4, PaidFrame DEF DeleteBegin, Start
<1>5. ASSUME NEW c \in Call, NEW r \in Reset, ConfirmBegin(c, r) PROVE PaidOK'
  BY <1>5, PaidFrame DEF ConfirmBegin, Start
<1>6. ASSUME NEW c \in Call, NEW t \in Token, RefreshBegin(c, t) PROVE PaidOK'
  BY <1>6, PaidFrame DEF RefreshBegin, Start
<1>7. ASSUME NEW c \in Call, LoginIssue(c) PROVE PaidOK'
  BY <1>7, PaidFrame DEF LoginIssue, AddSession
<1>8. ASSUME NEW c \in Call, ChangeVerify(c) PROVE PaidOK'
  BY <1>8, PaidFrame DEF ChangeVerify, Finish
<1>9. ASSUME NEW c \in Call, ChangeUpdate(c) PROVE PaidOK'
  <2>1. CASE usr[c] \in users /\ SetPassword(c)
    <3>1. /\ UNCHANGED <<users, used, rUser>>
          /\ gen' = [gen EXCEPT ![usr[c]] = gen[usr[c]] + 1]
      BY <1>9, <2>1 DEF ChangeUpdate, SetPassword
    <3>2. changes' = [changes EXCEPT ![usr[c]] = changes[usr[c]] + 1]
      BY <1>9, <2>1 DEF ChangeUpdate
    <3>3. \A w \in users : /\ gen[w] \in Nat /\ changes[w] \in Nat
                          /\ Cardinality(Spent(w)) \in Nat
                          /\ gen[w] = changes[w] + Cardinality(Spent(w))
      BY SpentFinite DEF PaidOK, PasswordWritesAccounted, Spent, TypeOK
    <3>4. \A w \in users : gen'[w] = changes'[w] + Cardinality(Spent(w))
      BY <3>1, <3>2, <3>3 DEF TypeOK
    <3> QED
      BY <3>1, <3>4 DEF PaidOK, PasswordWritesAccounted, Spent
  <2>2. CASE usr[c] \notin users /\ Goto(c, "list") /\ UNCHANGED <<userVars, changes>>
    BY <1>9, <2>2, PaidFrame DEF ChangeUpdate
  <2> QED
    BY <1>9, <2>1, <2>2 DEF ChangeUpdate
<1>10. ASSUME NEW c \in Call, ConfirmClaim(c) PROVE PaidOK'
  BY <1>10, PaidFrame DEF ConfirmClaim, Goto, Finish
<1>11. ASSUME NEW c \in Call, ConfirmApply(c) PROVE PaidOK'
  <2> DEFINE r == item[c]
  <2>1. /\ UNCHANGED <<changes, rUser>>
        /\ users' = users /\ users \subseteq User
        /\ usr[c] \in User /\ rUser[r] = usr[c] /\ r \notin used
        /\ gen' = [gen EXCEPT ![usr[c]] = gen[usr[c]] + 1]
        /\ used' = used \cup {r}
    BY <1>11 DEF ConfirmApply, SetPassword, CallsOK, RowsOK, TypeOK
  <2>2. IsFiniteSet(used')
    BY <2>1, FS_AddElement DEF PaidOK
  <2>3. /\ {q \in used' : rUser'[q] = usr[c]} = Spent(usr[c]) \cup {r}
        /\ r \notin Spent(usr[c])
        /\ \A w \in User \ {usr[c]} : {q \in used' : rUser'[q] = w} = Spent(w)
    BY <2>1 DEF Spent
  <2>4. \A w \in User : IsFiniteSet(Spent(w)) /\ Cardinality(Spent(w)) \in Nat
    BY SpentFinite
  <2>5. Cardinality(Spent(usr[c]) \cup {r}) = Cardinality(Spent(usr[c])) + 1
    BY <2>1, <2>3, <2>4, FS_AddElement
  <2>6. ASSUME NEW w \in users
        PROVE  gen'[w] = changes'[w] + Cardinality({q \in used' : rUser'[q] = w})
    <3>1. gen[w] = changes[w] + Cardinality(Spent(w))
      BY DEF PaidOK, PasswordWritesAccounted, Spent
    <3>2. CASE w = usr[c]
      <4>1. {q \in used' : rUser'[q] = w} = Spent(usr[c]) \cup {r}
        BY <3>2, <2>3
      <4>2. gen'[w] = gen[w] + 1 /\ changes'[w] = changes[w]
        BY <3>2, <2>1 DEF TypeOK
      <4>3. /\ gen[w] \in Nat /\ changes[w] \in Nat
            /\ Cardinality(Spent(usr[c])) \in Nat
        BY <2>1, <2>4 DEF TypeOK
      <4> HIDE DEF r
      <4>4. Cardinality({q \in used' : rUser'[q] = w}) = Cardinality(Spent(usr[c])) + 1
        BY <4>1, <2>5
      <4>5. gen[w] = changes[w] + Cardinality(Spent(usr[c]))
        BY <3>1, <3>2
      <4> QED
        BY <4>2, <4>3, <4>4, <4>5
    <3>3. CASE w # usr[c]
      BY <3>1, <3>3, <2>1, <2>3 DEF TypeOK
    <3> QED
      BY <3>2, <3>3
  <2> HIDE DEF r
  <2> QED
    BY <2>1, <2>2, <2>6 DEF PaidOK, PasswordWritesAccounted
<1>12. ASSUME NEW c \in Call, RevokeList(c) PROVE PaidOK'
  BY <1>12, PaidFrame DEF RevokeList
<1>13. ASSUME NEW c \in Call, RevokeSession(c) PROVE PaidOK'
  BY <1>13, PaidFrame DEF RevokeSession
<1>14. ASSUME NEW c \in Call, RevokeSessionsDone(c) PROVE PaidOK'
  BY <1>14, PaidFrame DEF RevokeSessionsDone, Goto
<1>15. ASSUME NEW c \in Call, ChangeLookup(c) PROVE PaidOK'
  BY <1>15, PaidFrame DEF ChangeLookup, Goto, Finish
<1>16. ASSUME NEW c \in Call, ChangeReissue(c) PROVE PaidOK'
  BY <1>16, PaidFrame DEF ChangeReissue, Goto, AddSession, Finish
<1>17. ASSUME NEW c \in Call, RevokeTokensScan(c) PROVE PaidOK'
  BY <1>17, PaidFrame DEF RevokeTokensScan
<1>18. ASSUME NEW c \in Call, RevokeTokensFails(c) PROVE PaidOK'
  BY <1>18, PaidFrame DEF RevokeTokensFails, Finish
<1>19. ASSUME NEW c \in Call, DeleteRetrieve(c) PROVE PaidOK'
  BY <1>19, PaidFrame DEF DeleteRetrieve, Goto, Finish
<1>20. ASSUME NEW c \in Call, DeleteRemove(c) PROVE PaidOK'
  BY <1>20, PaidFrame DEF DeleteRemove, Finish
<1>21. ASSUME NEW c \in Call, JwtMint(c) PROVE PaidOK'
  BY <1>21, PaidFrame DEF JwtMint, AddToken
<1>22. ASSUME NEW c \in Call, RefreshCommit(c) PROVE PaidOK'
  BY <1>22, PaidFrame DEF RefreshCommit, AddToken
<1>23. ASSUME NEW c \in Call, Abort(c) PROVE PaidOK'
  BY <1>23, PaidFrame DEF Abort, Finish
<1>24. ASSUME NEW u \in User, RequestReset(u) PROVE PaidOK'
  <2>1. /\ UNCHANGED <<users, gen, changes, used>>
        /\ \A r \in used : rUser'[r] = rUser[r]
    BY <1>24 DEF RequestReset, TypeOK, RowsOK
  <2>2. \A w \in User : {r \in used : rUser'[r] = w} = Spent(w)
    BY <2>1 DEF Spent
  <2> QED
    BY <2>1, <2>2 DEF PaidOK, PasswordWritesAccounted, Spent
<1>25. ASSUME NEW s \in Session, Logout(s) PROVE PaidOK'
  BY <1>25, PaidFrame DEF Logout
<1>26. ASSUME NEW t \in Token, DropToken(t) PROVE PaidOK'
  BY <1>26, PaidFrame DEF DropToken
<1>27. ASSUME NEW r \in Reset, ExpireReset(r) PROVE PaidOK'
  BY <1>27, PaidFrame DEF ExpireReset
<1>28. CASE UNCHANGED vars
  BY <1>28, PaidFrame DEF vars
<1>29. ASSUME NEW c \in Call, RevokeTokensApply(c) PROVE PaidOK'
  BY <1>29, PaidFrame DEF RevokeTokensApply, Finish
<1>30. ASSUME NEW s \in Session, AdminRemoveSession(s) PROVE PaidOK'
  BY <1>30, PaidFrame DEF AdminRemoveSession
<1>31. ASSUME NEW u \in User, RemoveUser(u) PROVE PaidOK'
  <2>1. UNCHANGED <<gen, changes, rUser>> /\ users' = users \ {u}
        /\ used' = used \ ResetsOf(u)
    BY <1>31 DEF RemoveUser
  <2>2. IsFiniteSet(used')
    BY <2>1, FS_Subset DEF PaidOK
  <2>3. \A w \in users' : {r \in used' : rUser'[r] = w} = Spent(w)
    BY <2>1 DEF Spent, ResetsOf, TypeOK
  <2> QED
    BY <2>1, <2>2, <2>3 DEF PaidOK, PasswordWritesAccounted, Spent
<1> QED
  BY <1>1, <1>2, <1>3, <1>4, <1>5, <1>6, <1>7, <1>8, <1>9,
     <1>10, <1>11, <1>12, <1>13, <1>14, <1>15, <1>16, <1>17, <1>18,
     <1>19, <1>20, <1>21, <1>22, <1>23, <1>24, <1>25, <1>26, <1>27,
     <1>28, <1>29, <1>30, <1>31
  DEF Next, Request, Advance

(* No call brings back an old password: what it adds is no older than it is. *)
LEMMA CleanKeptStep ==
  TypeOK /\ CallsOK /\ RowsOK /\ [Next]_vars
    => CleanKept
<1> SUFFICES ASSUME TypeOK, CallsOK, RowsOK, [Next]_vars
             PROVE  CleanKept
  OBVIOUS
<1> USE NoneAssumption DEF userVars, sessVars, tokVars, resetVars, callVars, history
<1>1. ASSUME NEW c \in Call, NEW u \in User, PasswordLogin(c, u) PROVE CleanKept
  BY <1>1 DEF PasswordLogin, Start, CleanKept, Clean, SessionsOf, TokensOf, StaleInFlight, TypeOK, CallsOK, RowsOK
<1>2. ASSUME NEW c \in Call, NEW s \in Session, ChangeBegin(c, s) PROVE CleanKept
  BY <1>2 DEF ChangeBegin, Start, CleanKept, Clean, SessionsOf, TokensOf, StaleInFlight, TypeOK, CallsOK, RowsOK
<1>3. ASSUME NEW c \in Call, NEW s \in Session, JwtBegin(c, s) PROVE CleanKept
  BY <1>3 DEF JwtBegin, Start, CleanKept, Clean, SessionsOf, TokensOf, StaleInFlight, TypeOK, CallsOK, RowsOK
<1>4. ASSUME NEW c \in Call, NEW s \in Session, NEW i \in Session, DeleteBegin(c, s, i) PROVE CleanKept
  BY <1>4 DEF DeleteBegin, Start, CleanKept, Clean, SessionsOf, TokensOf, StaleInFlight, TypeOK, CallsOK, RowsOK
<1>5. ASSUME NEW c \in Call, NEW r \in Reset, ConfirmBegin(c, r) PROVE CleanKept
  BY <1>5 DEF ConfirmBegin, Start, CleanKept, Clean, SessionsOf, TokensOf, StaleInFlight, TypeOK, CallsOK, RowsOK
<1>6. ASSUME NEW c \in Call, NEW t \in Token, RefreshBegin(c, t) PROVE CleanKept
  BY <1>6 DEF RefreshBegin, Start, CleanKept, Clean, SessionsOf, TokensOf, StaleInFlight, TypeOK, CallsOK, RowsOK
<1>7. ASSUME NEW c \in Call, LoginIssue(c) PROVE CleanKept
  <2> SUFFICES ASSUME NEW u \in User, Clean(u), gen'[u] = gen[u] PROVE Clean(u)'
    BY DEF CleanKept
  <2> PICK s \in Session :
        /\ sUser[s] = None
        /\ sessions' = sessions \cup {s}
        /\ sUser' = [sUser EXCEPT ![s] = usr[c]]
        /\ sGen' = [sGen EXCEPT ![s] = g[c]]
    BY <1>7 DEF LoginIssue, AddSession
  <2>1. ASSUME usr[c] = u PROVE g[c] = gen[u]
    <3>1. pc[c] = "issue" /\ usr[c] \in users
      BY <1>7 DEF LoginIssue, AddSession
    <3>2. c \notin StaleInFlight(u)
      BY DEF Clean
    <3>3. g[c] <= gen[u] /\ g[c] \in Nat /\ gen[u] \in Nat
      BY <2>1, <3>1 DEF CallsOK, TypeOK
    <3> QED
      BY <2>1, <3>1, <3>2, <3>3 DEF StaleInFlight
  <2>2. \A q \in SessionsOf(u)' : sGen'[q] = gen'[u]
    BY <2>1 DEF SessionsOf, Clean, TypeOK
  <2>3. \A t \in TokensOf(u)' : tGen'[t] = gen'[u]
    BY <1>7 DEF LoginIssue, TokensOf, Clean
  <2>4. StaleInFlight(u)' = {}
    BY <1>7 DEF LoginIssue, Return, StaleInFlight, Clean, TypeOK
  <2> QED
    BY <2>2, <2>3, <2>4 DEF Clean
<1>8. ASSUME NEW c \in Call, ChangeVerify(c) PROVE CleanKept
  BY <1>8 DEF ChangeVerify, Finish, Return, CleanKept, Clean, SessionsOf, TokensOf, StaleInFlight, TypeOK, CallsOK, RowsOK
<1>9. ASSUME NEW c \in Call, ChangeUpdate(c) PROVE CleanKept
  <2>1. CASE usr[c] \in users /\ SetPassword(c)
    BY <1>9, <2>1 DEF ChangeUpdate, SetPassword, CleanKept, Clean, SessionsOf, TokensOf, StaleInFlight, TypeOK, CallsOK
  <2>2. CASE usr[c] \notin users /\ Goto(c, "list") /\ UNCHANGED <<userVars, changes>>
    BY <1>9, <2>2 DEF ChangeUpdate, Goto, CleanKept, Clean, SessionsOf, TokensOf, StaleInFlight, TypeOK
  <2> QED
    BY <1>9, <2>1, <2>2 DEF ChangeUpdate
<1>10. ASSUME NEW c \in Call, ConfirmClaim(c) PROVE CleanKept
  BY <1>10 DEF ConfirmClaim, Goto, Finish, Return, CleanKept, Clean, SessionsOf, TokensOf, StaleInFlight, TypeOK, CallsOK, RowsOK
<1>11. ASSUME NEW c \in Call, ConfirmApply(c) PROVE CleanKept
  BY <1>11 DEF ConfirmApply, SetPassword, CleanKept, Clean, SessionsOf, TokensOf, StaleInFlight, TypeOK, CallsOK, RowsOK
<1>12. ASSUME NEW c \in Call, RevokeList(c) PROVE CleanKept
  BY <1>12 DEF RevokeList, SessionsOf, CleanKept, Clean, SessionsOf, TokensOf, StaleInFlight, TypeOK, CallsOK, RowsOK
<1>13. ASSUME NEW c \in Call, RevokeSession(c) PROVE CleanKept
  BY <1>13 DEF RevokeSession, CleanKept, Clean, SessionsOf, TokensOf, StaleInFlight, TypeOK, CallsOK, RowsOK
<1>14. ASSUME NEW c \in Call, RevokeSessionsDone(c) PROVE CleanKept
  BY <1>14 DEF RevokeSessionsDone, Goto, CleanKept, Clean, SessionsOf, TokensOf, StaleInFlight, TypeOK, CallsOK, RowsOK
<1>15. ASSUME NEW c \in Call, ChangeLookup(c) PROVE CleanKept
  BY <1>15 DEF ChangeLookup, Goto, Finish, Return, CleanKept, Clean, SessionsOf, TokensOf, StaleInFlight, TypeOK, CallsOK, RowsOK
<1>16. ASSUME NEW c \in Call, ChangeReissue(c) PROVE CleanKept
  <2>1. CASE Finish(c) /\ UNCHANGED sessVars
    BY <1>16, <2>1 DEF ChangeReissue, Finish, Return, CleanKept, Clean, SessionsOf,
                       TokensOf, StaleInFlight, TypeOK
  <2>2. CASE Goto(c, "revoke") /\ AddSession(c)
    <3> SUFFICES ASSUME NEW u \in User, Clean(u), gen'[u] = gen[u] PROVE Clean(u)'
      BY DEF CleanKept
    <3> PICK s \in Session :
          /\ sUser[s] = None
          /\ sessions' = sessions \cup {s}
          /\ sUser' = [sUser EXCEPT ![s] = usr[c]]
          /\ sGen' = [sGen EXCEPT ![s] = g[c]]
      BY <2>2 DEF AddSession
    <3>1. ASSUME usr[c] = u PROVE g[c] = gen[u]
      <4>1. pc[c] = "reissue" /\ usr[c] \in users
        BY <1>16, <2>2 DEF ChangeReissue, AddSession
      <4>2. c \notin StaleInFlight(u)
        BY DEF Clean
      <4>3. g[c] <= gen[u] /\ g[c] \in Nat /\ gen[u] \in Nat
        BY <3>1, <4>1 DEF CallsOK, TypeOK
      <4> QED
        BY <3>1, <4>1, <4>2, <4>3 DEF StaleInFlight
    <3>2. \A q \in SessionsOf(u)' : sGen'[q] = gen'[u]
      BY <3>1 DEF SessionsOf, Clean, TypeOK
    <3>3. \A t \in TokensOf(u)' : tGen'[t] = gen'[u]
      BY <1>16 DEF ChangeReissue, TokensOf, Clean
    <3>4. StaleInFlight(u)' = {}
      BY <1>16, <2>2 DEF ChangeReissue, Goto, StaleInFlight, Clean, TypeOK
    <3> QED
      BY <3>2, <3>3, <3>4 DEF Clean
  <2> QED
    BY <1>16, <2>1, <2>2 DEF ChangeReissue
<1>17. ASSUME NEW c \in Call, RevokeTokensScan(c) PROVE CleanKept
  BY <1>17 DEF RevokeTokensScan, CleanKept, Clean, SessionsOf, TokensOf, StaleInFlight, TypeOK
<1>18. ASSUME NEW c \in Call, RevokeTokensFails(c) PROVE CleanKept
  BY <1>18 DEF RevokeTokensFails, Finish, Return, CleanKept, Clean, SessionsOf, TokensOf, StaleInFlight, TypeOK, CallsOK, RowsOK
<1>19. ASSUME NEW c \in Call, DeleteRetrieve(c) PROVE CleanKept
  BY <1>19 DEF DeleteRetrieve, SessionsOf, Goto, Finish, Return, CleanKept, Clean, SessionsOf, TokensOf, StaleInFlight, TypeOK, CallsOK, RowsOK
<1>20. ASSUME NEW c \in Call, DeleteRemove(c) PROVE CleanKept
  BY <1>20 DEF DeleteRemove, Finish, Return, CleanKept, Clean, SessionsOf, TokensOf, StaleInFlight, TypeOK, CallsOK, RowsOK
<1>21. ASSUME NEW c \in Call, JwtMint(c) PROVE CleanKept
  <2> SUFFICES ASSUME NEW u \in User, Clean(u), gen'[u] = gen[u] PROVE Clean(u)'
    BY DEF CleanKept
  <2> PICK t \in Token :
        /\ tUser[t] = None
        /\ tokens' = (tokens \ {}) \cup {t}
        /\ tUser' = [tUser EXCEPT ![t] = usr[c]]
        /\ tGen' = [tGen EXCEPT ![t] = g[c]]
    BY <1>21 DEF JwtMint, AddToken
  <2>1. ASSUME usr[c] = u PROVE g[c] = gen[u]
    <3>1. pc[c] = "mint" /\ usr[c] \in users
      BY <1>21 DEF JwtMint, AddToken
    <3>2. c \notin StaleInFlight(u)
      BY DEF Clean
    <3>3. g[c] <= gen[u] /\ g[c] \in Nat /\ gen[u] \in Nat
      BY <2>1, <3>1 DEF CallsOK, TypeOK
    <3> QED
      BY <2>1, <3>1, <3>2, <3>3 DEF StaleInFlight
  <2>2. \A q \in TokensOf(u)' : tGen'[q] = gen'[u]
    BY <2>1 DEF TokensOf, Clean, TypeOK
  <2>3. \A s \in SessionsOf(u)' : sGen'[s] = gen'[u]
    BY <1>21 DEF JwtMint, SessionsOf, Clean
  <2>4. StaleInFlight(u)' = {}
    BY <1>21 DEF JwtMint, Return, StaleInFlight, Clean, TypeOK
  <2> QED
    BY <2>2, <2>3, <2>4 DEF Clean
<1>22. ASSUME NEW c \in Call, RefreshCommit(c) PROVE CleanKept
  <2> SUFFICES ASSUME NEW u \in User, Clean(u), gen'[u] = gen[u] PROVE Clean(u)'
    BY DEF CleanKept
  <2> PICK t \in Token :
        /\ tUser[t] = None
        /\ tokens' = (tokens \ {item[c]}) \cup {t}
        /\ tUser' = [tUser EXCEPT ![t] = usr[c]]
        /\ tGen' = [tGen EXCEPT ![t] = g[c]]
    BY <1>22 DEF RefreshCommit, AddToken
  <2>1. ASSUME usr[c] = u PROVE g[c] = gen[u]
    <3>1. pc[c] = "rotate" /\ usr[c] \in users
      BY <1>22 DEF RefreshCommit, AddToken
    <3>2. c \notin StaleInFlight(u)
      BY DEF Clean
    <3>3. g[c] <= gen[u] /\ g[c] \in Nat /\ gen[u] \in Nat
      BY <2>1, <3>1 DEF CallsOK, TypeOK
    <3> QED
      BY <2>1, <3>1, <3>2, <3>3 DEF StaleInFlight
  <2>2. \A q \in TokensOf(u)' : tGen'[q] = gen'[u]
    BY <2>1 DEF TokensOf, Clean, TypeOK
  <2>3. \A s \in SessionsOf(u)' : sGen'[s] = gen'[u]
    BY <1>22 DEF RefreshCommit, SessionsOf, Clean
  <2>4. StaleInFlight(u)' = {}
    BY <1>22 DEF RefreshCommit, Return, StaleInFlight, Clean, TypeOK
  <2> QED
    BY <2>2, <2>3, <2>4 DEF Clean
<1>23. ASSUME NEW c \in Call, Abort(c) PROVE CleanKept
  BY <1>23 DEF Abort, Finish, Return, CleanKept, Clean, SessionsOf, TokensOf, StaleInFlight, TypeOK, CallsOK, RowsOK
<1>24. ASSUME NEW u \in User, RequestReset(u) PROVE CleanKept
  BY <1>24 DEF RequestReset, CleanKept, Clean, SessionsOf, TokensOf, StaleInFlight, TypeOK, CallsOK, RowsOK
<1>25. ASSUME NEW s \in Session, Logout(s) PROVE CleanKept
  BY <1>25 DEF Logout, CleanKept, Clean, SessionsOf, TokensOf, StaleInFlight, TypeOK, CallsOK, RowsOK
<1>26. ASSUME NEW t \in Token, DropToken(t) PROVE CleanKept
  BY <1>26 DEF DropToken, CleanKept, Clean, SessionsOf, TokensOf, StaleInFlight, TypeOK, CallsOK, RowsOK
<1>27. ASSUME NEW r \in Reset, ExpireReset(r) PROVE CleanKept
  BY <1>27 DEF ExpireReset, CleanKept, Clean, SessionsOf, TokensOf, StaleInFlight, TypeOK, CallsOK, RowsOK
<1>28. CASE UNCHANGED vars
  BY <1>28 DEF vars, CleanKept, Clean, SessionsOf, TokensOf, StaleInFlight, TypeOK, CallsOK, RowsOK
<1>29. ASSUME NEW c \in Call, RevokeTokensApply(c) PROVE CleanKept
  BY <1>29 DEF RevokeTokensApply, Finish, Return, CleanKept, Clean, SessionsOf, TokensOf, StaleInFlight, TypeOK
<1>30. ASSUME NEW s \in Session, AdminRemoveSession(s) PROVE CleanKept
  BY <1>30 DEF AdminRemoveSession, CleanKept, Clean, SessionsOf, TokensOf, StaleInFlight, TypeOK, CallsOK, RowsOK
<1>31. ASSUME NEW u \in User, RemoveUser(u) PROVE CleanKept
  BY <1>31 DEF RemoveUser, ResetsOf, CleanKept, Clean, SessionsOf, TokensOf, StaleInFlight, TypeOK, CallsOK, RowsOK
<1> QED
  BY <1>1, <1>2, <1>3, <1>4, <1>5, <1>6, <1>7, <1>8, <1>9,
     <1>10, <1>11, <1>12, <1>13, <1>14, <1>15, <1>16, <1>17, <1>18,
     <1>19, <1>20, <1>21, <1>22, <1>23, <1>24, <1>25, <1>26, <1>27,
     <1>28, <1>29, <1>30, <1>31
  DEF Next, Request, Advance

LEMMA InitInv == Init => IInv
<1> SUFFICES ASSUME Init PROVE IInv
  OBVIOUS
<1>1. TypeOK /\ CallsOK /\ RowsOK /\ SweepOK /\ CloseOK
  BY NoneAssumption DEF Init, TypeOK, CallsOK, RowsOK, SweepOK, CloseOK, SessionsOf, PC
<1>2. \A u \in User : {r \in used : rUser[r] = u} = {}
  BY DEF Init
<1>3. PaidOK
  BY <1>2, FS_EmptySet DEF Init, PaidOK, PasswordWritesAccounted
<1> QED
  BY <1>1, <1>3 DEF IInv

LEMMA StepInv == IInv /\ [Next]_vars => IInv'
  BY TypeOKStep, CallsOKStep, RowsOKStep, SweepOKStep, CloseOKStep, PaidOKStep DEF IInv

(* The inductive invariant holds in every reachable state.                  *)
THEOREM Invariance == Spec => []IInv
<1> QED
  BY InitInv, StepInv, PTL DEF Spec

(* The variables keep their types, for any users, rows and calls.           *)
THEOREM TypeCorrectness == Spec => []TypeOK
<1>1. IInv => TypeOK
  BY DEF IInv
<1> QED
  BY <1>1, Invariance, PTL

(* Every write of a password is a finished change_password or a spent reset. *)
THEOREM WritesArePaid == Spec => []PasswordWritesAccounted
<1>1. IInv => PasswordWritesAccounted
  BY DEF IInv, PaidOK
<1> QED
  BY <1>1, Invariance, PTL

(* An account on which nothing old rests stays so until the next write.     *)
THEOREM CleanIsKept == Spec => CleanStaysClean
<1>1. IInv /\ [Next]_vars => [CleanKept]_vars
  BY CleanKeptStep DEF IInv
<1> QED
  BY <1>1, Invariance, PTL DEF Spec, CleanStaysClean, CleanKept

(* A rotation that nothing disturbed leaves its account clean.              *)
THEOREM QuietRotationsClean == Spec => QuietRotationCleans
<1> DEFINE Quiet(c) ==
      RevokeTokensApply(c) /\ g[c] = gen[usr[c]] /\ StaleInFlight(usr[c]) = {}
<1>1. ASSUME IInv, NEW c \in Call \ (faulty \cup raced), Quiet(c), NEW u \in {usr[c]}
      PROVE  Clean(u)'
  <2>1. /\ pc[c] = "close" /\ usr[c] = u /\ u \in User
        /\ sessions' = sessions /\ sUser' = sUser /\ sGen' = sGen
        /\ gen' = gen /\ users' = users
    BY <1>1 DEF RevokeTokensApply, userVars, sessVars, IInv, CallsOK
  <2>2. \A s \in SessionsOf(u) : sGen[s] = gen[u]
    <3> TAKE s \in SessionsOf(u)
    <3>1. sGen[s] >= gen[u] /\ sGen[s] <= gen[u]
      BY <1>1, <2>1 DEF IInv, SweepOK, RowsOK, SessionsOf
    <3>2. sGen[s] \in Nat /\ gen[u] \in Nat
      BY <1>1, <2>1 DEF IInv, TypeOK, SessionsOf
    <3> QED
      BY <3>1, <3>2
  <2>3. \A t \in TokensOf(u) \ snap[c] : tGen[t] = gen[u]
    <3> TAKE t \in TokensOf(u) \ snap[c]
    <3>1. tGen[t] >= gen[u] /\ tGen[t] <= gen[u]
      BY <1>1, <2>1 DEF IInv, CloseOK, RowsOK, TokensOf
    <3>2. tGen[t] \in Nat /\ gen[u] \in Nat
      BY <1>1, <2>1 DEF IInv, TypeOK, TokensOf
    <3> QED
      BY <3>1, <3>2
  <2>4. tokens' = tokens \ snap[c] /\ tUser' = tUser /\ tGen' = tGen
    BY <1>1 DEF RevokeTokensApply
  <2>5. \A d \in Call : d \in StaleInFlight(u)' => d \in StaleInFlight(u)
    BY <1>1, <2>1 DEF RevokeTokensApply, Finish, Return, StaleInFlight, IInv, TypeOK
  <2>6. StaleInFlight(u)' = {}
    BY <1>1, <2>5 DEF StaleInFlight
  <2> QED
    BY <2>1, <2>2, <2>3, <2>4, <2>6 DEF Clean, SessionsOf, TokensOf
<1>2. IInv /\ [Next]_vars =>
        [\A c \in Call \ (faulty \cup raced) : Quiet(c) => \A u \in {usr[c]} : Clean(u)']_vars
  BY <1>1
<1> QED
  BY <1>2, Invariance, PTL DEF Spec, QuietRotationCleans

(* A session ends by its own logout, by an admin, with its user or by a      *)
(* request of its user.                                                     *)
THEOREM SessionsEndAsTheyMay == Spec => SessionsEndByRight
<1> DEFINE Right(s) ==
      \/ Logout(s) \/ AdminRemoveSession(s) \/ RemoveUser(sUser[s])
      \/ \E c \in Call : /\ RevokeSession(c) \/ DeleteRemove(c)
                         /\ usr[c] = sUser[s]
<1>1. ASSUME IInv, NEW c \in Call, RevokeSession(c), NEW s \in sessions \ sessions'
      PROVE  usr[c] = sUser[s]
  BY <1>1 DEF RevokeSession, IInv, CallsOK
<1>2. ASSUME IInv, NEW c \in Call, DeleteRemove(c), NEW s \in sessions \ sessions'
      PROVE  usr[c] = sUser[s]
  BY <1>2 DEF DeleteRemove, IInv, CallsOK
<1>3. ASSUME NEW q \in Session, Logout(q) \/ AdminRemoveSession(q),
             NEW s \in sessions \ sessions'
      PROVE  s = q
  BY <1>3 DEF Logout, AdminRemoveSession
<1>4. ASSUME NEW u \in User, RemoveUser(u), NEW s \in sessions \ sessions'
      PROVE  sUser[s] = u
  BY <1>4 DEF RemoveUser, SessionsOf
<1>5. ASSUME NEW c \in Call, Request(c) PROVE sessions \subseteq sessions'
  BY <1>5 DEF Request, PasswordLogin, ChangeBegin, JwtBegin, DeleteBegin, ConfirmBegin,
              RefreshBegin, sessVars
<1>6. ASSUME NEW c \in Call, Advance(c), ~RevokeSession(c), ~DeleteRemove(c)
      PROVE  sessions \subseteq sessions'
  BY <1>6 DEF Advance, LoginIssue, AddSession, ChangeVerify, ChangeUpdate, ConfirmClaim,
       ConfirmApply, RevokeList, RevokeSessionsDone, ChangeLookup, ChangeReissue,
       RevokeTokensScan, RevokeTokensApply, RevokeTokensFails, DeleteRetrieve, JwtMint,
       RefreshCommit, sessVars
<1>7. ASSUME \/ \E c \in Call : Abort(c)
             \/ \E u \in User : RequestReset(u)
             \/ \E t \in Token : DropToken(t)
             \/ \E r \in Reset : ExpireReset(r)
             \/ UNCHANGED vars
      PROVE  sessions \subseteq sessions'
  BY <1>7 DEF Abort, RequestReset, DropToken, ExpireReset, vars, sessVars
<1>8. ASSUME IInv, [Next]_vars, NEW s \in sessions \ sessions'
      PROVE  Right(s)
  <2>1. CASE \E c \in Call : RevokeSession(c) \/ DeleteRemove(c)
    BY <1>1, <1>2, <1>8, <2>1
  <2>2. CASE \E q \in Session : Logout(q) \/ AdminRemoveSession(q)
    BY <1>3, <1>8, <2>2
  <2>3. CASE \E u \in User : RemoveUser(u)
    BY <1>4, <1>8, <2>3
  <2> HIDE DEF Right
  <2> QED
    BY <1>5, <1>6, <1>7, <1>8, <2>1, <2>2, <2>3 DEF Next
<1>9. IInv /\ [Next]_vars => [\A s \in sessions \ sessions' : Right(s)]_vars
  BY <1>8
<1> QED
  BY <1>9, Invariance, PTL DEF Spec, SessionsEndByRight

-----------------------------------------------------------------------------
(* The refresh tokens of the handlers implement TokenStore.                 *)

LEMMA StateSame ==
  ASSUME UNCHANGED <<tokens, tUser>>
  PROVE  StoreState' = StoreState
  BY DEF StoreState

Users(t) == {c \in Call : pc[c] = "rotate" /\ item[c] = t}

LEMMA UsingIsUsers == /\ StoreUsing = [t \in Token |-> Users(t)]
                      /\ StoreUsing' = [t \in Token |-> Users(t)']
  BY DEF StoreUsing, Users

(* A call that is not about to swap a token, before and after a step, leaves *)
(* no trace among the tokens in use.                                         *)
LEMMA UsingSame ==
  ASSUME NEW c \in Call, pc[c] # "rotate", pc'[c] # "rotate",
         \A d \in Call \ {c} : pc'[d] = pc[d] /\ item'[d] = item[d]
  PROVE  StoreUsing' = StoreUsing
<1>1. ASSUME NEW t \in Token PROVE Users(t)' = Users(t)
  BY DEF Users
<1> QED
  BY <1>1, UsingIsUsers

LEMMA ReturnFacts ==
  ASSUME TypeOK, NEW c \in Call, Return(c)
  PROVE  /\ pc'[c] = "idle"
         /\ \A d \in Call \ {c} : pc'[d] = pc[d] /\ item'[d] = item[d]
  BY DEF Return, TypeOK

(* A refresh that ends lets go of its token alone.                          *)
LEMMA ReturnLetsGo ==
  ASSUME TypeOK, CallsOK, NEW c \in Call, pc[c] = "rotate", Return(c)
  PROVE  /\ item[c] \in Token /\ c \in StoreUsing[item[c]]
         /\ StoreUsing' = [StoreUsing EXCEPT ![item[c]] = @ \ {c}]
<1>1. item[c] \in Token
  BY DEF CallsOK
<1>2. ASSUME NEW t \in Token
      PROVE  Users(t)' = IF t = item[c] THEN Users(t) \ {c} ELSE Users(t)
  BY ReturnFacts DEF Users
<1>3. c \in Users(item[c])
  BY DEF Users
<1> QED
  BY <1>1, <1>2, <1>3, UsingIsUsers

(* A request that returns and writes no token gives one up, or had none.    *)
LEMMA QuitStep ==
  ASSUME TypeOK, CallsOK, NEW c \in Call, Return(c), UNCHANGED tokVars
  PROVE  [Store!Next]_(Store!storeVars)
<1>1. StoreState' = StoreState /\ tUser' = tUser
  BY StateSame DEF tokVars
<1>2. CASE pc[c] = "rotate"
  BY <1>1, <1>2, ReturnLetsGo DEF Store!Next, Store!GiveUp
<1>3. CASE pc[c] # "rotate"
  <2>1. StoreUsing' = StoreUsing
    BY <1>3, ReturnFacts, UsingSame
  <2> QED
    BY <1>1, <2>1 DEF Store!storeVars
<1> QED
  BY <1>2, <1>3

(* A request or a statement about anything but tokens.                      *)
LEMMA OtherStep ==
  ASSUME TypeOK, NEW c \in Call, UNCHANGED tokVars, pc[c] # "rotate", pc'[c] # "rotate",
         \A d \in Call \ {c} : pc'[d] = pc[d] /\ item'[d] = item[d]
  PROVE  [Store!Next]_(Store!storeVars)
<1>1. StoreUsing' = StoreUsing
  BY UsingSame
<1> QED
  BY <1>1, StateSame DEF tokVars, Store!storeVars

(* A write that only takes live tokens away closes them.                    *)
LEMMA CloseStep ==
  ASSUME TypeOK, RowsOK, tokens' \subseteq tokens, tUser' = tUser, StoreUsing' = StoreUsing
  PROVE  [Store!Next]_(Store!storeVars)
<1>1. \A t \in tokens : tUser[t] # None
  BY NoneAssumption DEF TypeOK, RowsOK
<1>2. \A t \in Token : \/ StoreState'[t] = StoreState[t]
                       \/ StoreState[t] = "live" /\ StoreState'[t] = "closed"
  BY <1>1 DEF StoreState
<1>3. StoreState' \in [Token -> Store!State]
  BY DEF StoreState, Store!State
<1>4. Store!Close
  BY <1>2, <1>3 DEF Store!Close
<1> QED
  BY <1>4 DEF Store!Next

LEMMA RequestStep ==
  ASSUME IInv, NEW c \in Call, Request(c)
  PROVE  [Store!Next]_(Store!storeVars)
<1>1. CASE \E t \in Token : RefreshBegin(c, t)
  <2> PICK t \in Token : RefreshBegin(c, t)
    BY <1>1
  <2>1. /\ t \in tokens /\ UNCHANGED tokVars /\ pc[c] = "idle"
        /\ pc'[c] = "rotate" /\ item'[c] = t
        /\ \A d \in Call \ {c} : pc'[d] = pc[d] /\ item'[d] = item[d]
    BY DEF RefreshBegin, Start, IInv, TypeOK
  <2>2. ASSUME NEW q \in Token
        PROVE  Users(q)' = IF q = t THEN Users(q) \cup {c} ELSE Users(q)
    BY <2>1 DEF Users
  <2>3. StoreUsing' = [StoreUsing EXCEPT ![t] = @ \cup {c}]
    BY <2>2, UsingIsUsers
  <2>4. StoreState[t] = "live"
    BY <2>1 DEF StoreState
  <2>5. Store!Accept(c, t)
    BY <2>1, <2>3, <2>4, StateSame DEF Store!Accept, tokVars
  <2> QED
    BY <2>5 DEF Store!Next
<1>2. CASE ~\E t \in Token : RefreshBegin(c, t)
  <2>1. /\ UNCHANGED tokVars /\ pc[c] # "rotate" /\ pc'[c] # "rotate"
        /\ \A d \in Call \ {c} : pc'[d] = pc[d] /\ item'[d] = item[d]
    BY <1>2 DEF Request, PasswordLogin, ChangeBegin, JwtBegin, DeleteBegin, ConfirmBegin,
                Start, IInv, TypeOK
  <2> QED
    BY <2>1, OtherStep DEF IInv
<1> QED
  BY <1>1, <1>2

(* The statements that add a session, or write a password or a session.     *)
LEMMA StatementStep ==
  ASSUME IInv, NEW c \in Call,
         \/ LoginIssue(c) \/ ChangeVerify(c) \/ ChangeUpdate(c)
         \/ ConfirmClaim(c) \/ ConfirmApply(c)
         \/ RevokeList(c) \/ RevokeSession(c) \/ RevokeSessionsDone(c)
         \/ ChangeLookup(c) \/ ChangeReissue(c) \/ RevokeTokensScan(c)
         \/ RevokeTokensFails(c) \/ DeleteRetrieve(c) \/ DeleteRemove(c)
  PROVE  [Store!Next]_(Store!storeVars)
<1>1. UNCHANGED tokVars
  BY DEF LoginIssue, ChangeVerify, ChangeUpdate, ConfirmClaim, ConfirmApply, RevokeList,
         RevokeSession, RevokeSessionsDone, ChangeLookup, ChangeReissue, RevokeTokensScan,
         RevokeTokensFails, DeleteRetrieve, DeleteRemove, tokVars
<1>2. CASE Return(c)
  BY <1>1, <1>2, QuitStep DEF IInv
<1>3. CASE ~Return(c)
  <2>1. pc[c] # "rotate"
    BY DEF LoginIssue, ChangeVerify, ChangeUpdate, ConfirmClaim, ConfirmApply, RevokeList,
           RevokeSession, RevokeSessionsDone, ChangeLookup, ChangeReissue, RevokeTokensScan,
           RevokeTokensFails, DeleteRetrieve, DeleteRemove
  <2>2. /\ pc'[c] # "rotate" /\ item' = item
        /\ \A d \in Call \ {c} : pc'[d] = pc[d]
    BY <1>3 DEF LoginIssue, ChangeVerify, ChangeUpdate, SetPassword, ConfirmClaim,
           ConfirmApply, RevokeList, RevokeSession, RevokeSessionsDone, ChangeLookup,
           ChangeReissue, RevokeTokensScan, RevokeTokensFails, DeleteRetrieve, DeleteRemove,
           Goto, Finish, IInv, TypeOK
  <2> QED
    BY <1>1, <2>1, <2>2, OtherStep DEF IInv
<1> QED
  BY <1>2, <1>3

LEMMA RevokeStep ==
  ASSUME IInv, NEW c \in Call, RevokeTokensApply(c)
  PROVE  [Store!Next]_(Store!storeVars)
<1>1. pc[c] # "rotate" /\ Return(c) /\ tokens' \subseteq tokens /\ tUser' = tUser
  BY DEF RevokeTokensApply, Finish
<1>2. StoreUsing' = StoreUsing
  BY <1>1, ReturnFacts, UsingSame DEF IInv
<1> QED
  BY <1>1, <1>2, CloseStep DEF IInv

LEMMA MintStep ==
  ASSUME IInv, NEW c \in Call, JwtMint(c)
  PROVE  [Store!Next]_(Store!storeVars)
<1> PICK n \in Token : /\ tUser[n] = None
                       /\ tokens' = (tokens \ {}) \cup {n}
                       /\ tUser' = [tUser EXCEPT ![n] = usr[c]]
  BY DEF JwtMint, AddToken
<1>1. pc[c] = "mint" /\ Return(c) /\ usr[c] \in User /\ usr[c] # None
  BY NoneAssumption DEF JwtMint, IInv, CallsOK
<1>2. StoreUsing' = StoreUsing
  BY <1>1, ReturnFacts, UsingSame DEF IInv
<1>3. n \notin tokens
  BY NoneAssumption DEF IInv, TypeOK, RowsOK
<1>4. StoreState[n] = "unknown"
  BY <1>3 DEF StoreState
<1>5. StoreState' = [StoreState EXCEPT ![n] = "live"]
  BY DEF StoreState, IInv, TypeOK
<1>6. Store!Issue(usr[c], n)
  BY <1>2, <1>4, <1>5 DEF Store!Issue
<1> QED
  BY <1>1, <1>6 DEF Store!Next

LEMMA SwapStep ==
  ASSUME IInv, NEW c \in Call, RefreshCommit(c)
  PROVE  [Store!Next]_(Store!storeVars)
<1> DEFINE t == item[c]
<1> PICK n \in Token : /\ tUser[n] = None
                       /\ tokens' = (tokens \ {t}) \cup {n}
                       /\ tUser' = [tUser EXCEPT ![n] = usr[c]]
  BY DEF RefreshCommit, AddToken
<1>1. /\ pc[c] = "rotate" /\ Return(c)
      /\ t \in Token /\ tUser[t] = usr[c] /\ usr[c] # None
  BY NoneAssumption DEF RefreshCommit, IInv, CallsOK
<1>2. c \in StoreUsing[t] /\ StoreUsing' = [StoreUsing EXCEPT ![t] = @ \ {c}]
  BY <1>1, ReturnLetsGo DEF IInv
<1>3. n \notin tokens /\ n # t
  BY <1>1, NoneAssumption DEF IInv, TypeOK, RowsOK
<1>4. StoreState[n] = "unknown"
  BY <1>3 DEF StoreState
<1> HIDE DEF t
<1>5. StoreState' = [StoreState EXCEPT ![t] = "closed", ![n] = "live"]
  BY <1>1, <1>3 DEF StoreState, IInv, TypeOK
<1>6. Store!Exchange(c, t, n)
  BY <1>1, <1>2, <1>4, <1>5 DEF Store!Exchange
<1> QED
  BY <1>1, <1>6 DEF Store!Next

LEMMA StoreStep ==
  ASSUME IInv, [Next]_vars
  PROVE  [Store!Next]_(Store!storeVars)
<1>1. ASSUME NEW c \in Call, Abort(c)
      PROVE  [Store!Next]_(Store!storeVars)
  BY <1>1, QuitStep DEF IInv, Abort, Finish
<1>2. ASSUME UNCHANGED callVars, UNCHANGED tUser, tokens' \subseteq tokens
      PROVE  [Store!Next]_(Store!storeVars)
  <2>1. StoreUsing' = StoreUsing
    BY <1>2 DEF StoreUsing, callVars
  <2> QED
    BY <1>2, <2>1, CloseStep DEF IInv
<1>3. ASSUME NEW t \in Token, DropToken(t)
      PROVE  [Store!Next]_(Store!storeVars)
  BY <1>2, <1>3 DEF DropToken
<1>4. CASE \/ \E u \in User : RequestReset(u)
           \/ \E s \in Session : Logout(s) \/ AdminRemoveSession(s)
           \/ \E r \in Reset : ExpireReset(r)
           \/ UNCHANGED vars
  BY <1>2, <1>4 DEF RequestReset, Logout, AdminRemoveSession, ExpireReset, vars, tokVars
<1>5. ASSUME NEW u \in User, RemoveUser(u)
      PROVE  [Store!Next]_(Store!storeVars)
  BY <1>2, <1>5 DEF RemoveUser
<1> QED
  BY <1>1, <1>3, <1>4, <1>5, RequestStep, StatementStep, RevokeStep, MintStep, SwapStep
  DEF Next, Advance

LEMMA StoreInit == Init => Store!Init
<1> SUFFICES ASSUME Init PROVE Store!Init
  OBVIOUS
<1>1. StoreState = [t \in Token |-> "unknown"]
  BY DEF Init, StoreState
<1>2. StoreUsing = [t \in Token |-> {}]
  BY DEF Init, StoreUsing
<1> QED
  BY <1>1, <1>2 DEF Init, Store!Init

(* The refresh tokens of the handlers implement TokenStore, for any users,  *)
(* sessions, tokens and calls.                                              *)
THEOREM ImplementsTokenStore == Spec => KeepsTokenPromise
<1>1. Init => Store!Init
  BY StoreInit
<1>2. IInv /\ [Next]_vars => [Store!Next]_(Store!storeVars)
  BY StoreStep
<1> QED
  BY <1>1, <1>2, Invariance, PTL DEF Spec, Store!Spec, KeepsTokenPromise
=============================================================================
