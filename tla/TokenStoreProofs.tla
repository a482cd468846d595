--------------------------- MODULE TokenStoreProofs ---------------------------
(***************************************************************************)
(* JwtService implements TokenStore: every statement of a request is one   *)
(* step of the abstract store or none.                                     *)
(***************************************************************************)
EXTENDS JwtServiceProofs

(* What the store sees of the table: rows, their flags and what was minted. *)
LEMMA StateSame ==
  ASSUME UNCHANGED <<rows, revoked, expired, minted>>
  PROVE  StoreState' = StoreState
  BY DEF StoreState, Live

LEMMA UsingSame ==
  ASSUME \A t \in Token : InFlight(t)' = InFlight(t)
  PROVE  StoreUsing' = StoreUsing
  BY DEF StoreUsing

(* A call that is not past its checks before and after a step leaves no     *)
(* trace in the store.                                                      *)
LEMMA OutsideIsUnseen ==
  ASSUME TypeOK, NEW c \in Call, pc[c] \notin AcceptedPC, pc'[c] \notin AcceptedPC,
         \A d \in Call \ {c} : pc'[d] = pc[d] /\ tok'[d] = tok[d]
  PROVE  StoreUsing' = StoreUsing
<1>1. ASSUME NEW t \in Token PROVE InFlight(t)' = InFlight(t)
  BY DEF InFlight
<1> QED
  BY <1>1, UsingSame

(* A call that stays past its checks leaves none either.                    *)
LEMMA InsideIsUnseen ==
  ASSUME TypeOK, NEW c \in Call, pc[c] \in AcceptedPC, pc'[c] \in AcceptedPC,
         tok' = tok, \A d \in Call \ {c} : pc'[d] = pc[d]
  PROVE  StoreUsing' = StoreUsing
<1>1. ASSUME NEW t \in Token PROVE InFlight(t)' = InFlight(t)
  BY DEF InFlight
<1> QED
  BY <1>1, UsingSame

LEMMA ReturnFacts ==
  ASSUME TypeOK, NEW c \in Call, Return(c)
  PROVE  /\ pc'[c] = "idle" /\ pc'[c] \notin AcceptedPC
         /\ \A d \in Call \ {c} : pc'[d] = pc[d] /\ tok'[d] = tok[d]
  BY DEF TypeOK, Return, Goto, AcceptedPC, RefreshPC

(* A refresh past its checks that ends lets go of its token alone.          *)
LEMMA ReturnLetsGo ==
  ASSUME TypeOK, CallsOK, NEW c \in Call, pc[c] \in AcceptedPC, Return(c)
  PROVE  /\ tok[c] \in Token /\ c \in StoreUsing[tok[c]]
         /\ StoreUsing' = [StoreUsing EXCEPT ![tok[c]] = @ \ {c}]
<1>1. tok[c] \in Token
  BY DEF CallsOK, AcceptedPC
<1>2. ASSUME NEW t \in Token
      PROVE  InFlight(t)' = IF t = tok[c] THEN InFlight(t) \ {c} ELSE InFlight(t)
  BY ReturnFacts DEF InFlight
<1>3. c \in StoreUsing[tok[c]]
  BY <1>1 DEF StoreUsing, InFlight
<1> QED
  BY <1>1, <1>2, <1>3 DEF StoreUsing

(* A request that ends without a write gives up its token, or had none.     *)
LEMMA QuitStep ==
  ASSUME TypeOK, CallsOK, NEW c \in Call, Return(c), UNCHANGED tableVars
  PROVE  [Store!Next]_(Store!storeVars)
<1>1. StoreState' = StoreState /\ owner' = owner
  BY StateSame DEF tableVars
<1>2. CASE pc[c] \in AcceptedPC
  BY <1>1, <1>2, ReturnLetsGo DEF Store!Next, Store!GiveUp
<1>3. CASE pc[c] \notin AcceptedPC
  <2>1. StoreUsing' = StoreUsing
    BY <1>3, ReturnFacts, OutsideIsUnseen
  <2> QED
    BY <1>1, <2>1 DEF Store!storeVars
<1> QED
  BY <1>2, <1>3

(* A write that only takes live tokens away closes them.                    *)
LEMMA CloseStep ==
  ASSUME RowsOK, Live' \subseteq Live, minted' = minted, owner' = owner,
         StoreUsing' = StoreUsing
  PROVE  [Store!Next]_(Store!storeVars)
<1>1. Live \subseteq minted
  BY DEF RowsOK, Live
<1>2. \A t \in Token : \/ StoreState'[t] = StoreState[t]
                       \/ StoreState[t] = "live" /\ StoreState'[t] = "closed"
  BY <1>1 DEF StoreState
<1>3. StoreState' \in [Token -> Store!State]
  BY DEF StoreState, Store!State
<1>4. Store!Close
  BY <1>2, <1>3 DEF Store!Close
<1> QED
  BY <1>4 DEF Store!Next

(* A new row is a token nobody knew.                                        *)
LEMMA NewIsUnknown ==
  ASSUME RowsOK, NEW n \in Token, n \notin minted
  PROVE  StoreState[n] = "unknown"
  BY DEF StoreState, RowsOK, Live

-----------------------------------------------------------------------------
LEMMA BeginStep ==
  ASSUME IInv, NEW c \in Call, Request(c)
  PROVE  UNCHANGED Store!storeVars
<1>1. /\ pc[c] \notin AcceptedPC /\ pc'[c] \notin AcceptedPC
      /\ \A d \in Call \ {c} : pc'[d] = pc[d] /\ tok'[d] = tok[d]
      /\ UNCHANGED tableVars
  BY DEF IInv, TypeOK, Request, RefreshBegin, LogoutBegin, RevokeAllBegin, RemoveUserBegin,
         Goto, AcceptedPC, RefreshPC
<1>2. StoreUsing' = StoreUsing
  BY <1>1, OutsideIsUnseen DEF IInv
<1> QED
  BY <1>1, <1>2, StateSame DEF tableVars, Store!storeVars

LEMMA SelectStep ==
  ASSUME IInv, NEW c \in Call, RefreshSelect(c)
  PROVE  [Store!Next]_(Store!storeVars)
<1>1. CASE tok[c] \in Live
  <2>1. /\ tok[c] \in Token /\ pc[c] \notin AcceptedPC /\ pc'[c] = "retrieve"
        /\ tok' = tok /\ \A d \in Call \ {c} : pc'[d] = pc[d]
        /\ UNCHANGED tableVars
    BY <1>1 DEF IInv, TypeOK, CallsOK, RefreshSelect, Goto, AcceptedPC, RefreshPC
  <2>2. ASSUME NEW t \in Token
        PROVE  InFlight(t)' = IF t = tok[c] THEN InFlight(t) \cup {c} ELSE InFlight(t)
    BY <2>1 DEF InFlight, AcceptedPC, RefreshPC
  <2>3. StoreUsing' = [StoreUsing EXCEPT ![tok[c]] = @ \cup {c}]
    BY <2>1, <2>2 DEF StoreUsing
  <2>4. StoreState[tok[c]] = "live"
    BY <1>1, <2>1 DEF StoreState
  <2>5. Store!Accept(c, tok[c])
    BY <2>1, <2>3, <2>4, StateSame DEF Store!Accept, tableVars
  <2> QED
    BY <2>1, <2>5 DEF Store!Next
<1>2. CASE tok[c] \notin Live
  BY <1>2, QuitStep DEF IInv, RefreshSelect
<1> QED
  BY <1>1, <1>2

(* The statements between the checks and the commit.                        *)
LEMMA MiddleStep ==
  ASSUME IInv, NEW c \in Call, RefreshRetrieve(c) \/ RefreshDelete(c) \/ RefreshInsert(c)
  PROVE  [Store!Next]_(Store!storeVars)
<1>1. UNCHANGED tableVars
  BY DEF RefreshRetrieve, RefreshDelete, RefreshInsert
<1>2. CASE Return(c)
  BY <1>1, <1>2, QuitStep DEF IInv
<1>3. CASE ~Return(c)
  <2>1. /\ pc[c] \in AcceptedPC /\ pc'[c] \in AcceptedPC
        /\ tok' = tok /\ \A d \in Call \ {c} : pc'[d] = pc[d]
    BY <1>3 DEF IInv, TypeOK, RefreshRetrieve, RefreshDelete, RefreshInsert, Goto,
                AcceptedPC, RefreshPC
  <2>2. StoreUsing' = StoreUsing
    BY <2>1, InsideIsUnseen DEF IInv
  <2> QED
    BY <1>1, <2>2, StateSame DEF tableVars, Store!storeVars
<1> QED
  BY <1>2, <1>3

(* The commit exchanges the token that was presented for the new one.       *)
LEMMA CommitStep ==
  ASSUME IInv, NEW c \in Call, RefreshCommit(c)
  PROVE  [Store!Next]_(Store!storeVars)
<1> DEFINE t == tok[c]
           n == new[c]
<1>1. /\ t \in Token /\ t \in minted /\ n \in Token /\ n \notin minted
      /\ owner[t] = usr[c] /\ pc[c] \in AcceptedPC /\ held[c] = {t} \cap rows
  BY DEF IInv, RefreshCommit, CallsOK, LocksOK, AcceptedPC, RefreshPC
<1>2. c \in StoreUsing[t] /\ StoreUsing' = [StoreUsing EXCEPT ![t] = @ \ {c}]
  BY <1>1, ReturnLetsGo DEF IInv, RefreshCommit
<1>3. StoreState[n] = "unknown"
  BY <1>1, NewIsUnknown DEF IInv
<1>4. Live' = (Live \ {t}) \cup {n} /\ minted' = minted \cup {n}
  BY <1>1 DEF IInv, RefreshCommit, RowsOK, Live
<1>5. StoreState' = [StoreState EXCEPT ![t] = "closed", ![n] = "live"]
  BY <1>1, <1>4 DEF StoreState
<1>6. owner' = [owner EXCEPT ![n] = owner[t]]
  BY <1>1 DEF RefreshCommit
<1>7. Store!Exchange(c, t, n)
  BY <1>2, <1>3, <1>5, <1>6 DEF Store!Exchange
<1> QED
  BY <1>1, <1>7 DEF Store!Next

LEMMA IssueStep ==
  ASSUME IInv, NEW u \in User, IssueTokenPair(u)
  PROVE  [Store!Next]_(Store!storeVars)
<1>1. PICK t \in Unused : /\ rows' = rows \cup {t} /\ minted' = minted \cup {t}
                          /\ owner' = [owner EXCEPT ![t] = u]
  BY DEF IssueTokenPair
<1>2. t \in Token /\ t \notin minted
  BY DEF Unused
<1>3. StoreState[t] = "unknown"
  BY <1>2, NewIsUnknown DEF IInv
<1>4. Live' = Live \cup {t}
  BY <1>1, <1>2 DEF IInv, IssueTokenPair, RowsOK, Live
<1>5. StoreState' = [StoreState EXCEPT ![t] = "live"]
  BY <1>1, <1>2, <1>4 DEF StoreState
<1>6. StoreUsing' = StoreUsing
  BY UsingSame DEF IssueTokenPair, callVars, InFlight
<1>7. Store!Issue(u, t)
  BY <1>1, <1>3, <1>5, <1>6 DEF Store!Issue
<1> QED
  BY <1>2, <1>7 DEF Store!Next

(* Logout, the end of a revoke-all and of the deletion of a user.           *)
LEMMA TakeAwayStep ==
  ASSUME IInv, NEW c \in Call, Logout(c) \/ RevokeAllApply(c) \/ RemoveUserCascade(c)
  PROVE  [Store!Next]_(Store!storeVars)
<1>1. Live' \subseteq Live /\ minted' = minted /\ owner' = owner
  BY DEF Logout, RevokeAllApply, RemoveUserCascade, Live
<1>2. pc[c] \notin AcceptedPC /\ Return(c)
  BY DEF Logout, RevokeAllApply, RemoveUserCascade, AcceptedPC, RefreshPC
<1>3. StoreUsing' = StoreUsing
  BY <1>2, ReturnFacts, OutsideIsUnseen DEF IInv
<1> QED
  BY <1>1, <1>3, CloseStep DEF IInv

LEMMA ExpireStep ==
  ASSUME IInv, NEW t \in Token, Expire(t)
  PROVE  [Store!Next]_(Store!storeVars)
<1>1. Live' \subseteq Live /\ minted' = minted /\ owner' = owner
  BY DEF Expire, Live
<1>2. StoreUsing' = StoreUsing
  BY UsingSame DEF Expire, callVars, InFlight
<1> QED
  BY <1>1, <1>2, CloseStep DEF IInv

(* The scan of a revoke-all, the lock on a user's row, and the rows that    *)
(* either takes one by one.                                                 *)
LEMMA ScanStep ==
  ASSUME IInv, NEW c \in Call, RevokeAllScan(c) \/ RemoveUserLock(c) \/ LockNextRow(c)
  PROVE  [Store!Next]_(Store!storeVars)
<1>1. UNCHANGED tableVars
  BY DEF RevokeAllScan, RemoveUserLock, LockNextRow
<1>2. CASE Return(c)
  BY <1>1, <1>2, QuitStep DEF IInv
<1>3. CASE ~Return(c)
  <2>1. /\ pc[c] \notin AcceptedPC /\ pc'[c] \notin AcceptedPC
        /\ \A d \in Call \ {c} : pc'[d] = pc[d] /\ tok'[d] = tok[d]
    BY <1>3 DEF IInv, TypeOK, RevokeAllScan, RemoveUserLock, LockNextRow, StartScan, Goto,
                AcceptedPC, RefreshPC
  <2>2. StoreUsing' = StoreUsing
    BY <2>1, OutsideIsUnseen DEF IInv
  <2> QED
    BY <1>1, <2>2, StateSame DEF tableVars, Store!storeVars
<1> QED
  BY <1>2, <1>3

LEMMA StoreStep ==
  ASSUME IInv, [Next]_vars
  PROVE  [Store!Next]_(Store!storeVars)
<1>1. ASSUME NEW c \in Call, Abort(c)
      PROVE  [Store!Next]_(Store!storeVars)
  BY <1>1, QuitStep DEF IInv, Abort
<1>2. CASE UNCHANGED vars
  <2>1. UNCHANGED tableVars /\ StoreUsing' = StoreUsing
    BY <1>2, UsingSame DEF vars, callVars, InFlight
  <2> QED
    BY <2>1, StateSame DEF tableVars, Store!storeVars
<1> QED
  BY <1>1, <1>2, BeginStep, SelectStep, MiddleStep, CommitStep, IssueStep, TakeAwayStep,
     ExpireStep, ScanStep
  DEF Next, Advance

LEMMA StoreInit == Init => Store!Init
<1> SUFFICES ASSUME Init PROVE Store!Init
  OBVIOUS
<1>1. StoreState = [t \in Token |-> "unknown"]
  BY DEF Init, StoreState, Live
<1>2. StoreUsing = [t \in Token |-> {}]
  BY DEF Init, StoreUsing, InFlight, AcceptedPC, RefreshPC
<1> QED
  BY <1>1, <1>2 DEF Init, Store!Init

(* The refresh tokens of the service implement TokenStore, for any users,   *)
(* tokens and calls.                                                        *)
THEOREM ImplementsTokenStore == Spec => KeepsTokenPromise
<1>1. Init => Store!Init
  BY StoreInit
<1>2. IInv /\ [Next]_vars => [Store!Next]_(Store!storeVars)
  BY StoreStep
<1> QED
  BY <1>1, <1>2, Invariance, PTL DEF Spec, Store!Spec, KeepsTokenPromise
=============================================================================
