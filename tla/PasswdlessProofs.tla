--------------------------- MODULE PasswdlessProofs ---------------------------
(***************************************************************************)
(* Theorems of Passwdless for every set of users, challenges, sessions and *)
(* calls.                                                                  *)
(***************************************************************************)
EXTENDS Passwdless, TLAPS

Issuing == {"insert_otp", "insert_link", "publish"}
Confirming == {"drop", "lookup", "confirm", "issue"}

(* A challenge is prepared by one call, is unknown to users until then, and *)
(* what is published was generated.                                         *)
IssuingOK ==
  /\ \A c \in Call : pc[c] \in Issuing =>
       ch[c] \in Challenge \ published /\ chUser[ch[c]] \in User
  /\ \A c, d \in Call : pc[c] \in Issuing /\ pc[d] \in Issuing /\ ch[c] = ch[d] => c = d
  /\ \A x \in published : chUser[x] \in User

(* A confirmation holds the half it removed: the half is not in its cache,  *)
(* no other confirmation holds it and no session was paid with it.          *)
HalvesOK ==
  /\ \A c \in Call : pc[c] \in Confirming =>
       /\ ch[c] \in published
       /\ half[c] = "link" => ch[c] \notin links
       /\ half[c] = "otp" => ch[c] \notin otps
       /\ \A s \in sessions : by[s] # <<ch[c], half[c]>>
  /\ \A c, d \in Call :
       pc[c] \in Confirming /\ pc[d] \in Confirming /\ ch[c] = ch[d] /\ half[c] = half[d]
         => c = d
  /\ \A s \in sessions : by[s][1] \in published
  /\ EachHalfOnce

(* A code that was compared is no longer there.                             *)
GuessesOK ==
  \A x \in Challenge :
    /\ guesses[x] <= 1
    /\ guesses[x] = 1 => x \in published \ otps

(* What a challenge under preparation has so far in the caches stays there. *)
DeliveryOK ==
  /\ \A c \in Call : pc[c] \in {"insert_link", "publish"} => ch[c] \in touched \cup otps
  /\ \A c \in Call : pc[c] = "publish" => ch[c] \in touched \cup links
  /\ DeliveredWorks

IInv ==
  TypeOK /\ IssuingOK /\ HalvesOK /\ AnsweredMeansSpent /\ GuessesOK /\ DeliveryOK

(* Every step keeps every variable in its set.                              *)
LEMMA TypeOKStep == TypeOK /\ IssuingOK /\ HalvesOK /\ [Next]_vars => TypeOK'
<1> SUFFICES ASSUME TypeOK, IssuingOK, HalvesOK, [Next]_vars PROVE TypeOK'
  OBVIOUS
<1> USE NoUserAssumption, NoChallengeAssumption
      DEF cacheVars, rowVars, callVars, history, Goto, Return
<1>1. ASSUME NEW c \in Call, NEW u \in User, ChallengeBegin(c, u) PROVE TypeOK'
  BY <1>1 DEF ChallengeBegin, TypeOK, PC, Half
<1>2. ASSUME NEW c \in Call, InsertOtp(c) PROVE TypeOK'
  BY <1>2 DEF InsertOtp, TypeOK, PC, Half, IssuingOK, Issuing
<1>3. ASSUME NEW c \in Call, InsertLink(c) PROVE TypeOK'
  BY <1>3 DEF InsertLink, TypeOK, PC, Half, IssuingOK, Issuing
<1>4. ASSUME NEW c \in Call, Publish(c) PROVE TypeOK'
  BY <1>4 DEF Publish, TypeOK, PC, Half, IssuingOK, Issuing
<1>5. ASSUME NEW c \in Call, NEW x \in published, ConfirmLink(c, x) PROVE TypeOK'
  BY <1>5 DEF ConfirmLink, TypeOK, PC, Half
<1>6. ASSUME NEW c \in Call, NEW x \in published, NEW right \in BOOLEAN, ConfirmToken(c, x, right) PROVE TypeOK'
  BY <1>6 DEF ConfirmToken, TypeOK, PC, Half
<1>7. ASSUME NEW c \in Call, DropOtherHalf(c) PROVE TypeOK'
  BY <1>7 DEF DropOtherHalf, TypeOK, PC, Half
<1>8. ASSUME NEW c \in Call, LookupUser(c) PROVE TypeOK'
  BY <1>8 DEF LookupUser, TypeOK, PC, Half
<1>9. ASSUME NEW c \in Call, ConfirmEmail(c) PROVE TypeOK'
  BY <1>9 DEF ConfirmEmail, TypeOK, PC, Half, IssuingOK, HalvesOK, Confirming
<1>10. ASSUME NEW c \in Call, IssueSession(c) PROVE TypeOK'
  BY <1>10 DEF IssueSession, TypeOK, PC, Half, HalvesOK, Confirming
<1>11. ASSUME NEW x \in Challenge, Expire(x) PROVE TypeOK'
  BY <1>11 DEF Expire, TypeOK, PC, Half
<1>12. ASSUME NEW c \in Call, Abort(c) PROVE TypeOK'
  BY <1>12 DEF Abort, TypeOK, PC, Half
<1>13. ASSUME Restart PROVE TypeOK'
  BY <1>13 DEF Restart, TypeOK, PC, Half
<1>14. CASE UNCHANGED vars
  BY <1>14 DEF vars, TypeOK, PC, Half
<1> QED
  BY <1>1, <1>2, <1>3, <1>4, <1>5, <1>6, <1>7, <1>8,
     <1>9, <1>10, <1>11, <1>12, <1>13, <1>14
  DEF Next, Request, Advance

(* Only a challenge never generated before is taken up.                     *)
LEMMA IssuingOKStep == IssuingOK /\ TypeOK /\ [Next]_vars => IssuingOK'
<1> SUFFICES ASSUME IssuingOK, TypeOK, [Next]_vars PROVE IssuingOK'
  OBVIOUS
<1> USE NoUserAssumption, NoChallengeAssumption
      DEF cacheVars, rowVars, callVars, history, Goto, Return
<1>1. ASSUME NEW c \in Call, NEW u \in User, ChallengeBegin(c, u) PROVE IssuingOK'
  BY <1>1 DEF ChallengeBegin, IssuingOK, TypeOK, Issuing
<1>2. ASSUME NEW c \in Call, InsertOtp(c) PROVE IssuingOK'
  BY <1>2 DEF InsertOtp, IssuingOK, TypeOK, Issuing
<1>3. ASSUME NEW c \in Call, InsertLink(c) PROVE IssuingOK'
  BY <1>3 DEF InsertLink, IssuingOK, TypeOK, Issuing
<1>4. ASSUME NEW c \in Call, Publish(c) PROVE IssuingOK'
  BY <1>4 DEF Publish, IssuingOK, TypeOK, Issuing
<1>5. ASSUME NEW c \in Call, NEW x \in published, ConfirmLink(c, x) PROVE IssuingOK'
  BY <1>5 DEF ConfirmLink, IssuingOK, TypeOK, Issuing
<1>6. ASSUME NEW c \in Call, NEW x \in published, NEW right \in BOOLEAN, ConfirmToken(c, x, right) PROVE IssuingOK'
  BY <1>6 DEF ConfirmToken, IssuingOK, TypeOK, Issuing
<1>7. ASSUME NEW c \in Call, DropOtherHalf(c) PROVE IssuingOK'
  BY <1>7 DEF DropOtherHalf, IssuingOK, TypeOK, Issuing
<1>8. ASSUME NEW c \in Call, LookupUser(c) PROVE IssuingOK'
  BY <1>8 DEF LookupUser, IssuingOK, TypeOK, Issuing
<1>9. ASSUME NEW c \in Call, ConfirmEmail(c) PROVE IssuingOK'
  BY <1>9 DEF ConfirmEmail, IssuingOK, TypeOK, Issuing
<1>10. ASSUME NEW c \in Call, IssueSession(c) PROVE IssuingOK'
  BY <1>10 DEF IssueSession, IssuingOK, TypeOK, Issuing
<1>11. ASSUME NEW x \in Challenge, Expire(x) PROVE IssuingOK'
  BY <1>11 DEF Expire, IssuingOK, TypeOK, Issuing
<1>12. ASSUME NEW c \in Call, Abort(c) PROVE IssuingOK'
  BY <1>12 DEF Abort, IssuingOK, TypeOK, Issuing
<1>13. ASSUME Restart PROVE IssuingOK'
  BY <1>13 DEF Restart, IssuingOK, TypeOK, Issuing
<1>14. CASE UNCHANGED vars
  BY <1>14 DEF vars, IssuingOK, TypeOK, Issuing
<1> QED
  BY <1>1, <1>2, <1>3, <1>4, <1>5, <1>6, <1>7, <1>8,
     <1>9, <1>10, <1>11, <1>12, <1>13, <1>14
  DEF Next, Request, Advance

(* A half leaves its cache once and is put there only before publication.   *)
LEMMA HalvesOKStep == HalvesOK /\ TypeOK /\ IssuingOK /\ AnsweredMeansSpent /\ [Next]_vars => HalvesOK'
<1> SUFFICES ASSUME HalvesOK, TypeOK, IssuingOK, AnsweredMeansSpent, [Next]_vars PROVE HalvesOK'
  OBVIOUS
<1> USE NoUserAssumption, NoChallengeAssumption
      DEF cacheVars, rowVars, callVars, history, Goto, Return
<1>1. ASSUME NEW c \in Call, NEW u \in User, ChallengeBegin(c, u) PROVE HalvesOK'
  BY <1>1 DEF ChallengeBegin, HalvesOK, EachHalfOnce, TypeOK, Confirming, Half
<1>2. ASSUME NEW c \in Call, InsertOtp(c) PROVE HalvesOK'
  BY <1>2 DEF InsertOtp, HalvesOK, EachHalfOnce, TypeOK, Confirming, Half, IssuingOK, Issuing
<1>3. ASSUME NEW c \in Call, InsertLink(c) PROVE HalvesOK'
  BY <1>3 DEF InsertLink, HalvesOK, EachHalfOnce, TypeOK, Confirming, Half, IssuingOK, Issuing
<1>4. ASSUME NEW c \in Call, Publish(c) PROVE HalvesOK'
  BY <1>4 DEF Publish, HalvesOK, EachHalfOnce, TypeOK, Confirming, Half
<1>5. ASSUME NEW c \in Call, NEW x \in published, ConfirmLink(c, x) PROVE HalvesOK'
  BY <1>5 DEF ConfirmLink, HalvesOK, EachHalfOnce, TypeOK, Confirming, Half, AnsweredMeansSpent
<1>6. ASSUME NEW c \in Call, NEW x \in published, NEW right \in BOOLEAN, ConfirmToken(c, x, right) PROVE HalvesOK'
  BY <1>6 DEF ConfirmToken, HalvesOK, EachHalfOnce, TypeOK, Confirming, Half, AnsweredMeansSpent
<1>7. ASSUME NEW c \in Call, DropOtherHalf(c) PROVE HalvesOK'
  BY <1>7 DEF DropOtherHalf, HalvesOK, EachHalfOnce, TypeOK, Confirming, Half
<1>8. ASSUME NEW c \in Call, LookupUser(c) PROVE HalvesOK'
  BY <1>8 DEF LookupUser, HalvesOK, EachHalfOnce, TypeOK, Confirming, Half
<1>9. ASSUME NEW c \in Call, ConfirmEmail(c) PROVE HalvesOK'
  BY <1>9 DEF ConfirmEmail, HalvesOK, EachHalfOnce, TypeOK, Confirming, Half
<1>10. ASSUME NEW c \in Call, IssueSession(c) PROVE HalvesOK'
  <2> PICK s \in Session \ sessions :
        sessions' = sessions \cup {s} /\ by' = [by EXCEPT ![s] = <<ch[c], half[c]>>]
    BY <1>10 DEF IssueSession
  <2>1. /\ pc[c] = "issue" /\ pc'[c] = "idle"
        /\ \A d \in Call \ {c} : pc'[d] = pc[d] /\ ch'[d] = ch[d] /\ half'[d] = half[d]
        /\ links' = links /\ otps' = otps /\ published' = published
    BY <1>10 DEF IssueSession, TypeOK
  <2>2. by'[s] = <<ch[c], half[c]>> /\ \A t \in sessions : by'[t] = by[t]
    BY DEF TypeOK
  <2>3. ch[c] \in published /\ \A t \in sessions : by[t] # <<ch[c], half[c]>>
    BY <2>1 DEF HalvesOK, Confirming
  <2>4. ASSUME NEW d \in Call, pc'[d] \in Confirming
        PROVE  d # c /\ pc[d] \in Confirming /\ <<ch[d], half[d]>> # <<ch[c], half[c]>>
    BY <2>1, <2>4 DEF HalvesOK, Confirming
  <2>5. \A d \in Call : pc'[d] \in Confirming =>
          /\ ch'[d] \in published'
          /\ half'[d] = "link" => ch'[d] \notin links'
          /\ half'[d] = "otp" => ch'[d] \notin otps'
          /\ \A t \in sessions' : by'[t] # <<ch'[d], half'[d]>>
    BY <2>1, <2>2, <2>4 DEF HalvesOK
  <2>6. \A d, e \in Call :
          pc'[d] \in Confirming /\ pc'[e] \in Confirming /\ ch'[d] = ch'[e]
            /\ half'[d] = half'[e] => d = e
    BY <2>1, <2>4 DEF HalvesOK
  <2>7. \A t \in sessions' : by'[t][1] \in published'
    BY <2>1, <2>2, <2>3 DEF HalvesOK
  <2>8. EachHalfOnce'
    BY <2>2, <2>3 DEF HalvesOK, EachHalfOnce
  <2> QED
    BY <2>5, <2>6, <2>7, <2>8 DEF HalvesOK
<1>11. ASSUME NEW x \in Challenge, Expire(x) PROVE HalvesOK'
  BY <1>11 DEF Expire, HalvesOK, EachHalfOnce, TypeOK, Confirming, Half
<1>12. ASSUME NEW c \in Call, Abort(c) PROVE HalvesOK'
  BY <1>12 DEF Abort, HalvesOK, EachHalfOnce, TypeOK, Confirming, Half
<1>13. ASSUME Restart PROVE HalvesOK'
  BY <1>13 DEF Restart, HalvesOK, EachHalfOnce, TypeOK, Confirming, Half
<1>14. CASE UNCHANGED vars
  BY <1>14 DEF vars, HalvesOK, EachHalfOnce, TypeOK, Confirming, Half
<1> QED
  BY <1>1, <1>2, <1>3, <1>4, <1>5, <1>6, <1>7, <1>8,
     <1>9, <1>10, <1>11, <1>12, <1>13, <1>14
  DEF Next, Request, Advance

(* The second removal has taken the other half when the service answers.    *)
LEMMA AnsweredMeansSpentStep == AnsweredMeansSpent /\ TypeOK /\ IssuingOK /\ HalvesOK /\ [Next]_vars => AnsweredMeansSpent'
<1> SUFFICES ASSUME AnsweredMeansSpent, TypeOK, IssuingOK, HalvesOK, [Next]_vars PROVE AnsweredMeansSpent'
  OBVIOUS
<1> USE NoUserAssumption, NoChallengeAssumption
      DEF cacheVars, rowVars, callVars, history, Goto, Return
<1>1. ASSUME NEW c \in Call, NEW u \in User, ChallengeBegin(c, u) PROVE AnsweredMeansSpent'
  BY <1>1 DEF ChallengeBegin, AnsweredMeansSpent, TypeOK, HalvesOK, Confirming, Half
<1>2. ASSUME NEW c \in Call, InsertOtp(c) PROVE AnsweredMeansSpent'
  BY <1>2 DEF InsertOtp, AnsweredMeansSpent, TypeOK, HalvesOK, Confirming, Half, IssuingOK, Issuing
<1>3. ASSUME NEW c \in Call, InsertLink(c) PROVE AnsweredMeansSpent'
  BY <1>3 DEF InsertLink, AnsweredMeansSpent, TypeOK, HalvesOK, Confirming, Half, IssuingOK, Issuing
<1>4. ASSUME NEW c \in Call, Publish(c) PROVE AnsweredMeansSpent'
  BY <1>4 DEF Publish, AnsweredMeansSpent, TypeOK, HalvesOK, Confirming, Half
<1>5. ASSUME NEW c \in Call, NEW x \in published, ConfirmLink(c, x) PROVE AnsweredMeansSpent'
  BY <1>5 DEF ConfirmLink, AnsweredMeansSpent, TypeOK, HalvesOK, Confirming, Half
<1>6. ASSUME NEW c \in Call, NEW x \in published, NEW right \in BOOLEAN, ConfirmToken(c, x, right) PROVE AnsweredMeansSpent'
  BY <1>6 DEF ConfirmToken, AnsweredMeansSpent, TypeOK, HalvesOK, Confirming, Half
<1>7. ASSUME NEW c \in Call, DropOtherHalf(c) PROVE AnsweredMeansSpent'
  BY <1>7 DEF DropOtherHalf, AnsweredMeansSpent, TypeOK, HalvesOK, Confirming, Half
<1>8. ASSUME NEW c \in Call, LookupUser(c) PROVE AnsweredMeansSpent'
  BY <1>8 DEF LookupUser, AnsweredMeansSpent, TypeOK, HalvesOK, Confirming, Half
<1>9. ASSUME NEW c \in Call, ConfirmEmail(c) PROVE AnsweredMeansSpent'
  BY <1>9 DEF ConfirmEmail, AnsweredMeansSpent, TypeOK, HalvesOK, Confirming, Half
<1>10. ASSUME NEW c \in Call, IssueSession(c) PROVE AnsweredMeansSpent'
  BY <1>10 DEF IssueSession, AnsweredMeansSpent, TypeOK, HalvesOK, Confirming, Half
<1>11. ASSUME NEW x \in Challenge, Expire(x) PROVE AnsweredMeansSpent'
  BY <1>11 DEF Expire, AnsweredMeansSpent, TypeOK, HalvesOK, Confirming, Half
<1>12. ASSUME NEW c \in Call, Abort(c) PROVE AnsweredMeansSpent'
  BY <1>12 DEF Abort, AnsweredMeansSpent, TypeOK, HalvesOK, Confirming, Half
<1>13. ASSUME Restart PROVE AnsweredMeansSpent'
  BY <1>13 DEF Restart, AnsweredMeansSpent, TypeOK, HalvesOK, Confirming, Half
<1>14. CASE UNCHANGED vars
  BY <1>14 DEF vars, AnsweredMeansSpent, TypeOK, HalvesOK, Confirming, Half
<1> QED
  BY <1>1, <1>2, <1>3, <1>4, <1>5, <1>6, <1>7, <1>8,
     <1>9, <1>10, <1>11, <1>12, <1>13, <1>14
  DEF Next, Request, Advance

(* The comparison removes the entry it compares with.                       *)
LEMMA GuessesOKStep == GuessesOK /\ TypeOK /\ IssuingOK /\ [Next]_vars => GuessesOK'
<1> SUFFICES ASSUME GuessesOK, TypeOK, IssuingOK, [Next]_vars PROVE GuessesOK'
  OBVIOUS
<1> USE NoUserAssumption, NoChallengeAssumption
      DEF cacheVars, rowVars, callVars, history, Goto, Return
<1>1. ASSUME NEW c \in Call, NEW u \in User, ChallengeBegin(c, u) PROVE GuessesOK'
  BY <1>1 DEF ChallengeBegin, GuessesOK, TypeOK
<1>2. ASSUME NEW c \in Call, InsertOtp(c) PROVE GuessesOK'
  BY <1>2 DEF InsertOtp, GuessesOK, TypeOK, IssuingOK, Issuing
<1>3. ASSUME NEW c \in Call, InsertLink(c) PROVE GuessesOK'
  BY <1>3 DEF InsertLink, GuessesOK, TypeOK
<1>4. ASSUME NEW c \in Call, Publish(c) PROVE GuessesOK'
  BY <1>4 DEF Publish, GuessesOK, TypeOK
<1>5. ASSUME NEW c \in Call, NEW x \in published, ConfirmLink(c, x) PROVE GuessesOK'
  BY <1>5 DEF ConfirmLink, GuessesOK, TypeOK
<1>6. ASSUME NEW c \in Call, NEW x \in published, NEW right \in BOOLEAN, ConfirmToken(c, x, right) PROVE GuessesOK'
  BY <1>6 DEF ConfirmToken, GuessesOK, TypeOK
<1>7. ASSUME NEW c \in Call, DropOtherHalf(c) PROVE GuessesOK'
  BY <1>7 DEF DropOtherHalf, GuessesOK, TypeOK
<1>8. ASSUME NEW c \in Call, LookupUser(c) PROVE GuessesOK'
  BY <1>8 DEF LookupUser, GuessesOK, TypeOK
<1>9. ASSUME NEW c \in Call, ConfirmEmail(c) PROVE GuessesOK'
  BY <1>9 DEF ConfirmEmail, GuessesOK, TypeOK
<1>10. ASSUME NEW c \in Call, IssueSession(c) PROVE GuessesOK'
  BY <1>10 DEF IssueSession, GuessesOK, TypeOK
<1>11. ASSUME NEW x \in Challenge, Expire(x) PROVE GuessesOK'
  BY <1>11 DEF Expire, GuessesOK, TypeOK
<1>12. ASSUME NEW c \in Call, Abort(c) PROVE GuessesOK'
  BY <1>12 DEF Abort, GuessesOK, TypeOK
<1>13. ASSUME Restart PROVE GuessesOK'
  BY <1>13 DEF Restart, GuessesOK, TypeOK
<1>14. CASE UNCHANGED vars
  BY <1>14 DEF vars, GuessesOK, TypeOK
<1> QED
  BY <1>1, <1>2, <1>3, <1>4, <1>5, <1>6, <1>7, <1>8,
     <1>9, <1>10, <1>11, <1>12, <1>13, <1>14
  DEF Next, Request, Advance

(* Halves go only when presented, by time or by a restart.                  *)
LEMMA DeliveryOKStep == DeliveryOK /\ TypeOK /\ IssuingOK /\ HalvesOK /\ [Next]_vars => DeliveryOK'
<1> SUFFICES ASSUME DeliveryOK, TypeOK, IssuingOK, HalvesOK, [Next]_vars PROVE DeliveryOK'
  OBVIOUS
<1> USE NoUserAssumption, NoChallengeAssumption
      DEF cacheVars, rowVars, callVars, history, Goto, Return
<1>1. ASSUME NEW c \in Call, NEW u \in User, ChallengeBegin(c, u) PROVE DeliveryOK'
  BY <1>1 DEF ChallengeBegin, DeliveryOK, DeliveredWorks, TypeOK
<1>2. ASSUME NEW c \in Call, InsertOtp(c) PROVE DeliveryOK'
  BY <1>2 DEF InsertOtp, DeliveryOK, DeliveredWorks, TypeOK
<1>3. ASSUME NEW c \in Call, InsertLink(c) PROVE DeliveryOK'
  BY <1>3 DEF InsertLink, DeliveryOK, DeliveredWorks, TypeOK
<1>4. ASSUME NEW c \in Call, Publish(c) PROVE DeliveryOK'
  BY <1>4 DEF Publish, DeliveryOK, DeliveredWorks, TypeOK
<1>5. ASSUME NEW c \in Call, NEW x \in published, ConfirmLink(c, x) PROVE DeliveryOK'
  BY <1>5 DEF ConfirmLink, DeliveryOK, DeliveredWorks, TypeOK
<1>6. ASSUME NEW c \in Call, NEW x \in published, NEW right \in BOOLEAN, ConfirmToken(c, x, right) PROVE DeliveryOK'
  BY <1>6 DEF ConfirmToken, DeliveryOK, DeliveredWorks, TypeOK
<1>7. ASSUME NEW c \in Call, DropOtherHalf(c) PROVE DeliveryOK'
  BY <1>7 DEF DropOtherHalf, DeliveryOK, DeliveredWorks, TypeOK, IssuingOK, HalvesOK, Issuing, Confirming
<1>8. ASSUME NEW c \in Call, LookupUser(c) PROVE DeliveryOK'
  BY <1>8 DEF LookupUser, DeliveryOK, DeliveredWorks, TypeOK
<1>9. ASSUME NEW c \in Call, ConfirmEmail(c) PROVE DeliveryOK'
  BY <1>9 DEF ConfirmEmail, DeliveryOK, DeliveredWorks, TypeOK
<1>10. ASSUME NEW c \in Call, IssueSession(c) PROVE DeliveryOK'
  BY <1>10 DEF IssueSession, DeliveryOK, DeliveredWorks, TypeOK
<1>11. ASSUME NEW x \in Challenge, Expire(x) PROVE DeliveryOK'
  BY <1>11 DEF Expire, DeliveryOK, DeliveredWorks, TypeOK
<1>12. ASSUME NEW c \in Call, Abort(c) PROVE DeliveryOK'
  BY <1>12 DEF Abort, DeliveryOK, DeliveredWorks, TypeOK
<1>13. ASSUME Restart PROVE DeliveryOK'
  BY <1>13 DEF Restart, DeliveryOK, DeliveredWorks, TypeOK, IssuingOK, Issuing
<1>14. CASE UNCHANGED vars
  BY <1>14 DEF vars, DeliveryOK, DeliveredWorks, TypeOK
<1> QED
  BY <1>1, <1>2, <1>3, <1>4, <1>5, <1>6, <1>7, <1>8,
     <1>9, <1>10, <1>11, <1>12, <1>13, <1>14
  DEF Next, Request, Advance

LEMMA InitInv == Init => IInv
  BY NoUserAssumption, NoChallengeAssumption
  DEF Init, IInv, TypeOK, IssuingOK, HalvesOK, EachHalfOnce, AnsweredMeansSpent,
      GuessesOK, DeliveryOK, DeliveredWorks, PC, Half, Issuing, Confirming

LEMMA StepInv == IInv /\ [Next]_vars => IInv'
  BY TypeOKStep, IssuingOKStep, HalvesOKStep, AnsweredMeansSpentStep, GuessesOKStep,
     DeliveryOKStep DEF IInv

(* The inductive invariant holds in every reachable state.                  *)
THEOREM Invariance == Spec => []IInv
<1>1. Init => IInv
  BY InitInv
<1>2. IInv /\ [Next]_vars => IInv'
  BY StepInv
<1> QED
  BY <1>1, <1>2, PTL DEF Spec

(* The variables keep their types, for any users, challenges and calls.     *)
THEOREM TypeCorrectness == Spec => []TypeOK
<1>1. IInv => TypeOK
  BY DEF IInv
<1> QED
  BY <1>1, Invariance, PTL

(* One half of a challenge pays for at most one session.                    *)
THEOREM HalvesPayOnce == Spec => []EachHalfOnce
<1>1. IInv => EachHalfOnce
  BY DEF IInv, HalvesOK
<1> QED
  BY <1>1, Invariance, PTL

(* The code of a challenge is compared at most once.                        *)
THEOREM CodesComparedOnce == Spec => []OneGuess
<1>1. IInv => OneGuess
  BY DEF IInv, GuessesOK, OneGuess
<1> QED
  BY <1>1, Invariance, PTL

(* An answered confirmation leaves neither half of its challenge behind.    *)
THEOREM AnsweredIsSpent == Spec => []AnsweredMeansSpent
<1>1. IInv => AnsweredMeansSpent
  BY DEF IInv
<1> QED
  BY <1>1, Invariance, PTL

(* A delivered challenge works until presented, expired or lost.            *)
THEOREM DeliveredChallengeWorks == Spec => []DeliveredWorks
<1>1. IInv => DeliveredWorks
  BY DEF IInv, DeliveryOK
<1> QED
  BY <1>1, Invariance, PTL

-----------------------------------------------------------------------------
(* A half is inserted once: it is not in its cache before, only a generated *)
(* challenge is in one, and no session is written down before its row.      *)
UnbornOK ==
  /\ \A c \in Call : pc[c] = "insert_otp" => ch[c] \notin otps
  /\ \A c \in Call : pc[c] \in {"insert_otp", "insert_link"} => ch[c] \notin links
  /\ \A x \in links \cup otps : chUser[x] # NoUser
  /\ \A s \in Session \ sessions : by[s] = <<NoChallenge, "link">>

RInv == IInv /\ UnbornOK

LEMMA UnbornOKStep == TypeOK /\ IssuingOK /\ UnbornOK /\ [Next]_vars => UnbornOK'
<1> SUFFICES ASSUME TypeOK, IssuingOK, UnbornOK, [Next]_vars PROVE UnbornOK'
  OBVIOUS
<1> USE NoUserAssumption, NoChallengeAssumption
      DEF cacheVars, rowVars, callVars, history, Goto, Return
<1>1. ASSUME NEW c \in Call, NEW u \in User, ChallengeBegin(c, u) PROVE UnbornOK'
  BY <1>1 DEF ChallengeBegin, UnbornOK, TypeOK
<1>2. ASSUME NEW c \in Call, InsertOtp(c) PROVE UnbornOK'
  BY <1>2 DEF InsertOtp, UnbornOK, TypeOK, IssuingOK, Issuing
<1>3. ASSUME NEW c \in Call, InsertLink(c) PROVE UnbornOK'
  BY <1>3 DEF InsertLink, UnbornOK, TypeOK, IssuingOK, Issuing
<1>4. ASSUME NEW c \in Call, Publish(c) PROVE UnbornOK'
  BY <1>4 DEF Publish, UnbornOK, TypeOK
<1>5. ASSUME NEW c \in Call, NEW x \in published, ConfirmLink(c, x) PROVE UnbornOK'
  BY <1>5 DEF ConfirmLink, UnbornOK, TypeOK
<1>6. ASSUME NEW c \in Call, NEW x \in published, NEW right \in BOOLEAN, ConfirmToken(c, x, right) PROVE UnbornOK'
  BY <1>6 DEF ConfirmToken, UnbornOK, TypeOK
<1>7. ASSUME NEW c \in Call, DropOtherHalf(c) PROVE UnbornOK'
  BY <1>7 DEF DropOtherHalf, UnbornOK, TypeOK
<1>8. ASSUME NEW c \in Call, LookupUser(c) PROVE UnbornOK'
  BY <1>8 DEF LookupUser, UnbornOK, TypeOK
<1>9. ASSUME NEW c \in Call, ConfirmEmail(c) PROVE UnbornOK'
  BY <1>9 DEF ConfirmEmail, UnbornOK, TypeOK
<1>10. ASSUME NEW c \in Call, IssueSession(c) PROVE UnbornOK'
  BY <1>10 DEF IssueSession, UnbornOK, TypeOK
<1>11. ASSUME NEW x \in Challenge, Expire(x) PROVE UnbornOK'
  BY <1>11 DEF Expire, UnbornOK, TypeOK
<1>12. ASSUME NEW c \in Call, Abort(c) PROVE UnbornOK'
  BY <1>12 DEF Abort, UnbornOK, TypeOK
<1>13. ASSUME Restart PROVE UnbornOK'
  BY <1>13 DEF Restart, UnbornOK, TypeOK
<1>14. CASE UNCHANGED vars
  BY <1>14 DEF vars, UnbornOK, TypeOK
<1> QED
  BY <1>1, <1>2, <1>3, <1>4, <1>5, <1>6, <1>7, <1>8,
     <1>9, <1>10, <1>11, <1>12, <1>13, <1>14
  DEF Next, Request, Advance

Halves == Challenge \X Half

(* The state and the holders of a half are read off its own entries.        *)
LEMMA HalfOf ==
  ASSUME NEW i \in Halves
  PROVE  /\ LoginState[i] \in {"unknown", "offered", "gone"}
         /\ LoginState[i] = "offered" <=> i[1] \in Present(i[2])
         /\ LoginState[i] = "unknown" <=> i[1] \in Unborn(i[2]) \ Present(i[2])
  BY DEF LoginState, Halves

LEMMA HoldersOf ==
  ASSUME NEW i \in Halves
  PROVE  LoginHolders[i] = {c \in Call : pc[c] \in Confirming /\ <<ch[c], half[c]>> = i}
  BY DEF LoginHolders, Halves, Confirming

(* What moves: a half enters its cache only while it is unborn, and nothing *)
(* is unborn again.                                                         *)
Moves ==
  \A h \in Half :
    Unborn(h)' \subseteq Unborn(h) /\ Present(h)' \subseteq Present(h) \cup Unborn(h)

LEMMA Apart == TypeOK /\ UnbornOK => \A h \in Half : Present(h) \cap Unborn(h) = {}
  BY DEF TypeOK, UnbornOK, Present, Unborn, BeforeInsert, Half

LEMMA BackStep ==
  ASSUME TypeOK, UnbornOK, Moves, NEW i \in Halves
  PROVE  \/ LoginState'[i] = LoginState[i]
         \/ LoginState[i] = "unknown"
         \/ LoginState[i] = "offered" /\ LoginState'[i] = "gone"
<1>1. i[2] \in Half
  BY DEF Halves
<1>2. /\ Unborn(i[2])' \subseteq Unborn(i[2])
      /\ Present(i[2])' \subseteq Present(i[2]) \cup Unborn(i[2])
      /\ Present(i[2]) \cap Unborn(i[2]) = {}
  BY <1>1, Apart DEF Moves
<1>3. LoginState[i] = IF i[1] \in Present(i[2]) THEN "offered"
                      ELSE IF i[1] \in Unborn(i[2]) THEN "unknown" ELSE "gone"
  BY DEF LoginState, Halves
<1>4. LoginState'[i] = IF i[1] \in Present(i[2])' THEN "offered"
                       ELSE IF i[1] \in Unborn(i[2])' THEN "unknown" ELSE "gone"
  BY DEF LoginState, Halves
<1> QED
  BY <1>2, <1>3, <1>4

LEMMA Forwards == TypeOK /\ UnbornOK /\ Moves => Login!Forward
<1> SUFFICES ASSUME TypeOK, UnbornOK, Moves PROVE Login!Forward
  OBVIOUS
<1>1. LoginState' \in [Halves -> Login!State]
  BY DEF LoginState, Halves, Login!State
<1> QED
  BY <1>1, BackStep DEF Login!Forward, Halves

(* Every step moves only unborn halves into the caches.                     *)
LEMMA MovesStep == TypeOK /\ IssuingOK /\ [Next]_vars => Moves
<1> SUFFICES ASSUME TypeOK, IssuingOK, [Next]_vars PROVE Moves
  OBVIOUS
<1> USE NoUserAssumption, NoChallengeAssumption
      DEF cacheVars, rowVars, callVars, history, Goto, Return,
          Moves, Present, Unborn, BeforeInsert, Half
<1>1. ASSUME NEW c \in Call, NEW u \in User, ChallengeBegin(c, u) PROVE Moves
  BY <1>1 DEF ChallengeBegin, TypeOK
<1>2. ASSUME NEW c \in Call, InsertOtp(c) PROVE Moves
  BY <1>2 DEF InsertOtp, TypeOK, IssuingOK, Issuing
<1>3. ASSUME NEW c \in Call, InsertLink(c) PROVE Moves
  BY <1>3 DEF InsertLink, TypeOK, IssuingOK, Issuing
<1>4. ASSUME NEW c \in Call, Publish(c) PROVE Moves
  BY <1>4 DEF Publish, TypeOK
<1>5. ASSUME NEW c \in Call, NEW x \in published, ConfirmLink(c, x) PROVE Moves
  BY <1>5 DEF ConfirmLink, TypeOK
<1>6. ASSUME NEW c \in Call, NEW x \in published, NEW right \in BOOLEAN, ConfirmToken(c, x, right) PROVE Moves
  BY <1>6 DEF ConfirmToken, TypeOK
<1>7. ASSUME NEW c \in Call, DropOtherHalf(c) PROVE Moves
  BY <1>7 DEF DropOtherHalf, TypeOK
<1>8. ASSUME NEW c \in Call, LookupUser(c) PROVE Moves
  BY <1>8 DEF LookupUser, TypeOK
<1>9. ASSUME NEW c \in Call, ConfirmEmail(c) PROVE Moves
  BY <1>9 DEF ConfirmEmail, TypeOK
<1>10. ASSUME NEW c \in Call, IssueSession(c) PROVE Moves
  BY <1>10 DEF IssueSession, TypeOK
<1>11. ASSUME NEW x \in Challenge, Expire(x) PROVE Moves
  BY <1>11 DEF Expire, TypeOK
<1>12. ASSUME NEW c \in Call, Abort(c) PROVE Moves
  BY <1>12 DEF Abort, TypeOK
<1>13. ASSUME Restart PROVE Moves
  BY <1>13 DEF Restart, TypeOK
<1>14. CASE UNCHANGED vars
  BY <1>14 DEF vars, TypeOK
<1> QED
  BY <1>1, <1>2, <1>3, <1>4, <1>5, <1>6, <1>7, <1>8,
     <1>9, <1>10, <1>11, <1>12, <1>13, <1>14
  DEF Next, Request, Advance

(* A step that starts no confirmation and issues no session is a lapse.     *)
Quiet ==
  /\ \A c \in Call : pc'[c] \in Confirming =>
       pc[c] \in Confirming /\ ch'[c] = ch[c] /\ half'[c] = half[c]
  /\ UNCHANGED by

LEMMA QuietLapses ==
  ASSUME TypeOK, UnbornOK, Moves, Quiet PROVE Login!Lapse
<1>1. Login!Forward
  BY Forwards
<1>2. \A i \in Halves : LoginHolders[i] = {c \in Call : pc[c] \in Confirming /\ <<ch[c], half[c]>> = i}
  BY HoldersOf
<1>3. \A i \in Halves : LoginHolders'[i] = {c \in Call : pc'[c] \in Confirming /\ <<ch'[c], half'[c]>> = i}
  BY DEF LoginHolders, Halves, Confirming
<1>4. LoginHolders' \in [Halves -> SUBSET Call]
  BY DEF LoginHolders, Halves
<1>5. \A i \in Halves : LoginHolders'[i] \subseteq LoginHolders[i]
  BY <1>2, <1>3 DEF Quiet
<1> QED
  BY <1>1, <1>4, <1>5 DEF Login!Lapse, Halves, Quiet

(* A call that removes an entry takes the half, and the half is gone.       *)
LEMMA TakeStep ==
  ASSUME TypeOK, IssuingOK, UnbornOK, Moves, NEW c \in Call, NEW x \in published, NEW h \in Half,
         pc[c] = "idle", x \in Present(h), x \notin Present(h)',
         pc' = [pc EXCEPT ![c] = "drop"],
         ch' = [ch EXCEPT ![c] = x],
         half' = [half EXCEPT ![c] = h],
         UNCHANGED by
  PROVE  Login!Take(c, <<x, h>>)
<1> DEFINE i == <<x, h>>
<1>1. i \in Halves /\ i[1] = x /\ i[2] = h
  BY DEF TypeOK, Halves
<1>2. Login!Forward
  BY Forwards
<1>3. LoginState[i] = "offered"
  BY <1>1, HalfOf
<1>4. x \notin Unborn(h)'
  BY <1>1, Apart DEF Moves
<1>5. LoginState'[i] = "gone"
  BY <1>1, <1>4 DEF LoginState, Halves
<1>6. /\ pc'[c] = "drop" /\ ch'[c] = x /\ half'[c] = h /\ pc[c] \notin Confirming
      /\ \A d \in Call \ {c} : pc'[d] = pc[d] /\ ch'[d] = ch[d] /\ half'[d] = half[d]
  BY DEF TypeOK, Confirming
<1>7. LoginHolders'[i] = LoginHolders[i] \cup {c}
  <2>1. LoginHolders[i] = {d \in Call : pc[d] \in Confirming /\ <<ch[d], half[d]>> = i}
    BY <1>1, HoldersOf
  <2>2. LoginHolders'[i] = {d \in Call : pc'[d] \in Confirming /\ <<ch'[d], half'[d]>> = i}
    BY <1>1 DEF LoginHolders, Halves, Confirming
  <2> QED
    BY <1>6, <2>1, <2>2 DEF Confirming
<1>8. ASSUME NEW j \in Halves, j # i PROVE LoginHolders'[j] = LoginHolders[j]
  <2>1. LoginHolders[j] = {d \in Call : pc[d] \in Confirming /\ <<ch[d], half[d]>> = j}
    BY HoldersOf
  <2>2. LoginHolders'[j] = {d \in Call : pc'[d] \in Confirming /\ <<ch'[d], half'[d]>> = j}
    BY DEF LoginHolders, Halves, Confirming
  <2> QED
    BY <1>6, <1>8, <2>1, <2>2
<1>9. LoginHolders \in [Halves -> SUBSET Call] /\ LoginHolders' \in [Halves -> SUBSET Call]
  BY DEF LoginHolders, Halves
<1>10. LoginHolders' = [LoginHolders EXCEPT ![i] = @ \cup {c}]
  BY <1>1, <1>7, <1>8, <1>9
<1> QED
  BY <1>2, <1>3, <1>5, <1>10 DEF Login!Take

(* A call that issues its session redeems the half it holds.                *)
LEMMA RedeemStep ==
  ASSUME TypeOK, HalvesOK, UnbornOK, NEW c \in Call, IssueSession(c)
  PROVE  \E i \in Halves, s \in Session : Login!Redeem(c, i, s)
<1> DEFINE i == <<ch[c], half[c]>>
<1>1. PICK s \in Session \ sessions : by' = [by EXCEPT ![s] = i]
  BY DEF IssueSession
<1>2. i \in Halves /\ pc[c] \in Confirming
  BY DEF IssueSession, TypeOK, HalvesOK, Halves, Confirming
<1>3. /\ pc'[c] \notin Confirming
      /\ \A d \in Call \ {c} : pc'[d] = pc[d] /\ ch'[d] = ch[d] /\ half'[d] = half[d]
      /\ links' = links /\ otps' = otps /\ chUser' = chUser
      /\ pc[c] = "issue" /\ pc'[c] = "idle"
  BY DEF IssueSession, Return, TypeOK, cacheVars, Confirming
<1>4. LoginState' = LoginState
  <2>1. \A h \in Half : Present(h)' = Present(h) /\ Unborn(h)' = Unborn(h)
    BY <1>3 DEF Present, Unborn, BeforeInsert, Half
  <2>2. LoginState' = [j \in Halves |-> CASE j[1] \in Present(j[2])' -> "offered"
                               [] j[1] \in Unborn(j[2])' \ Present(j[2])' -> "unknown"
                               [] OTHER -> "gone"]
    BY DEF LoginState, Halves
  <2> QED
    BY <2>1, <2>2 DEF LoginState, Halves
<1>5. by[s] = <<NoChallenge, "link">>
  BY DEF UnbornOK
<1>6. LoginHolders[i] = {d \in Call : pc[d] \in Confirming /\ <<ch[d], half[d]>> = i}
  BY <1>2, HoldersOf
<1>7. LoginHolders'[i] = LoginHolders[i] \ {c}
  <2>1. LoginHolders'[i] = {d \in Call : pc'[d] \in Confirming /\ <<ch'[d], half'[d]>> = i}
    BY <1>2 DEF LoginHolders, Halves, Confirming
  <2> QED
    BY <1>3, <1>6, <2>1
<1>8. ASSUME NEW j \in Halves, j # i PROVE LoginHolders'[j] = LoginHolders[j]
  <2>1. LoginHolders[j] = {d \in Call : pc[d] \in Confirming /\ <<ch[d], half[d]>> = j}
    BY HoldersOf
  <2>2. LoginHolders'[j] = {d \in Call : pc'[d] \in Confirming /\ <<ch'[d], half'[d]>> = j}
    BY DEF LoginHolders, Halves, Confirming
  <2> QED
    BY <1>3, <1>8, <2>1, <2>2
<1>9. LoginHolders \in [Halves -> SUBSET Call] /\ LoginHolders' \in [Halves -> SUBSET Call]
  BY DEF LoginHolders, Halves
<1>10. LoginHolders' = [LoginHolders EXCEPT ![i] = @ \ {c}]
  BY <1>2, <1>7, <1>8, <1>9
<1>11. c \in LoginHolders[i]
  BY <1>2, <1>6
<1>12. Login!Redeem(c, i, s)
  BY <1>1, <1>4, <1>5, <1>10, <1>11 DEF Login!Redeem
<1> QED
  BY <1>1, <1>2, <1>12

LEMMA RefineInit == Init => Login!Init
<1> SUFFICES ASSUME Init PROVE Login!Init
  OBVIOUS
<1>1. LoginState = [i \in Halves |-> "unknown"]
  BY DEF Init, LoginState, Halves, Present, Unborn, BeforeInsert
<1>2. LoginHolders = [i \in Halves |-> {}]
  BY DEF Init, LoginHolders, Halves
<1>3. by = [s \in Session |-> <<NoChallenge, "link">>]
  BY DEF Init
<1> QED
  BY <1>1, <1>2, <1>3 DEF Login!Init, Halves

LEMMA RefineStep == RInv /\ [Next]_vars => [Login!Next]_(Login!loginVars)
<1> SUFFICES ASSUME RInv, [Next]_vars PROVE Login!Next
  OBVIOUS
<1> USE NoChallengeAssumption DEF cacheVars, rowVars, callVars, history, Goto, Return
<1>0. TypeOK /\ IssuingOK /\ HalvesOK /\ UnbornOK /\ Moves
  BY MovesStep DEF RInv, IInv
<1>q. Quiet => Login!Next
  BY <1>0, QuietLapses DEF Login!Next
<1>1. ASSUME NEW c \in Call, NEW u \in User, ChallengeBegin(c, u) PROVE Quiet
  BY <1>0, <1>1 DEF ChallengeBegin, TypeOK, Quiet, Confirming
<1>2. ASSUME NEW c \in Call, InsertOtp(c) PROVE Quiet
  BY <1>0, <1>2 DEF InsertOtp, TypeOK, Quiet, Confirming
<1>3. ASSUME NEW c \in Call, InsertLink(c) PROVE Quiet
  BY <1>0, <1>3 DEF InsertLink, TypeOK, Quiet, Confirming
<1>4. ASSUME NEW c \in Call, Publish(c) PROVE Quiet
  BY <1>0, <1>4 DEF Publish, TypeOK, Quiet, Confirming
<1>5. ASSUME NEW c \in Call, NEW x \in published, ConfirmLink(c, x) PROVE Login!Next
  <2>1. "link" \in Half /\ x \in Present("link") /\ x \notin Present("link")'
    BY <1>5 DEF ConfirmLink, Present, Half
  <2>2. Login!Take(c, <<x, "link">>)
    BY <1>0, <1>5, <2>1, TakeStep DEF ConfirmLink
  <2>3. <<x, "link">> \in Halves
    BY <1>0, <2>1 DEF TypeOK, Halves
  <2> QED
    BY <2>2, <2>3 DEF Login!Next, Halves
<1>6. ASSUME NEW c \in Call, NEW x \in published, NEW right \in BOOLEAN, ConfirmToken(c, x, right)
      PROVE  Login!Next
  <2>1. CASE right
    <3>1. "otp" \in Half /\ x \in Present("otp") /\ x \notin Present("otp")'
      BY <1>6 DEF ConfirmToken, Present, Half
    <3>2. Login!Take(c, <<x, "otp">>)
      BY <1>0, <1>6, <2>1, <3>1, TakeStep DEF ConfirmToken
    <3>3. <<x, "otp">> \in Halves
      BY <1>0, <3>1 DEF TypeOK, Halves
    <3> QED
      BY <3>2, <3>3 DEF Login!Next, Halves
  <2>2. CASE ~right
    BY <1>6, <1>q, <2>2 DEF ConfirmToken, Quiet
  <2> QED
    BY <2>1, <2>2
<1>7. ASSUME NEW c \in Call, DropOtherHalf(c) PROVE Quiet
  BY <1>0, <1>7 DEF DropOtherHalf, TypeOK, Quiet, Confirming
<1>8. ASSUME NEW c \in Call, LookupUser(c) PROVE Quiet
  BY <1>0, <1>8 DEF LookupUser, TypeOK, Quiet, Confirming
<1>9. ASSUME NEW c \in Call, ConfirmEmail(c) PROVE Quiet
  BY <1>0, <1>9 DEF ConfirmEmail, TypeOK, Quiet, Confirming
<1>10. ASSUME NEW c \in Call, IssueSession(c) PROVE Login!Next
  BY <1>0, <1>10, RedeemStep DEF Login!Next, Halves
<1>11. ASSUME NEW x \in Challenge, Expire(x) PROVE Quiet
  BY <1>11 DEF Expire, Quiet
<1>12. ASSUME NEW c \in Call, Abort(c) PROVE Quiet
  BY <1>0, <1>12 DEF Abort, TypeOK, Quiet, Confirming
<1>13. ASSUME Restart PROVE Quiet
  BY <1>13 DEF Restart, Quiet, Confirming
<1>14. CASE UNCHANGED vars
  BY <1>q, <1>14 DEF vars, Quiet
<1> QED
  BY <1>1, <1>2, <1>3, <1>4, <1>5, <1>6, <1>7, <1>8,
     <1>9, <1>10, <1>11, <1>12, <1>13, <1>14, <1>q
  DEF Next, Request, Advance

(* Passwordless login implements OneTimeLogin with exclusive takes: a half  *)
(* never comes back, and each is exchanged for at most one session by the   *)
(* one request that removed it.                                             *)
THEOREM ImplementsOneTimeLogin == Spec => KeepsLoginPromise
<1>1. Init => RInv /\ Login!Init
  BY InitInv, RefineInit DEF RInv, UnbornOK, Init
<1>2. RInv /\ [Next]_vars => RInv'
  BY StepInv, UnbornOKStep DEF RInv, IInv
<1>3. RInv /\ [Next]_vars => [Login!Next]_(Login!loginVars)
  BY RefineStep
<1> QED
  BY <1>1, <1>2, <1>3, PTL DEF Spec, KeepsLoginPromise, Login!Spec

-----------------------------------------------------------------------------
(* What OneTimeLoginProofs shows of the contract holds of the halves.       *)
Contract == INSTANCE OneTimeLoginProofs
              WITH Item <- Challenge \X Half, state <- LoginState, holders <- LoginHolders,
                   paid <- by, Nobody <- <<NoChallenge, "link">>, Exclusive <- TRUE

LEMMA SameContract == Login!Spec => Contract!Spec
<1>1. Login!Init => Contract!Init
  BY DEF Login!Init, Contract!Init
<1>2. [Login!Next]_(Login!loginVars) => [Contract!Next]_(Contract!loginVars)
  BY DEF Login!Next, Contract!Next, Login!loginVars, Contract!loginVars,
         Login!Lapse, Contract!Lapse, Login!Take, Contract!Take,
         Login!Redeem, Contract!Redeem, Login!Forward, Contract!Forward,
         Login!State, Contract!State
<1> QED
  BY <1>1, <1>2, PTL DEF Login!Spec, Contract!Spec

(* A half pays for one session by the contract alone, whatever the handlers *)
(* do between taking it and issuing the session.                            *)
THEOREM ContractPaysOnce == Spec => []Contract!PaysOnce
<1>1. <<NoChallenge, "link">> \notin Challenge \X Half
  BY NoChallengeAssumption
<1>2. Contract!Spec => []Contract!PaysOnce
  BY <1>1, Contract!ItemsPayOnce
<1>3. Login!Spec => Contract!Spec
  BY SameContract
<1> QED
  BY <1>2, <1>3, ImplementsOneTimeLogin, PTL DEF KeepsLoginPromise
=============================================================================
