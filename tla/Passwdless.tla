------------------------------ MODULE Passwdless ------------------------------
(***************************************************************************)
(* Passwordless login: src/authn/passwdless.  A challenge has two halves,  *)
(* a magic link and a one-time code found by its nonce, kept in two        *)
(* in-memory caches with a time to live; the entry of one half names the   *)
(* other.  Either half logs in.  A step is one cache operation or one      *)
(* database statement of a request.  The user learns link, code and nonce  *)
(* from the event the outbox delivers, and nobody guesses a random link or *)
(* nonce, so requests name challenges whose event was committed.           *)
(***************************************************************************)
EXTENDS FiniteSets, Naturals

CONSTANTS
  User, Challenge, Session, Call,
  NoUser, NoChallenge

ASSUME NoUserAssumption == NoUser \notin User
ASSUME NoChallengeAssumption == NoChallenge \notin Challenge

VARIABLES
  links, otps,    \* Caches: the challenges whose half is present
  chUser,         \* the user a challenge is for; NoUser until it is generated
  published,      \* challenges whose event is committed to the outbox
  sessions,       \* rows of sessions issued by these handlers
  by,             \* history: the challenge and the half that paid for a session
  confirmed,      \* users whose email_confirmed is TRUE
  pc, ch, half,   \* per call: next operation, challenge, half presented
  guesses,        \* history: how often the code of a challenge was compared
  touched         \* history: challenges presented, expired or lost in a restart

cacheVars == <<links, otps>>
rowVars == <<published, sessions, by, confirmed>>
callVars == <<pc, ch, half>>
history == <<guesses, touched>>
vars == <<cacheVars, chUser, rowVars, callVars, history>>

Half == {"link", "otp"}
PC == {"idle", "insert_otp", "insert_link", "publish",
       "drop", "lookup", "confirm", "issue"}

Goto(c, l) == pc' = [pc EXCEPT ![c] = l] /\ UNCHANGED <<ch, half>>

Return(c) ==
  /\ pc' = [pc EXCEPT ![c] = "idle"]
  /\ ch' = [ch EXCEPT ![c] = NoChallenge]
  /\ half' = [half EXCEPT ![c] = "link"]

Init ==
  /\ links = {} /\ otps = {}
  /\ chUser = [x \in Challenge |-> NoUser]
  /\ published = {} /\ sessions = {} /\ confirmed = {}
  /\ by = [s \in Session |-> <<NoChallenge, "link">>]
  /\ pc = [c \in Call |-> "idle"]
  /\ ch = [c \in Call |-> NoChallenge]
  /\ half = [c \in Call |-> "link"]
  /\ guesses = [x \in Challenge |-> 0]
  /\ touched = {}

-----------------------------------------------------------------------------
(* challenge_by_email, challenge_by_username: the user is found, and link,  *)
(* nonce and code are drawn.                                                *)
ChallengeBegin(c, u) ==
  /\ pc[c] = "idle"
  /\ \E x \in Challenge :
       /\ chUser[x] = NoUser
       /\ chUser' = [chUser EXCEPT ![x] = u]
       /\ ch' = [ch EXCEPT ![c] = x]
  /\ pc' = [pc EXCEPT ![c] = "insert_otp"]
  /\ UNCHANGED <<cacheVars, rowVars, half, history>>

(* Slip: the event is committed before both halves are in place.            *)
InsertOtpPublishing(c) ==
  /\ pc[c] = "insert_otp"
  /\ otps' = otps \cup {ch[c]}
  /\ published' = published \cup {ch[c]}
  /\ Goto(c, "insert_link")
  /\ UNCHANGED <<links, chUser, sessions, by, confirmed, history>>

(* release_pair: the code's entry first.                                    *)
InsertOtp(c) ==
  /\ pc[c] = "insert_otp"
  /\ otps' = otps \cup {ch[c]}
  /\ Goto(c, "insert_link")
  /\ UNCHANGED <<links, chUser, rowVars, history>>

InsertLink(c) ==
  /\ pc[c] = "insert_link"
  /\ links' = links \cup {ch[c]}
  /\ Goto(c, "publish")
  /\ UNCHANGED <<otps, chUser, rowVars, history>>

(* publish_challenge: one transaction.  When it fails the halves stay where *)
(* they are, known to nobody (Abort).                                       *)
Publish(c) ==
  /\ pc[c] = "publish"
  /\ published' = published \cup {ch[c]}
  /\ Return(c)
  /\ UNCHANGED <<cacheVars, chUser, sessions, by, confirmed, history>>

(* Slip: the entry is read and left in place.                               *)
ConfirmLinkGet(c, x) ==
  /\ pc[c] = "idle" /\ x \in links
  /\ pc' = [pc EXCEPT ![c] = "drop"]
  /\ ch' = [ch EXCEPT ![c] = x]
  /\ half' = [half EXCEPT ![c] = "link"]
  /\ touched' = touched \cup {x}
  /\ UNCHANGED <<cacheVars, chUser, rowVars, guesses>>

(* confirm_link: whoever removes the entry goes on; the rest get BadToken,  *)
(* which changes nothing.                                                   *)
ConfirmLink(c, x) ==
  /\ pc[c] = "idle" /\ x \in links
  /\ links' = links \ {x}
  /\ pc' = [pc EXCEPT ![c] = "drop"]
  /\ ch' = [ch EXCEPT ![c] = x]
  /\ half' = [half EXCEPT ![c] = "link"]
  /\ touched' = touched \cup {x}
  /\ UNCHANGED <<otps, chUser, rowVars, guesses>>

(* Slip: the entry is removed only if the code is right.                    *)
ConfirmTokenOnSuccess(c, x, right) ==
  /\ pc[c] = "idle" /\ x \in otps
  /\ guesses' = [guesses EXCEPT ![x] = @ + 1]
  /\ touched' = touched \cup {x}
  /\ \/ /\ right
        /\ otps' = otps \ {x}
        /\ pc' = [pc EXCEPT ![c] = "drop"]
        /\ ch' = [ch EXCEPT ![c] = x]
        /\ half' = [half EXCEPT ![c] = "otp"]
     \/ ~right /\ UNCHANGED <<otps, callVars>>
  /\ UNCHANGED <<links, chUser, rowVars>>

(* confirm_token: the entry is removed before the code is compared, so a    *)
(* wrong code removes it too and leaves the link.                           *)
ConfirmToken(c, x, right) ==
  /\ pc[c] = "idle" /\ x \in otps
  /\ otps' = otps \ {x}
  /\ guesses' = [guesses EXCEPT ![x] = @ + 1]
  /\ touched' = touched \cup {x}
  /\ \/ /\ right
        /\ pc' = [pc EXCEPT ![c] = "drop"]
        /\ ch' = [ch EXCEPT ![c] = x]
        /\ half' = [half EXCEPT ![c] = "otp"]
     \/ ~right /\ UNCHANGED callVars
  /\ UNCHANGED <<links, chUser, rowVars>>

(* Slip: the other half is looked for under the wrong key.                  *)
DropOtherHalfWrongKey(c) ==
  /\ pc[c] = "drop"
  /\ Goto(c, "lookup")
  /\ UNCHANGED <<cacheVars, chUser, rowVars, history>>

(* Both then remove the other half, whether or not it is still there.       *)
DropOtherHalf(c) ==
  /\ pc[c] = "drop"
  /\ \/ half[c] = "link" /\ otps' = otps \ {ch[c]} /\ UNCHANGED links
     \/ half[c] = "otp" /\ links' = links \ {ch[c]} /\ UNCHANGED otps
  /\ Goto(c, "lookup")
  /\ UNCHANGED <<chUser, rowVars, history>>

(* The handlers: get_user_by_id, update of email_confirmed, whose failure   *)
(* is logged, and issue_session.  An error of the first or the last ends    *)
(* the request (Abort).                                                     *)
LookupUser(c) ==
  /\ pc[c] = "lookup"
  /\ Goto(c, "confirm")
  /\ UNCHANGED <<cacheVars, chUser, rowVars, history>>

(* Slip: the update names the challenge instead of the user.                *)
ConfirmEmailByChallenge(c) ==
  /\ pc[c] = "confirm"
  /\ confirmed' \in {confirmed \cup {ch[c]}, confirmed}
  /\ Goto(c, "issue")
  /\ UNCHANGED <<cacheVars, chUser, published, sessions, by, history>>

ConfirmEmail(c) ==
  /\ pc[c] = "confirm"
  /\ confirmed' \in {confirmed \cup {chUser[ch[c]]}, confirmed}
  /\ Goto(c, "issue")
  /\ UNCHANGED <<cacheVars, chUser, published, sessions, by, history>>

IssueSession(c) ==
  /\ pc[c] = "issue"
  /\ \E s \in Session \ sessions :
       /\ sessions' = sessions \cup {s}
       /\ by' = [by EXCEPT ![s] = <<ch[c], half[c]>>]
  /\ Return(c)
  /\ UNCHANGED <<cacheVars, chUser, published, confirmed, history>>

-----------------------------------------------------------------------------
(* The caches drop an entry 120 s after its insertion, each on its own.     *)
Expire(x) ==
  /\ \/ x \in links /\ links' = links \ {x} /\ UNCHANGED otps
     \/ x \in otps /\ otps' = otps \ {x} /\ UNCHANGED links
  /\ touched' = touched \cup {x}
  /\ UNCHANGED <<chUser, rowVars, callVars, guesses>>

(* Slip: a request that ends early puts the link back for another try.      *)
AbortPutsBack(c) ==
  /\ pc[c] # "idle"
  /\ links' = links \cup {x \in published : x = ch[c] /\ half[c] = "link"}
  /\ Return(c)
  /\ UNCHANGED <<otps, chUser, rowVars, history>>

(* A statement fails or the client disconnects.                             *)
Abort(c) ==
  /\ pc[c] # "idle"
  /\ Return(c)
  /\ UNCHANGED <<cacheVars, chUser, rowVars, history>>

(* The process restarts: the caches and every request are gone, the rows    *)
(* and the outbox are not.                                                  *)
Restart ==
  /\ links' = {} /\ otps' = {}
  /\ pc' = [c \in Call |-> "idle"]
  /\ ch' = [c \in Call |-> NoChallenge]
  /\ half' = [c \in Call |-> "link"]
  /\ touched' = touched \cup {x \in Challenge : chUser[x] # NoUser}
  /\ UNCHANGED <<chUser, rowVars, guesses>>

Request(c) ==
  \/ \E u \in User : ChallengeBegin(c, u)
  \/ \E x \in published : ConfirmLink(c, x)
  \/ \E x \in published, right \in BOOLEAN : ConfirmToken(c, x, right)

Advance(c) ==
  \/ InsertOtp(c) \/ InsertLink(c) \/ Publish(c)
  \/ DropOtherHalf(c) \/ LookupUser(c) \/ ConfirmEmail(c) \/ IssueSession(c)

Next ==
  \/ \E c \in Call : Request(c) \/ Advance(c) \/ Abort(c)
  \/ \E x \in Challenge : Expire(x)
  \/ Restart

Spec == Init /\ [][Next]_vars

-----------------------------------------------------------------------------
TypeOK ==
  /\ links \subseteq Challenge /\ otps \subseteq Challenge
  /\ chUser \in [Challenge -> User \cup {NoUser}]
  /\ published \subseteq Challenge /\ sessions \subseteq Session
  /\ by \in [Session -> (Challenge \cup {NoChallenge}) \X Half]
  /\ confirmed \subseteq User
  /\ pc \in [Call -> PC]
  /\ ch \in [Call -> Challenge \cup {NoChallenge}]
  /\ half \in [Call -> Half]
  /\ guesses \in [Challenge -> Nat]
  /\ touched \subseteq Challenge

(* One half of a challenge pays for one session, however many requests      *)
(* present it.                                                              *)
EachHalfOnce ==
  \A s, t \in sessions : by[s] = by[t] => s = t

(* A code is compared once, so guessing it has a single try however many    *)
(* requests name its nonce at the same time.                                *)
OneGuess == \A x \in Challenge : guesses[x] <= 1

(* When confirm_link or confirm_token has answered, neither half of the     *)
(* challenge is left or will come back: what is still to log in with it was *)
(* taken before.                                                            *)
AnsweredMeansSpent ==
  /\ \A c \in Call : pc[c] \in {"lookup", "confirm", "issue"}
                       => ch[c] \notin links \cup otps
  /\ \A s \in sessions : by[s][1] \notin links \cup otps

(* A challenge that reached its user works: its halves are in both caches   *)
(* until one is presented or expires or the process restarts.               *)
DeliveredWorks == published \ touched \subseteq links \cap otps

(* Either half of a challenge, as an item of OneTimeLogin: it is unknown     *)
(* until its entry is inserted, and its holders are the requests that        *)
(* removed it and have not answered.                                        *)
Present(h) == IF h = "link" THEN links ELSE otps
BeforeInsert(h) == IF h = "link" THEN {"insert_otp", "insert_link"} ELSE {"insert_otp"}
Unborn(h) ==
  {x \in Challenge : chUser[x] = NoUser \/ \E c \in Call : ch[c] = x /\ pc[c] \in BeforeInsert(h)}

LoginState ==
  [i \in Challenge \X Half |-> CASE i[1] \in Present(i[2]) -> "offered"
                               [] i[1] \in Unborn(i[2]) \ Present(i[2]) -> "unknown"
                               [] OTHER -> "gone"]

LoginHolders ==
  [i \in Challenge \X Half |->
     {c \in Call : pc[c] \in {"drop", "lookup", "confirm", "issue"} /\ <<ch[c], half[c]>> = i}]

Login == INSTANCE OneTimeLogin
           WITH Item <- Challenge \X Half, state <- LoginState, holders <- LoginHolders,
                paid <- by, Nobody <- <<NoChallenge, "link">>, Exclusive <- TRUE

(* The two caches and the handlers together are such a login: a half once    *)
(* gone stays gone, is taken by one request only, and a request that took    *)
(* it exchanges it for one session or gives up, across expiry and restarts.  *)
KeepsLoginPromise == Login!Spec

(* API.md: the challenge material (code, link and nonce) is single-use.     *)
SingleUse ==
  \A s, t \in sessions : by[s][1] = by[t][1] => s = t
=============================================================================
