------------------------------ MODULE TokenStore ------------------------------
(***************************************************************************)
(* What the refresh tokens of src/authn/domain/jwt/service.rs promise,     *)
(* whatever their table does.  A token is issued live to one user and is   *)
(* closed once.  A refresh accepts a live token and then exchanges it for  *)
(* a new one of the same user, which closes it, or gives up.  A token may  *)
(* be closed while refreshes that accepted it are under way.               *)
(***************************************************************************)
CONSTANTS User, Token, Call, NoUser

VARIABLES
  state,  \* of a token
  owner,  \* the user a token was issued to
  using   \* calls that accepted a token and have not answered

storeVars == <<state, owner, using>>

State == {"unknown", "live", "closed"}

Init ==
  /\ state = [t \in Token |-> "unknown"]
  /\ owner = [t \in Token |-> NoUser]
  /\ using = [t \in Token |-> {}]

Issue(u, t) ==
  /\ state[t] = "unknown"
  /\ state' = [state EXCEPT ![t] = "live"]
  /\ owner' = [owner EXCEPT ![t] = u]
  /\ UNCHANGED using

Accept(c, t) ==
  /\ state[t] = "live"
  /\ using' = [using EXCEPT ![t] = @ \cup {c}]
  /\ UNCHANGED <<state, owner>>

Exchange(c, t, n) ==
  /\ c \in using[t] /\ state[n] = "unknown"
  /\ state' = [state EXCEPT ![t] = "closed", ![n] = "live"]
  /\ owner' = [owner EXCEPT ![n] = owner[t]]
  /\ using' = [using EXCEPT ![t] = @ \ {c}]

GiveUp(c, t) ==
  /\ using' = [using EXCEPT ![t] = @ \ {c}]
  /\ UNCHANGED <<state, owner>>

(* Logout, a revoke-all, the user's deletion, or the passing of time.       *)
Close ==
  /\ \A t \in Token : state'[t] = state[t] \/ (state[t] = "live" /\ state'[t] = "closed")
  /\ state' \in [Token -> State]
  /\ UNCHANGED <<owner, using>>

Next ==
  \/ \E c \in Call, t \in Token : GiveUp(c, t) \/ Accept(c, t)
  \/ Close
  \/ \E u \in User, t \in Token : Issue(u, t)
  \/ \E c \in Call, t, n \in Token : Exchange(c, t, n)

Spec == Init /\ [][Next]_storeVars
=============================================================================
