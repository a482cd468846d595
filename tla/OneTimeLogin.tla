----------------------------- MODULE OneTimeLogin -----------------------------
(***************************************************************************)
(* What the login ceremonies of src/authn/passwdless and src/authn/passkey *)
(* promise, whatever their caches do.  An item (one half of a passwordless *)
(* challenge, a passkey ceremony) is offered once and goes away once.  A   *)
(* call takes an item while it is offered, and may then redeem it for one  *)
(* session or give it up.  Where takes are exclusive, a take withdraws the *)
(* item; where they are not, several calls may take it before it goes.     *)
(***************************************************************************)
CONSTANTS Item, Session, Call, Nobody, Exclusive

VARIABLES
  state,    \* of an item
  holders,  \* the calls that took an item and have not answered
  paid      \* the item a session was issued for

loginVars == <<state, holders, paid>>

State == {"unknown", "offered", "gone"}

Init ==
  /\ state = [x \in Item |-> "unknown"]
  /\ holders = [x \in Item |-> {}]
  /\ paid = [s \in Session |-> Nobody]

(* An item never comes back from where it went.                             *)
Forward ==
  /\ state' \in [Item -> State]
  /\ \A x \in Item : \/ state'[x] = state[x]
                     \/ state[x] = "unknown"
                     \/ state[x] = "offered" /\ state'[x] = "gone"

(* Items are offered, expire or are overwritten; calls give up.             *)
Lapse ==
  /\ Forward
  /\ holders' \in [Item -> SUBSET Call]
  /\ \A x \in Item : holders'[x] \subseteq holders[x]
  /\ UNCHANGED paid

Take(c, x) ==
  /\ state[x] = "offered"
  /\ Forward /\ (Exclusive => state'[x] = "gone")
  /\ holders' = [holders EXCEPT ![x] = @ \cup {c}]
  /\ UNCHANGED paid

Redeem(c, x, s) ==
  /\ c \in holders[x] /\ paid[s] = Nobody
  /\ paid' = [paid EXCEPT ![s] = x]
  /\ holders' = [holders EXCEPT ![x] = @ \ {c}]
  /\ UNCHANGED state

Next ==
  \/ Lapse
  \/ \E c \in Call, x \in Item : Take(c, x) \/ \E s \in Session : Redeem(c, x, s)

Spec == Init /\ [][Next]_loginVars
-----------------------------------------------------------------------------
(* With exclusive takes an item pays for one session, however many calls    *)
(* present it.                                                              *)
PaysOnce ==
  Exclusive => \A s, t \in Session : paid[s] = paid[t] /\ paid[s] # Nobody => s = t

(* Without them, an item that went away pays for no more sessions than      *)
(* calls had taken it by then: no call joins them, and each session costs   *)
(* one of them.                                                             *)
GoneDrains ==
  [][\A x \in Item : state[x] = "gone" =>
       /\ state'[x] = "gone" /\ holders'[x] \subseteq holders[x]
       /\ (\E s \in Session : paid[s] # x /\ paid'[s] = x) => holders'[x] # holders[x]]_loginVars
=============================================================================
