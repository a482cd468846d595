-------------------------- MODULE OneTimeLoginProofs --------------------------
(***************************************************************************)
(* What follows from the contract of OneTimeLogin alone, and so holds of   *)
(* every login that implements it.                                         *)
(***************************************************************************)
EXTENDS OneTimeLogin, TLAPS

TypeInv ==
  /\ state \in [Item -> State]
  /\ holders \in [Item -> SUBSET Call]
  /\ paid \in [Session -> Item \cup {Nobody}]

Paid(x) == {s \in Session : paid[s] = x}

(* With exclusive takes an item has nobody's hands on it before it is gone, *)
(* and after that either one holder or one session.                         *)
OneHand ==
  Exclusive => \A x \in Item :
    /\ state[x] # "gone" => holders[x] = {} /\ Paid(x) = {}
    /\ \A c, d \in holders[x] : c = d
    /\ \A s, t \in Paid(x) : s = t
    /\ holders[x] = {} \/ Paid(x) = {}

Inv == TypeInv /\ OneHand

LEMMA InitInv == ASSUME Nobody \notin Item, Init PROVE Inv
  BY DEF Init, Inv, TypeInv, OneHand, Paid, State

LEMMA StepInv == ASSUME Nobody \notin Item, Inv, [Next]_loginVars PROVE Inv'
<1> USE DEF Inv, TypeInv
<1>1. CASE Lapse
  <2>1. TypeInv'
    BY <1>1 DEF Lapse, Forward
  <2>2. ASSUME NEW x \in Item
        PROVE  /\ Paid(x)' = Paid(x) /\ holders'[x] \subseteq holders[x]
               /\ state'[x] # "gone" => state[x] # "gone"
    BY <1>1 DEF Lapse, Forward, Paid
  <2>3. OneHand'
    BY <2>2 DEF OneHand
  <2> QED
    BY <2>1, <2>3
<1>2. ASSUME NEW c \in Call, NEW x \in Item, Take(c, x) PROVE Inv'
  <2>1. TypeInv'
    BY <1>2 DEF Take, Forward
  <2>2. ASSUME Exclusive, NEW y \in Item
        PROVE  /\ state'[y] # "gone" => holders'[y] = {} /\ Paid(y)' = {}
               /\ \A d, e \in holders'[y] : d = e
               /\ \A s, t \in Paid(y)' : s = t
               /\ holders'[y] = {} \/ Paid(y)' = {}
    <3>1. Paid(y)' = Paid(y)
      BY <1>2 DEF Take, Paid
    <3>2. CASE y = x
      <4>1. holders[x] = {} /\ Paid(x) = {} /\ state'[x] = "gone"
        BY <1>2, <2>2 DEF Take, OneHand
      <4>2. holders'[x] = {c}
        BY <1>2, <4>1 DEF Take
      <4> QED
        BY <3>1, <3>2, <4>1, <4>2
    <3>3. CASE y # x
      <4>1. holders'[y] = holders[y] /\ (state'[y] # "gone" => state[y] # "gone")
        BY <1>2, <3>3 DEF Take, Forward
      <4> QED
        BY <2>2, <3>1, <4>1 DEF OneHand
    <3> QED
      BY <3>2, <3>3
  <2> QED
    BY <2>1, <2>2 DEF OneHand
<1>3. ASSUME NEW c \in Call, NEW x \in Item, NEW s \in Session, Redeem(c, x, s) PROVE Inv'
  <2>1. TypeInv'
    BY <1>3 DEF Redeem
  <2>2. Paid(x)' = Paid(x) \cup {s} /\ \A y \in Item \ {x} : Paid(y)' = Paid(y)
    BY <1>3 DEF Redeem, Paid
  <2>3. holders'[x] = holders[x] \ {c} /\ \A y \in Item \ {x} : holders'[y] = holders[y]
    BY <1>3 DEF Redeem
  <2>4. ASSUME Exclusive
        PROVE  Paid(x) = {} /\ holders'[x] = {} /\ state'[x] = "gone"
    BY <1>3, <2>3, <2>4 DEF Redeem, OneHand
  <2>5. OneHand'
    BY <1>3, <2>2, <2>3, <2>4 DEF Redeem, OneHand
  <2> QED
    BY <2>1, <2>5
<1>4. CASE UNCHANGED loginVars
  BY <1>4 DEF loginVars, OneHand, Paid
<1> QED
  BY <1>1, <1>2, <1>3, <1>4 DEF Next

(* Exclusive takes make an item pay once, for any items, sessions and calls. *)
THEOREM ItemsPayOnce == ASSUME Nobody \notin Item PROVE Spec => []PaysOnce
<1>1. Inv => PaysOnce
  BY DEF Inv, TypeInv, OneHand, PaysOnce, Paid
<1> QED
  BY <1>1, InitInv, StepInv, PTL DEF Spec

(* An item that went away is drained, with exclusive takes or without.      *)
THEOREM GoneItemsDrain == Spec => GoneDrains
<1> DEFINE Drains(x) ==
      state[x] = "gone" =>
        /\ state'[x] = "gone" /\ holders'[x] \subseteq holders[x]
        /\ (\E s \in Session : paid[s] # x /\ paid'[s] = x) => holders'[x] # holders[x]
<1>1. Init => TypeInv
  BY DEF Init, TypeInv, State
<1>2. TypeInv /\ [Next]_loginVars => TypeInv'
  BY DEF TypeInv, Next, Lapse, Take, Redeem, Forward, loginVars
<1>3. ASSUME TypeInv, [Next]_loginVars, NEW x \in Item PROVE Drains(x)
  <2>1. CASE Lapse
    BY <2>1 DEF Lapse, Forward
  <2>2. ASSUME NEW c \in Call, NEW y \in Item, Take(c, y) PROVE Drains(x)
    BY <1>3, <2>2 DEF Take, Forward, TypeInv
  <2>3. ASSUME NEW c \in Call, NEW y \in Item, NEW s \in Session, Redeem(c, y, s)
        PROVE  Drains(x)
    BY <1>3, <2>3 DEF Redeem, TypeInv
  <2>4. CASE UNCHANGED loginVars
    BY <2>4 DEF loginVars
  <2> QED
    BY <1>3, <2>1, <2>2, <2>3, <2>4 DEF Next
<1>4. TypeInv /\ [Next]_loginVars => [\A x \in Item : Drains(x)]_loginVars
  BY <1>3
<1> QED
  BY <1>1, <1>2, <1>4, PTL DEF Spec, GoneDrains
=============================================================================
