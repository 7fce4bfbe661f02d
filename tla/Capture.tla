------------------------------ MODULE Capture ------------------------------
(***************************************************************************)
(* Capture of a payment (Gateway.capture_payment and its handler).  The    *)
(* capability that propose returns with a committed order signs the order  *)
(* and its authorised amount with the secret of the service; a gateway     *)
(* spends it once.  What a gateway spent it keeps in memory, and a gateway *)
(* lives as long as its session: a token that lost its session gets a new  *)
(* gateway with the next capture.                                          *)
(*                                                                         *)
(* That the token is valid is checked first and changes nothing here.  The *)
(* handler captures on the event loop, one request at a time; the lock in  *)
(* capture_payment is for every caller a Gateway may have, and several are *)
(* modelled.                                                               *)
(***************************************************************************)
EXTENDS Integers

CONSTANTS
  Callers,      \* those who capture at the same time
  Charged,      \* orders of the rail
  Sums,         \* amounts, as authorised and as asked for
  MaxGateways   \* bound on the gateways built

ASSUME CaptureAssumption == MaxGateways \in Nat /\ Sums \subseteq Nat

VARIABLES
  signed,     \* what capabilities were returned for: orders and amounts
  built,      \* gateways built so far, numbered from 1
  living,     \* those a session still has
  spent,      \* spent[g]: capabilities in _spent_jtis of gateway g
  request,    \* request[c]: what caller c is doing
  captured    \* captured[g]: captures gateway g sent the rail, in order

captureVars == <<signed, built, living, spent, request, captured>>

Gateways == 1 .. MaxGateways

Capability == [order : Charged, amount : Sums]

Idle == [pc |-> "idle"]

CaptureInit ==
  /\ signed = {} /\ built = 0 /\ living = {}
  /\ spent = [g \in Gateways |-> {}]
  /\ request = [c \in Callers |-> Idle]
  /\ captured = [g \in Gateways |-> [x \in Capability |-> 0]]

-----------------------------------------------------------------------------
(* A session is created, and its gateway has spent nothing.                *)
Create ==
  /\ built < MaxGateways
  /\ built' = built + 1
  /\ living' = living \cup {built + 1}
  /\ UNCHANGED <<signed, spent, request, captured>>

(* A session is evicted, replaced, or gone with a restart; a request that  *)
(* is being served keeps its gateway.                                      *)
Drop(g) ==
  /\ g \in living
  /\ living' = living \ {g}
  /\ UNCHANGED <<signed, built, spent, request, captured>>

(* propose commits an order at the amount the action had.                  *)
Mint(x) ==
  /\ \A y \in signed : y.order # x.order
  /\ signed' = signed \cup {x}
  /\ UNCHANGED <<built, living, spent, request, captured>>

(* verify_capture_capability: the capability is the signature of this very *)
(* order and amount.                                                       *)
Verified(capability, order, amount) ==
  capability = [order |-> order, amount |-> amount]

(* A request that carries a capability it was given, and names an order    *)
(* and an amount; `capture.binding' ends it.                               *)
Ask(c, g, capability, order, amount) ==
  /\ request[c] = Idle /\ g \in living
  /\ capability \in signed /\ Verified(capability, order, amount)
  /\ request' = [request EXCEPT
       ![c] = [pc |-> "verified", gateway |-> g, capability |-> capability,
               asked |-> [order |-> order, amount |-> amount]]]
  /\ UNCHANGED <<signed, built, living, spent, captured>>

(* Mutant: the capability is looked up and not marked.                     *)
Spend_Unmarked(c) ==
  LET r == request[c]
  IN  /\ r.pc = "verified"
      /\ request' = [request EXCEPT
           ![c] = IF r.capability \in spent[r.gateway] THEN Idle
                  ELSE [r EXCEPT !.pc = "spent"]]
      /\ UNCHANGED <<signed, built, living, spent, captured>>

(* Under the lock: `capture.replay', or the capability is marked spent.    *)
Spend(c) ==
  LET r == request[c]
  IN  /\ r.pc = "verified"
      /\ request' = [request EXCEPT
           ![c] = IF r.capability \in spent[r.gateway] THEN Idle
                  ELSE [r EXCEPT !.pc = "spent"]]
      /\ spent' = [spent EXCEPT ![r.gateway] = @ \cup {r.capability}]
      /\ UNCHANGED <<signed, built, living, captured>>

(* The rail captures or does not; an answer that is lost or an error is an *)
(* exception of the request, and the capability stays spent.               *)
Rail(c, done) ==
  LET r == request[c]
  IN  /\ r.pc = "spent"
      /\ captured' = IF done THEN [captured EXCEPT ![r.gateway][r.asked] = @ + 1]
                     ELSE captured
      /\ request' = [request EXCEPT ![c] = Idle]
      /\ UNCHANGED <<signed, built, living, spent>>

CaptureNext ==
  \/ Create
  \/ \E g \in Gateways : Drop(g)
  \/ \E x \in Capability : Mint(x)
  \/ \E c \in Callers :
       \/ \E g \in living, x \in signed, o \in Charged, a \in Sums : Ask(c, g, x, o, a)
       \/ Spend(c)
       \/ \E done \in BOOLEAN : Rail(c, done)

CaptureSpec == CaptureInit /\ [][CaptureNext]_captureVars
-----------------------------------------------------------------------------
Request == [pc : {"verified", "spent"}, gateway : Gateways, capability : Capability,
            asked : Capability]

CaptureTypes ==
  /\ signed \subseteq Capability
  /\ built \in 0 .. MaxGateways /\ living \subseteq Gateways
  /\ spent \in [Gateways -> SUBSET Capability]
  /\ request \in [Callers -> {Idle} \cup Request]
  /\ captured \in [Gateways -> [Capability -> Nat]]

(* A gateway captures an order once, and at the amount that was authorised *)
(* when it was placed (core.py:552, price.flip#004), whoever else captures *)
(* meanwhile and whatever became of an earlier try.                        *)
CapturedAsSigned ==
  \A g \in Gateways, x \in Capability :
    /\ captured[g][x] <= 1
    /\ captured[g][x] > 0 => x \in signed

(* Does not hold: the next gateway of the token has forgotten what its     *)
(* predecessor spent.                                                      *)
CapturedOnce ==
  \A g, h \in Gateways, x \in Capability :
    g # h => captured[g][x] = 0 \/ captured[h][x] = 0
=============================================================================
