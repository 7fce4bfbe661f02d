--------------------------- MODULE GatewayProofs ---------------------------
(***************************************************************************)
(* Theorems about Gateway, for every set of callers and intents, every     *)
(* policy and every rail.                                                  *)
(***************************************************************************)
EXTENDS Gateway, OperatorProofs

-----------------------------------------------------------------------------
(* Type correctness.                                                       *)

(* The clauses combine to a verdict.                                       *)
LEMMA EvaluateType ==
  ASSUME NEW i \in Intents, NEW a, NEW ok \in BOOLEAN, NEW s \in Screens
  PROVE  EvaluateAll(i, a, ok, s) \in Verdict
<1>1. {s, BudgetPerTransaction(a), BudgetTotal(a), Velocity,
       ItemDenyRecent(i), AfaRequired(a, ok)} \in SUBSET Verdict
  BY GatewayAssumption
     DEF BudgetPerTransaction, BudgetTotal, Velocity, ItemDenyRecent,
         AfaRequired, DenyIf, Verdict
<1> QED  BY <1>1, CombineType DEF EvaluateAll

Order == [charged : Nat, status : {"created", "voided"}]

(* Placing an order keeps the rail's type.                                 *)
LEMMA PlaceType ==
  ASSUME TypeOK, NEW i \in Intents, NEW a \in Amounts \cup Nat, Place(i, a)
  PROVE  orders' \in [Intents -> Seq(Order)]
<1>1. PICK m \in Multipliers :
        orders' = [orders EXCEPT
          ![i] = Append(@, [charged |-> m * a, status |-> "created"])]
  BY DEF Place
<1>2. m \in Nat /\ a \in Nat /\ m * a \in Nat
  BY GatewayAssumption
<1>3. [charged |-> m * a, status |-> "created"] \in Order
  BY <1>2 DEF Order
<1>4. orders \in [Intents -> Seq(Order)]
  BY DEF TypeOK, Order
<1>5. Append(orders[i], [charged |-> m * a, status |-> "created"]) \in Seq(Order)
  BY <1>3, <1>4
<1> QED  BY <1>1, <1>4, <1>5

(* Voiding an order keeps the rail's type.                                 *)
LEMMA VoidType ==
  ASSUME NEW s \in Seq(Order), NEW k \in Nat
  PROVE  [s EXCEPT ![k].status = "voided"] \in Seq(Order)
<1> DEFINE t == [s EXCEPT ![k].status = "voided"]
<1>1. PICK n \in Nat : s \in [1 .. n -> Order]
  OBVIOUS
<1>2. t \in [1 .. n -> Order]
  BY <1>1 DEF Order
<1> QED  BY <1>2

PC == {"idle", "evaluate", "reserve", "send", "answered", "diverged",
       "refused", "audit"}

CallType == [pc : PC, intent : Intents \cup {NoIntent}, amount : Nat,
             order : Nat, approved : BOOLEAN, sent : BOOLEAN,
             executed : BOOLEAN, verdict : Verdict]

LEMMA CallTyped == TypeOK => call \in [Callers -> CallType]
BY DEF TypeOK, CallType, PC

(* What a caller past Enter works on is an intent.                         *)
Working == \A c \in Callers : call[c].pc # "idle" => call[c].intent \in Intents

ReconWorking == recon.pc = "mark" => recon.intent \in Intents

LEMMA WorkingInit == Init => Working /\ ReconWorking
BY DEF Init, Working, ReconWorking, Idle, Resting

LEMMA WorkingNext ==
  ASSUME TypeOK, Working, ReconWorking, [Next]_vars
  PROVE  Working' /\ ReconWorking'
<1> USE DEF Working, ReconWorking
<1>0. call \in [Callers -> CallType]
  BY CallTyped
<1>1. ASSUME NEW c \in Callers, Propose(c)
      PROVE  Working' /\ ReconWorking'
  <2>1. ASSUME NEW i \in Intents, NEW a \in Amounts, Enter(c, i, a)
        PROVE  Working' /\ ReconWorking'
    BY <1>0, <2>1 DEF Enter, Idle
  <2>2. ASSUME NEW s \in Screens, Evaluate(c, s)
        PROVE  Working' /\ ReconWorking'
    BY <1>0, <2>2 DEF Evaluate, CallType
  <2>3. CASE Reserve(c)
    BY <1>0, <2>3 DEF Reserve, CallType
  <2>4. ASSUME NEW o \in Outcomes, Send(c, o)
        PROVE  Working' /\ ReconWorking'
    <3>1. AfterRail(call[c], o).intent \in {call[c].intent, NoIntent}
          /\ (AfterRail(call[c], o).intent = NoIntent =>
                AfterRail(call[c], o).pc = "idle" \/ call[c].intent = NoIntent)
      BY <1>0, GatewayAssumption DEF AfterRail, Idle, CallType, Outcome
    <3> QED  BY <1>0, <2>4, <3>1 DEF Send, CallType
  <2>5. CASE Commit(c)
    BY <1>0, <2>5 DEF Commit, CallType
  <2>6. ASSUME NEW w \in VoidAnswers, Void(c, w)
        PROVE  Working' /\ ReconWorking'
    BY <1>0, <2>6 DEF Void, CallType, Idle
  <2>7. CASE MarkFailed(c)
    BY <1>0, <2>7 DEF MarkFailed, CallType
  <2>8. CASE Record(c)
    BY <1>0, <2>8 DEF Record, Idle
  <2> QED  BY <1>1, <2>1, <2>2, <2>3, <2>4, <2>5, <2>6, <2>7, <2>8 DEF Propose
<1>2. CASE Reconcile
  <2>1. UNCHANGED call
    BY <1>2 DEF Reconcile, ReconStart, ReconAsk, ReconMark
  <2>2. CASE ReconStart
    BY <2>1, <2>2 DEF ReconStart, TypeOK
  <2>3. ASSUME NEW i \in Intents, NEW f \in BOOLEAN, ReconAsk(i, f)
        PROVE  ReconWorking'
    BY <2>3 DEF ReconAsk
  <2>4. CASE ReconMark
    BY <2>1, <2>4 DEF ReconMark, Resting
  <2> QED  BY <1>2, <2>1, <2>2, <2>3, <2>4 DEF Reconcile
<1>3. CASE Environment
  BY <1>3 DEF Environment, Land, Approve, Lapse, Crash, Idle, Resting
<1>4. CASE UNCHANGED vars
  BY <1>4 DEF vars
<1> QED  BY <1>1, <1>2, <1>3, <1>4 DEF Next

(* The local variables of a call keep their type, whatever the rail does.  *)
LEMMA AfterRailType ==
  ASSUME TypeOK, NEW c \in Callers, NEW o \in Outcomes,
         call[c].intent \in Intents
  PROVE  AfterRail(call[c], o) \in CallType
<1>1. call[c] \in CallType
  BY CallTyped
<1>2. Len(orders[call[c].intent]) + 1 \in Nat
  BY DEF TypeOK
<1>3. o.answer \in {"ok", "timeout", "refused", "exception"}
  BY GatewayAssumption DEF Outcome
<1>4. CASE o.answer = "ok"
  BY <1>1, <1>2, <1>4 DEF AfterRail, CallType, PC
<1>5. CASE o.answer = "refused"
  BY <1>1, <1>5 DEF AfterRail, CallType, PC
<1>6. CASE o.answer = "timeout"
  BY <1>1, <1>6 DEF AfterRail, CallType, PC, Verdict
<1>7. CASE o.answer = "exception"
  BY <1>7 DEF AfterRail, Idle, CallType, PC, Verdict
<1> QED  BY <1>3, <1>4, <1>5, <1>6, <1>7

LEMMA SetEntryType ==
  ASSUME TypeOK, NEW i, NEW s \in EntryState, SetEntry(i, s)
  PROVE  ledger' \in [Intents -> [state : EntryState, amount : Nat]]
BY DEF TypeOK, SetEntry

LEMMA TypeInit == Init => TypeOK
BY GatewayAssumption
   DEF Init, TypeOK, Idle, Resting, EntryState, Verdict

LEMMA TypeNext ==
  ASSUME TypeOK, Working, ReconWorking, [Next]_vars
  PROVE  TypeOK'
<1>0. call \in [Callers -> CallType]
  BY CallTyped
<1>a. ASSUME lock' \in Callers \cup {NoCaller},
             call' \in [Callers -> CallType],
             ledger' \in [Intents -> [state : EntryState, amount : Nat]],
             approved' \subseteq Intents,
             audit' \subseteq Intents,
             orders' \in [Intents -> Seq(Order)],
             wire' \subseteq [intent : Intents, amount : Nat],
             recon' \in [pc : {"idle", "scan", "mark"}, todo : SUBSET Intents,
                        intent : Intents \cup {NoIntent}, found : BOOLEAN],
             crashes' \in 0 .. MaxCrashes
      PROVE  TypeOK'
  BY <1>a DEF TypeOK, CallType, PC, Order
<1>b. orders \in [Intents -> Seq(Order)]
  BY DEF TypeOK, Order
<1>1. ASSUME NEW c \in Callers, Propose(c)
      PROVE  TypeOK'
  <2>0. call[c] \in CallType
    BY <1>0
  <2>1. ASSUME NEW i \in Intents, NEW a \in Amounts, Enter(c, i, a)
        PROVE  TypeOK'
    <3>1. [Idle EXCEPT !.pc = "evaluate", !.intent = i, !.amount = a] \in CallType
      BY GatewayAssumption DEF Idle, CallType, PC, Verdict
    <3> QED  BY <1>0, <1>a, <1>b, <2>1, <3>1 DEF Enter, TypeOK
  <2>2. ASSUME NEW s \in Screens, Evaluate(c, s)
        PROVE  TypeOK'
    <3> DEFINE ok == call[c].intent \in approved
               v  == EvaluateAll(call[c].intent, call[c].amount, ok, s)
    <3>0. ok \in BOOLEAN /\ call[c].intent \in Intents
      BY <2>2 DEF Evaluate, Working
    <3>1. v \in Verdict
      <4> HIDE DEF ok
      <4> QED  BY <3>0, EvaluateType
    <3>2. ASSUME NEW p \in {"reserve", "audit"}
          PROVE  [call[c] EXCEPT !.pc = p, !.approved = ok, !.verdict = v]
                    \in CallType
      <4> HIDE DEF ok, v
      <4> QED  BY <2>0, <3>0, <3>1 DEF CallType, PC
    <3> QED  BY <1>0, <1>a, <1>b, <2>2, <3>2 DEF Evaluate, TypeOK
  <2>3. CASE Reserve(c)
    <3>1. [call[c] EXCEPT !.pc = "send", !.sent = TRUE] \in CallType
      BY <2>0 DEF CallType, PC
    <3>2. [state |-> "PENDING", amount |-> call[c].amount]
             \in [state : EntryState, amount : Nat]
      BY <2>0 DEF CallType, EntryState
    <3> QED  BY <1>0, <1>a, <1>b, <2>3, <3>1, <3>2 DEF Reserve, TypeOK
  <2>4. ASSUME NEW o \in Outcomes, Send(c, o)
        PROVE  TypeOK'
    <3>1. call[c].intent \in Intents
      BY <2>4 DEF Send, Working
    <3>2. AfterRail(call[c], o) \in CallType
      BY <3>1, AfterRailType
    <3>3. orders' \in [Intents -> Seq(Order)]
      BY <1>b, <2>0, <2>4, <3>1, PlaceType DEF Send, CallType
    <3>4. wire' \subseteq [intent : Intents, amount : Nat]
      BY <2>0, <2>4, <3>1 DEF Send, TypeOK, CallType
    <3> QED  BY <1>0, <1>a, <2>4, <3>2, <3>3, <3>4 DEF Send, TypeOK
  <2>5. CASE Commit(c)
    <3>1. [call[c] EXCEPT !.pc = "audit", !.executed = TRUE] \in CallType
      BY <2>0 DEF CallType, PC
    <3>2. ledger' \in [Intents -> [state : EntryState, amount : Nat]]
      BY <2>5, SetEntryType DEF Commit, EntryState
    <3> QED  BY <1>0, <1>a, <1>b, <2>5, <3>1, <3>2 DEF Commit, TypeOK
  <2>6. ASSUME NEW w \in VoidAnswers, Void(c, w)
        PROVE  TypeOK'
    <3>1. [call[c] EXCEPT !.pc = "diverged", !.verdict = "UNKNOWN"] \in CallType
      BY <2>0 DEF CallType, PC, Verdict
    <3>2. call[c].intent \in Intents /\ call[c].order \in Nat
      BY <2>0, <2>6 DEF Void, Working, CallType
    <3>3. [orders[call[c].intent] EXCEPT ![call[c].order].status = "voided"]
             \in Seq(Order)
      BY <1>b, <3>2, VoidType
    <3>4. orders' \in [Intents -> Seq(Order)]
      BY <1>b, <2>6, <3>2, <3>3 DEF Void
    <3>5. Idle \in CallType
      BY DEF Idle, CallType, PC, Verdict
    <3> QED  BY <1>0, <1>a, <2>6, <3>1, <3>4, <3>5 DEF Void, TypeOK
  <2>7. CASE MarkFailed(c)
    <3>1. ASSUME NEW v \in Verdict
          PROVE  [call[c] EXCEPT !.pc = "audit", !.verdict = v] \in CallType
      BY <2>0 DEF CallType, PC
    <3>2. call'[c] \in CallType
      BY <1>0, <2>0, <2>7, <3>1 DEF MarkFailed, CallType, Verdict
    <3>3. call' \in [Callers -> CallType]
      BY <1>0, <2>7, <3>2 DEF MarkFailed
    <3>4. ledger' \in [Intents -> [state : EntryState, amount : Nat]]
      BY <2>7, SetEntryType DEF MarkFailed, EntryState
    <3> QED  BY <1>a, <1>b, <2>7, <3>3, <3>4 DEF MarkFailed, TypeOK
  <2>8. CASE Record(c)
    <3>1. Idle \in CallType
      BY DEF Idle, CallType, PC, Verdict
    <3>2. call[c].intent \in Intents
      BY <2>8 DEF Record, Working
    <3> QED  BY <1>0, <1>a, <1>b, <2>8, <3>1, <3>2 DEF Record, TypeOK
  <2> QED  BY <1>1, <2>1, <2>2, <2>3, <2>4, <2>5, <2>6, <2>7, <2>8 DEF Propose
<1>2. CASE Reconcile
  <2>1. CASE ReconStart
    BY <1>0, <1>a, <1>b, <2>1 DEF ReconStart, TypeOK
  <2>2. ASSUME NEW i \in Intents, NEW f \in BOOLEAN, ReconAsk(i, f)
        PROVE  TypeOK'
    BY <1>0, <1>a, <1>b, <2>2 DEF ReconAsk, TypeOK
  <2>3. CASE ReconMark
    <3>1. ledger' \in [Intents -> [state : EntryState, amount : Nat]]
      BY <2>3, SetEntryType DEF ReconMark, EntryState
    <3> QED  BY <1>0, <1>a, <1>b, <2>3, <3>1 DEF ReconMark, Resting, TypeOK
  <2> QED  BY <1>2, <2>1, <2>2, <2>3 DEF Reconcile
<1>3. CASE Environment
  <2>1. ASSUME NEW r \in wire, Land(r)
        PROVE  TypeOK'
    <3>1. r.intent \in Intents /\ r.amount \in Nat
      BY DEF TypeOK
    <3>2. orders' \in [Intents -> Seq(Order)]
      BY <1>b, <2>1, <3>1, PlaceType DEF Land
    <3> QED  BY <1>0, <1>a, <2>1, <3>2 DEF Land, TypeOK
  <2>2. ASSUME NEW i \in Intents, Approve(i) \/ Lapse(i)
        PROVE  TypeOK'
    BY <1>0, <1>a, <1>b, <2>2 DEF Approve, Lapse, TypeOK
  <2>3. CASE Crash
    <3>1. Idle \in CallType
      BY DEF Idle, CallType, PC, Verdict
    <3> QED  BY <1>a, <1>b, <2>3, <3>1, GatewayAssumption DEF Crash, Resting, TypeOK
  <2> QED  BY <1>3, <2>1, <2>2, <2>3 DEF Environment
<1>4. CASE UNCHANGED vars
  BY <1>4 DEF vars, TypeOK
<1> QED  BY <1>1, <1>2, <1>3, <1>4 DEF Next

(* The state keeps its type, and a call past Enter works on an intent.     *)
THEOREM TypeCorrect == Spec => [](TypeOK /\ Working /\ ReconWorking)
<1>1. Init => TypeOK /\ Working /\ ReconWorking
  BY TypeInit, WorkingInit
<1>2. TypeOK /\ Working /\ ReconWorking /\ [Next]_vars
        => (TypeOK /\ Working /\ ReconWorking)'
  BY TypeNext, WorkingNext
<1> QED  BY <1>1, <1>2, PTL DEF Spec

-----------------------------------------------------------------------------
(* At most one order per intent, on any rail, with any Reconciler.         *)

InFlight == {"send", "answered", "diverged", "refused"}

ReconTodo ==
  recon.todo \cup (IF recon.pc = "mark" THEN {recon.intent} ELSE {})

(* The lock is held from Enter to Reserve, over an intent without entry.   *)
LockInv ==
  \A c \in Callers : call[c].pc \in {"evaluate", "reserve"} =>
    lock = c /\ ledger[call[c].intent].state = "none"

(* Whatever is settled was reserved before.                                *)
KnownInv ==
  /\ \A c \in Callers : call[c].pc \in InFlight =>
       ledger[call[c].intent].state # "none"
  /\ \A i \in ReconTodo : ledger[i].state # "none"

(* A request that may still create an order is the only one of its intent, *)
(* and the intent has no order yet.                                        *)
SendInv ==
  /\ \A c \in Callers : call[c].pc = "send" =>
       /\ orders[call[c].intent] = <<>>
       /\ \A r \in wire : r.intent # call[c].intent
       /\ \A d \in Callers : d # c /\ call[d].pc = "send"
                             => call[d].intent # call[c].intent
  /\ \A r \in wire : orders[r.intent] = <<>> /\ ledger[r.intent].state # "none"
  /\ \A r, q \in wire : r.intent = q.intent => r = q

OrderInv == LockInv /\ KnownInv /\ SendInv /\ OneOrderPerIntent /\ ReservedBeforeSent

Typed == TypeOK /\ Working /\ ReconWorking

LEMMA OrderInit == Init => OrderInv
BY DEF Init, OrderInv, LockInv, KnownInv, SendInv, OneOrderPerIntent,
       ReservedBeforeSent, Idle, Resting, InFlight, ReconTodo

(* The effect of placing an order.                                         *)
LEMMA PlaceEffect ==
  ASSUME TypeOK, NEW i \in Intents, NEW a \in Nat, Place(i, a), orders[i] = <<>>
  PROVE  /\ Len(orders'[i]) = 1
         /\ \A j \in Intents : j # i => orders'[j] = orders[j]
<1>1. PICK m \in Multipliers :
        orders' = [orders EXCEPT
          ![i] = Append(@, [charged |-> m * a, status |-> "created"])]
  BY DEF Place
<1> DEFINE o == [charged |-> m * a, status |-> "created"]
<1>2. orders \in [Intents -> Seq(Order)]
  BY DEF TypeOK, Order
<1>3. orders'[i] = Append(<<>>, o)
  BY <1>1, <1>2
<1>4. Len(Append(<<>>, o)) = 1
  OBVIOUS
<1> QED  BY <1>1, <1>2, <1>3, <1>4

LEMMA OrderNext ==
  ASSUME Typed, OrderInv, [Next]_vars
  PROVE  OrderInv'
<1> USE DEF Typed, OrderInv
<1>0. /\ call \in [Callers -> CallType]
      /\ ledger \in [Intents -> [state : EntryState, amount : Nat]]
      /\ orders \in [Intents -> Seq(Order)]
      /\ wire \subseteq [intent : Intents, amount : Nat]
      /\ recon.todo \subseteq Intents
  BY CallTyped DEF TypeOK, Order
<1>1. ASSUME NEW c \in Callers, Propose(c)
      PROVE  OrderInv'
  <2>1. ASSUME NEW i \in Intents, NEW a \in Amounts, Enter(c, i, a)
        PROVE  OrderInv'
    <3>1. call'[c].pc = "evaluate" /\ call'[c].intent = i
      BY <1>0, <2>1 DEF Enter, Idle
    <3>2. \A d \in Callers : d # c => call'[d] = call[d]
      BY <1>0, <2>1 DEF Enter
    <3>3. LockInv'
      BY <2>1, <3>1, <3>2, GatewayAssumption DEF Enter, LockInv
    <3>4. KnownInv'
      BY <2>1, <3>1, <3>2 DEF Enter, KnownInv, InFlight, ReconTodo
    <3>5. SendInv'
      BY <2>1, <3>1, <3>2 DEF Enter, SendInv
    <3> QED  BY <2>1, <3>3, <3>4, <3>5 DEF Enter, OneOrderPerIntent, ReservedBeforeSent
  <2>2. ASSUME NEW s \in Screens, Evaluate(c, s)
        PROVE  OrderInv'
    <3>1. call'[c].pc \in {"reserve", "audit"} /\ call'[c].intent = call[c].intent
          /\ (call'[c].pc = "reserve" => lock' = lock)
      BY <1>0, <2>2 DEF Evaluate, CallType
    <3>2. \A d \in Callers : d # c => call'[d] = call[d]
      BY <1>0, <2>2 DEF Evaluate
    <3>3. LockInv'
      BY <2>2, <3>1, <3>2 DEF Evaluate, LockInv
    <3>4. KnownInv'
      BY <2>2, <3>1, <3>2 DEF Evaluate, KnownInv, InFlight, ReconTodo
    <3>5. SendInv'
      BY <2>2, <3>1, <3>2 DEF Evaluate, SendInv
    <3> QED  BY <2>2, <3>3, <3>4, <3>5 DEF Evaluate, OneOrderPerIntent, ReservedBeforeSent
  <2>3. CASE Reserve(c)
    <3>0. call[c].intent \in Intents /\ ledger[call[c].intent].state = "none"
      BY <2>3 DEF Reserve, Working, LockInv
    <3>1. call'[c].pc = "send" /\ call'[c].intent = call[c].intent
      BY <1>0, <2>3 DEF Reserve, CallType
    <3>2. \A d \in Callers : d # c => call'[d] = call[d]
      BY <1>0, <2>3 DEF Reserve
    <3>3. /\ ledger'[call[c].intent].state = "PENDING"
          /\ \A j \in Intents : j # call[c].intent => ledger'[j] = ledger[j]
      BY <1>0, <2>3, <3>0 DEF Reserve
    <3>4. LockInv'
      BY <2>3, <3>1, <3>2, <3>3 DEF Reserve, LockInv, Working
    <3>5. KnownInv'
      BY <1>0, <2>3, <3>1, <3>2, <3>3 DEF Reserve, KnownInv, InFlight, ReconTodo, Working, ReconWorking
    <3>6. SendInv'
      BY <1>0, <2>3, <3>0, <3>1, <3>2, <3>3
         DEF Reserve, SendInv, KnownInv, InFlight, Working, ReservedBeforeSent
    <3> QED  BY <2>3, <3>3, <3>4, <3>5, <3>6 DEF Reserve, OneOrderPerIntent, ReservedBeforeSent
  <2>4. ASSUME NEW o \in Outcomes, Send(c, o)
        PROVE  OrderInv'
    <3> DEFINE i == call[c].intent
    <3>0. i \in Intents /\ ledger[i].state # "none" /\ orders[i] = <<>>
          /\ \A r \in wire : r.intent # i
      BY <2>4 DEF Send, Working, KnownInv, InFlight, SendInv
    <3>1. /\ call'[c].pc \in {"idle", "answered", "refused", "audit"}
          /\ call'[c].pc \in {"answered", "refused"} => call'[c].intent = i
      BY <1>0, <2>4, GatewayAssumption DEF Send, AfterRail, CallType, Idle, Outcome
    <3>2. \A d \in Callers : d # c => call'[d] = call[d]
      BY <1>0, <2>4 DEF Send
    <3>3. LockInv' /\ KnownInv'
      BY <2>4, <3>0, <3>1, <3>2 DEF Send, LockInv, KnownInv, InFlight, ReconTodo
    <3>4. Len(orders'[i]) <= 1 /\ \A j \in Intents : j # i => orders'[j] = orders[j]
      <4>1. CASE Place(i, call[c].amount)
        <5>1. call[c].amount \in Nat /\ TypeOK
          BY <1>0 DEF CallType
        <5>2. Len(orders'[i]) = 1 /\ \A j \in Intents : j # i => orders'[j] = orders[j]
          BY <3>0, <4>1, <5>1, PlaceEffect
        <5> QED  BY <5>2
      <4>2. CASE UNCHANGED orders
        BY <3>0, <4>2 DEF OneOrderPerIntent
      <4> QED  BY <2>4, <4>1, <4>2 DEF Send
    <3>5. \A r \in wire' : r \in wire \/ (r.intent = i /\ orders'[i] = <<>>)
      BY <2>4, <3>0 DEF Send
    <3>6. \A r, q \in wire' : r \notin wire /\ q \notin wire => r = q
      BY <2>4 DEF Send
    <3>7. SendInv'
      <4>1. ASSUME NEW d \in Callers, call'[d].pc = "send"
            PROVE  /\ d # c /\ call'[d] = call[d]
                   /\ call[d].intent \in Intents /\ call[d].intent # i
        BY <2>4, <3>1, <3>2, <4>1 DEF Send, SendInv, Working
      <4>2. \A d \in Callers : call'[d].pc = "send" =>
              /\ orders'[call'[d].intent] = <<>>
              /\ \A r \in wire' : r.intent # call'[d].intent
        BY <3>4, <3>5, <4>1 DEF SendInv
      <4>3. \A d, e \in Callers :
              call'[d].pc = "send" /\ call'[e].pc = "send" /\ d # e
                => call'[d].intent # call'[e].intent
        BY <4>1 DEF SendInv
      <4>4. \A r \in wire' :
              orders'[r.intent] = <<>> /\ ledger'[r.intent].state # "none"
        <5>1. ASSUME NEW r \in wire
              PROVE  orders'[r.intent] = <<>> /\ ledger'[r.intent].state # "none"
          BY <1>0, <2>4, <3>0, <3>4 DEF Send, SendInv
        <5> QED  BY <2>4, <3>0, <3>5, <5>1 DEF Send
      <4>5. \A r, q \in wire' : r.intent = q.intent => r = q
        BY <3>0, <3>5, <3>6 DEF SendInv
      <4> QED  BY <4>2, <4>3, <4>4, <4>5 DEF SendInv
    <3> QED  BY <2>4, <3>0, <3>3, <3>4, <3>7 DEF Send, OneOrderPerIntent, ReservedBeforeSent
  <2>5. ASSUME NEW w \in VoidAnswers, Void(c, w)
        PROVE  OrderInv'
    <3> DEFINE i == call[c].intent
    <3>0. i \in Intents /\ ledger[i].state # "none"
      BY <2>5 DEF Void, Working, KnownInv, InFlight
    <3>1. /\ call'[c].pc \in {"idle", "diverged"}
          /\ call'[c].pc = "diverged" => call'[c].intent = i
      BY <1>0, <2>5 DEF Void, CallType, Idle
    <3>2. \A d \in Callers : d # c => call'[d] = call[d]
      BY <1>0, <2>5 DEF Void
    <3>3. \A j \in Intents : Len(orders'[j]) = Len(orders[j])
                             /\ (orders[j] = <<>> => orders'[j] = <<>>)
      BY <1>0, <2>5, <3>0 DEF Void
    <3>4. LockInv' /\ KnownInv'
      BY <2>5, <3>0, <3>1, <3>2 DEF Void, LockInv, KnownInv, InFlight, ReconTodo
    <3>5. SendInv'
      BY <1>0, <2>5, <3>1, <3>2, <3>3 DEF Void, SendInv, Working
    <3>6. OneOrderPerIntent' /\ ReservedBeforeSent'
      BY <2>5, <3>3 DEF Void, OneOrderPerIntent, ReservedBeforeSent
    <3> QED  BY <3>4, <3>5, <3>6
  <2>6. CASE Commit(c)
    <3> DEFINE i == call[c].intent
    <3>0. i \in Intents /\ ledger[i].state # "none"
      BY <2>6 DEF Commit, Working, KnownInv, InFlight
    <3>1. call'[c].pc = "audit"
      BY <1>0, <2>6 DEF Commit, CallType
    <3>2. \A d \in Callers : d # c => call'[d] = call[d]
      BY <1>0, <2>6 DEF Commit
    <3>3. \A j \in Intents : ledger'[j].state = "none" <=> ledger[j].state = "none"
      BY <1>0, <2>6, <3>0 DEF Commit, SetEntry
    <3>4. LockInv' /\ KnownInv'
      BY <1>0, <2>6, <3>1, <3>2, <3>3
         DEF Commit, LockInv, KnownInv, InFlight, ReconTodo, Working, ReconWorking
    <3>5. SendInv'
      BY <1>0, <2>6, <3>1, <3>2, <3>3 DEF Commit, SendInv
    <3> QED  BY <2>6, <3>3, <3>4, <3>5
             DEF Commit, OneOrderPerIntent, ReservedBeforeSent
  <2>7. CASE MarkFailed(c)
    <3> DEFINE i == call[c].intent
    <3>0. i \in Intents /\ ledger[i].state # "none"
      BY <2>7 DEF MarkFailed, Working, KnownInv, InFlight
    <3>1. call'[c].pc = "audit"
      BY <1>0, <2>7 DEF MarkFailed, CallType
    <3>2. \A d \in Callers : d # c => call'[d] = call[d]
      BY <1>0, <2>7 DEF MarkFailed
    <3>3. \A j \in Intents : ledger'[j].state = "none" <=> ledger[j].state = "none"
      BY <1>0, <2>7, <3>0 DEF MarkFailed, SetEntry
    <3>4. LockInv' /\ KnownInv'
      BY <1>0, <2>7, <3>1, <3>2, <3>3
         DEF MarkFailed, LockInv, KnownInv, InFlight, ReconTodo, Working, ReconWorking
    <3>5. SendInv'
      BY <1>0, <2>7, <3>1, <3>2, <3>3 DEF MarkFailed, SendInv
    <3> QED  BY <2>7, <3>3, <3>4, <3>5
             DEF MarkFailed, OneOrderPerIntent, ReservedBeforeSent
  <2>8. CASE Record(c)
    <3>1. call'[c].pc = "idle"
      BY <1>0, <2>8 DEF Record, Idle
    <3>2. \A d \in Callers : d # c => call'[d] = call[d]
      BY <1>0, <2>8 DEF Record
    <3> QED  BY <2>8, <3>1, <3>2
             DEF Record, LockInv, KnownInv, SendInv, InFlight, ReconTodo,
                 OneOrderPerIntent, ReservedBeforeSent
  <2> QED  BY <1>1, <2>1, <2>2, <2>3, <2>4, <2>5, <2>6, <2>7, <2>8 DEF Propose
<1>2. CASE Reconcile
  <2>1. CASE ReconStart
    BY <1>0, <2>1 DEF ReconStart, LockInv, KnownInv, SendInv, ReconTodo, TypeOK,
                      OneOrderPerIntent, ReservedBeforeSent
  <2>2. ASSUME NEW i \in Intents, NEW f \in BOOLEAN, ReconAsk(i, f)
        PROVE  OrderInv'
    BY <1>0, <2>2 DEF ReconAsk, LockInv, KnownInv, SendInv, ReconTodo,
                      OneOrderPerIntent, ReservedBeforeSent
  <2>3. CASE ReconMark
    <3>0. recon.intent \in Intents /\ ledger[recon.intent].state # "none"
      BY <2>3 DEF ReconMark, ReconWorking, KnownInv, ReconTodo
    <3>1. \A j \in Intents : ledger'[j].state = "none" <=> ledger[j].state = "none"
      BY <1>0, <2>3, <3>0 DEF ReconMark, SetEntry
    <3>2. ReconTodo' \subseteq ReconTodo
      BY <2>3 DEF ReconMark, ReconTodo, Resting
    <3>3. LockInv' /\ KnownInv'
      BY <1>0, <2>3, <3>0, <3>1, <3>2
         DEF ReconMark, LockInv, KnownInv, ReconTodo, InFlight, Working, ReconWorking
    <3> QED  BY <1>0, <2>3, <3>1, <3>3
             DEF ReconMark, SendInv, OneOrderPerIntent, ReservedBeforeSent
  <2> QED  BY <1>2, <2>1, <2>2, <2>3 DEF Reconcile
<1>3. CASE Environment
  <2>1. ASSUME NEW r \in wire, Land(r)
        PROVE  OrderInv'
    <3>0. r.intent \in Intents /\ orders[r.intent] = <<>>
          /\ ledger[r.intent].state # "none"
      BY <1>0 DEF SendInv
    <3>1. Len(orders'[r.intent]) <= 1
          /\ \A j \in Intents : j # r.intent => orders'[j] = orders[j]
      <4>1. CASE Place(r.intent, r.amount)
        <5>1. r.amount \in Nat /\ TypeOK
          BY <1>0
        <5>2. Len(orders'[r.intent]) = 1
              /\ \A j \in Intents : j # r.intent => orders'[j] = orders[j]
          BY <3>0, <4>1, <5>1, PlaceEffect
        <5> QED  BY <5>2
      <4>2. CASE UNCHANGED orders
        BY <3>0, <4>2 DEF OneOrderPerIntent
      <4> QED  BY <2>1, <4>1, <4>2 DEF Land
    <3>2. LockInv' /\ KnownInv'
      BY <2>1 DEF Land, LockInv, KnownInv, ReconTodo
    <3>3. SendInv'
      <4>1. \A q \in wire' : q \in wire /\ q.intent # r.intent
        BY <2>1 DEF Land, SendInv
      <4> QED  BY <1>0, <2>1, <3>0, <3>1, <4>1 DEF Land, SendInv, Working
    <3> QED  BY <2>1, <3>0, <3>1, <3>2, <3>3
             DEF Land, OneOrderPerIntent, ReservedBeforeSent
  <2>2. ASSUME NEW i \in Intents, Approve(i) \/ Lapse(i)
        PROVE  OrderInv'
    BY <2>2 DEF Approve, Lapse, LockInv, KnownInv, SendInv, ReconTodo,
                OneOrderPerIntent, ReservedBeforeSent
  <2>3. CASE Crash
    BY <1>0, <2>3 DEF Crash, Idle, Resting, LockInv, KnownInv, SendInv, ReconTodo,
                InFlight, OneOrderPerIntent, ReservedBeforeSent
  <2> QED  BY <1>3, <2>1, <2>2, <2>3 DEF Environment
<1>4. CASE UNCHANGED vars
  BY <1>4 DEF vars, LockInv, KnownInv, SendInv, ReconTodo,
              OneOrderPerIntent, ReservedBeforeSent
<1> QED  BY <1>1, <1>2, <1>3, <1>4 DEF Next

LEMMA OrderAlways == Spec => [](Typed /\ OrderInv)
<1>1. Spec => []Typed
  BY TypeCorrect DEF Typed
<1>2. Init => OrderInv
  BY OrderInit
<1>3. Typed /\ OrderInv /\ [Next]_vars => OrderInv'
  BY OrderNext
<1> QED  BY <1>1, <1>2, <1>3, PTL DEF Spec

(* The rail never holds two orders for one intent, and never one without a *)
(* ledger entry: whatever the rail answers or lands late, whenever the     *)
(* Reconciler runs, and however often the process crashes.                 *)
THEOREM OneOrderCorrect == Spec => [](OneOrderPerIntent /\ ReservedBeforeSent)
<1>1. OrderInv => OneOrderPerIntent /\ ReservedBeforeSent
  BY DEF OrderInv
<1> QED  BY <1>1, OrderAlways, PTL

-----------------------------------------------------------------------------
(* The rest holds when the Reconciler is never started while a call is in  *)
(* flight: settlement is final, an enforcing gateway keeps the budget,     *)
(* velocity and no-repeat limits, and Gateway implements SpendGuard.       *)

(* Who may settle an entry.                                                *)

(* A PENDING entry belongs to one call in flight or to the Reconciler, and *)
(* whoever may settle an entry finds it PENDING.                           *)
FlightInv ==
  /\ \A c \in Callers : call[c].pc \in InFlight =>
       /\ ledger[call[c].intent].state = "PENDING"
       /\ call[c].intent \notin ReconTodo
       /\ \A d \in Callers : d # c /\ call[d].pc \in InFlight
                             => call[d].intent # call[c].intent
  /\ \A i \in ReconTodo : ledger[i].state = "PENDING"
  /\ recon.pc = "mark" => recon.intent \notin recon.todo

LEMMA FlightInit == Init => FlightInv
BY DEF Init, FlightInv, Idle, Resting, InFlight, ReconTodo

(* The three things a step may do to the ledger.                           *)
Settles(i, s) ==
  /\ ledger[i].state = "PENDING"
  /\ SetEntry(i, s)

LedgerStep ==
  \/ UNCHANGED ledger
  \/ \E c \in Callers : Reserve(c)
  \/ \E i \in Intents, s \in {"COMMITTED", "FAILED"} : Settles(i, s)

LEMMA LedgerSteps ==
  ASSUME Typed, FlightInv, [Next]_vars
  PROVE  LedgerStep
<1> USE DEF Typed
<1>1. ASSUME NEW c \in Callers, Propose(c)
      PROVE  LedgerStep
  <2>1. CASE Commit(c)
    <3>1. call[c].intent \in Intents /\ Settles(call[c].intent, "COMMITTED")
      BY <2>1 DEF Commit, Working, FlightInv, InFlight, Settles
    <3> QED  BY <3>1 DEF LedgerStep
  <2>2. CASE MarkFailed(c)
    <3>1. call[c].intent \in Intents /\ Settles(call[c].intent, "FAILED")
      BY <2>2 DEF MarkFailed, Working, FlightInv, InFlight, Settles
    <3> QED  BY <3>1 DEF LedgerStep
  <2>3. CASE Reserve(c)
    BY <2>3 DEF LedgerStep
  <2>4. CASE \/ \E i \in Intents, a \in Amounts : Enter(c, i, a)
             \/ \E s \in Screens : Evaluate(c, s)
             \/ \E o \in Outcomes : Send(c, o)
             \/ \E w \in VoidAnswers : Void(c, w)
             \/ Record(c)
    BY <2>4 DEF Enter, Evaluate, Send, Void, Record, LedgerStep
  <2> QED  BY <1>1, <2>1, <2>2, <2>3, <2>4 DEF Propose
<1>2. CASE ReconMark
  <2>1. \E s \in {"COMMITTED", "FAILED"} : Settles(recon.intent, s)
    BY <1>2 DEF ReconMark, FlightInv, ReconTodo, Settles
  <2> QED  BY <1>2, <2>1 DEF ReconMark, ReconWorking, LedgerStep
<1>3. CASE \/ ReconStart
           \/ \E i \in Intents, f \in BOOLEAN : ReconAsk(i, f)
           \/ Environment
           \/ UNCHANGED vars
  BY <1>3 DEF ReconStart, ReconAsk, Environment, Land, Approve, Lapse, Crash,
              vars, LedgerStep
<1> QED  BY <1>1, <1>2, <1>3 DEF Next, Reconcile

LEMMA FlightNext ==
  ASSUME ~Overlap, Typed, OrderInv, FlightInv, [Next]_vars
  PROVE  FlightInv'
<1> USE DEF Typed
<1>0. /\ call \in [Callers -> CallType]
      /\ ledger \in [Intents -> [state : EntryState, amount : Nat]]
      /\ recon.todo \subseteq Intents
  BY CallTyped DEF TypeOK
<1>1. ASSUME NEW c \in Callers, Propose(c)
      PROVE  FlightInv'
  <2>0. \A d \in Callers : d # c => call'[d] = call[d]
    BY <1>0, <1>1 DEF Propose, Enter, Evaluate, Reserve, Send, Commit, Void,
                      MarkFailed, Record
  <2>a. UNCHANGED recon
    BY <1>1 DEF Propose, Enter, Evaluate, Reserve, Send, Commit, Void,
                MarkFailed, Record
  <2>1. CASE \/ \E i \in Intents, a \in Amounts : Enter(c, i, a)
             \/ \E s \in Screens : Evaluate(c, s)
             \/ Record(c)
    <3>1. call'[c].pc \notin InFlight
      <4>1. ASSUME NEW i \in Intents, NEW a \in Amounts, Enter(c, i, a)
            PROVE  call'[c].pc = "evaluate"
        BY <1>0, <4>1 DEF Enter, Idle
      <4>2. ASSUME NEW s \in Screens, Evaluate(c, s)
            PROVE  call'[c].pc \in {"reserve", "audit"}
        BY <1>0, <4>2 DEF Evaluate, CallType
      <4>3. CASE Record(c)
        BY <1>0, <4>3 DEF Record, Idle, InFlight
      <4> QED  BY <2>1, <4>1, <4>2, <4>3 DEF InFlight
    <3>2. UNCHANGED ledger
      BY <2>1 DEF Enter, Evaluate, Record
    <3> QED  BY <2>0, <2>a, <3>1, <3>2 DEF FlightInv, ReconTodo
  <2>2. CASE Reserve(c)
    <3>0. call[c].intent \in Intents /\ ledger[call[c].intent].state = "none"
      BY <2>2 DEF Reserve, Working, OrderInv, LockInv
    <3>1. call'[c].pc = "send" /\ call'[c].intent = call[c].intent
      BY <1>0, <2>2 DEF Reserve, CallType
    <3>2. /\ ledger'[call[c].intent].state = "PENDING"
          /\ \A j \in Intents : j # call[c].intent => ledger'[j] = ledger[j]
      BY <1>0, <2>2, <3>0 DEF Reserve
    <3>3. call[c].intent \notin ReconTodo
      BY <3>0 DEF FlightInv
    <3>4. \A d \in Callers : call[d].pc \in InFlight
                             => call[d].intent # call[c].intent
      BY <3>0 DEF FlightInv
    <3>5. \A d \in Callers : d # c /\ call'[d].pc \in InFlight =>
            /\ call[d].pc \in InFlight /\ call'[d] = call[d]
            /\ call[d].intent \in Intents
      BY <2>0 DEF Working, InFlight
    <3>6. ReconTodo' = ReconTodo /\ ReconTodo \subseteq Intents
      BY <1>0, <2>a DEF ReconTodo, ReconWorking
    <3> QED  BY <2>a, <3>1, <3>2, <3>3, <3>4, <3>5, <3>6 DEF FlightInv
  <2>3. CASE \/ \E o \in Outcomes : Send(c, o)
             \/ \E w \in VoidAnswers : Void(c, w)
    <3>1. call[c].pc \in InFlight
      BY <2>3 DEF Send, Void, InFlight
    <3>2. call'[c].pc \in InFlight => call'[c].intent = call[c].intent
      <4>1. ASSUME NEW o \in Outcomes, Send(c, o)
            PROVE  call'[c].pc \in InFlight => call'[c].intent = call[c].intent
        <5>1. call'[c] = AfterRail(call[c], o)
          BY <1>0, <4>1 DEF Send
        <5>2. o.answer \in {"ok", "timeout", "refused", "exception"}
          BY GatewayAssumption DEF Outcome
        <5>3. CASE o.answer = "ok"
          BY <1>0, <5>1, <5>3 DEF AfterRail, CallType
        <5>4. CASE o.answer = "refused"
          BY <1>0, <5>1, <5>4 DEF AfterRail, CallType
        <5>5. CASE o.answer = "timeout"
          BY <1>0, <5>1, <5>5 DEF AfterRail, CallType
        <5>6. CASE o.answer = "exception"
          BY <5>1, <5>6 DEF AfterRail, Idle, InFlight
        <5> QED  BY <5>2, <5>3, <5>4, <5>5, <5>6
      <4>2. ASSUME NEW w \in VoidAnswers, Void(c, w)
            PROVE  call'[c].pc \in InFlight => call'[c].intent = call[c].intent
        BY <1>0, <4>2 DEF Void, CallType, Idle, InFlight
      <4> QED  BY <2>3, <4>1, <4>2
    <3>3. UNCHANGED ledger
      BY <2>3 DEF Send, Void
    <3> QED  BY <2>0, <2>a, <3>1, <3>2, <3>3 DEF FlightInv, ReconTodo
  <2>4. CASE Commit(c) \/ MarkFailed(c)
    <3>0. call[c].pc \in InFlight /\ call[c].intent \in Intents
      BY <2>4 DEF Commit, MarkFailed, InFlight, Working
    <3>1. call'[c].pc = "audit"
      <4>1. CASE Commit(c)
        BY <1>0, <4>1 DEF Commit, CallType
      <4>2. CASE MarkFailed(c)
        BY <1>0, <4>2 DEF MarkFailed, CallType
      <4> QED  BY <2>4, <4>1, <4>2
    <3>2. \A j \in Intents : j # call[c].intent => ledger'[j] = ledger[j]
      BY <1>0, <2>4 DEF Commit, MarkFailed, SetEntry
    <3>3. \A d \in Callers : call'[d].pc \in InFlight =>
            /\ call'[d] = call[d]
            /\ call[d].intent \in Intents \ {call[c].intent}
      BY <2>0, <3>0, <3>1 DEF InFlight, FlightInv, Working
    <3>4. ReconTodo' = ReconTodo /\ ReconTodo \subseteq Intents
      BY <1>0, <2>a DEF ReconTodo, ReconWorking
    <3>5. call[c].intent \notin ReconTodo
      BY <3>0 DEF FlightInv
    <3> QED  BY <2>a, <3>2, <3>3, <3>4, <3>5 DEF FlightInv
  <2> QED  BY <1>1, <2>1, <2>2, <2>3, <2>4 DEF Propose
<1>2. CASE ReconStart
  <2>1. \A c \in Callers : call'[c].pc \notin InFlight
    BY <1>2 DEF ReconStart, InFlight
  <2>2. ReconTodo' = {i \in Intents : ledger[i].state = "PENDING"}
        /\ recon'.pc # "mark"
    BY <1>2 DEF ReconStart, ReconTodo, TypeOK
  <2> QED  BY <1>2, <2>1, <2>2 DEF ReconStart, FlightInv
<1>3. ASSUME NEW i \in Intents, NEW f \in BOOLEAN, ReconAsk(i, f)
      PROVE  FlightInv'
  <2>1. ReconTodo' = ReconTodo /\ recon'.intent \notin recon'.todo
    BY <1>3 DEF ReconAsk, ReconTodo
  <2> QED  BY <1>3, <2>1 DEF ReconAsk, FlightInv
<1>4. CASE ReconMark
  <2>0. recon.intent \in Intents /\ recon.intent \in ReconTodo
    BY <1>4 DEF ReconMark, ReconWorking, ReconTodo
  <2>1. ReconTodo' \subseteq recon.todo /\ recon'.pc # "mark"
    BY <1>4 DEF ReconMark, ReconTodo, Resting
  <2>2. recon.intent \notin recon.todo /\ recon.todo \subseteq ReconTodo
    BY <1>4 DEF ReconMark, FlightInv, ReconTodo
  <2>3. \A j \in Intents : j # recon.intent => ledger'[j] = ledger[j]
    BY <1>0, <1>4 DEF ReconMark, SetEntry
  <2>4. \A c \in Callers : call[c].pc \in InFlight =>
          call[c].intent \in Intents /\ call[c].intent # recon.intent
    BY <2>0 DEF FlightInv, Working, InFlight
  <2> QED  BY <1>0, <1>4, <2>1, <2>2, <2>3, <2>4 DEF ReconMark, FlightInv
<1>5. CASE Crash
  BY <1>0, <1>5 DEF Crash, Idle, Resting, InFlight, ReconTodo, FlightInv
<1>6. CASE \/ \E r \in wire : Land(r)
           \/ \E i \in Intents : Approve(i) \/ Lapse(i)
           \/ UNCHANGED vars
  BY <1>6 DEF Land, Approve, Lapse, vars, FlightInv, ReconTodo
<1> QED  BY <1>1, <1>2, <1>3, <1>4, <1>5, <1>6
         DEF Next, Reconcile, Environment

LEMMA FlightAlways ==
  ASSUME ~Overlap
  PROVE  Spec => [](Typed /\ OrderInv /\ FlightInv)
<1>1. Init => FlightInv
  BY FlightInit
<1>2. Typed /\ OrderInv /\ FlightInv /\ [Next]_vars => FlightInv'
  BY FlightNext
<1> QED  BY <1>1, <1>2, OrderAlways, PTL DEF Spec

(* Once an intent's money is spent or given back it stays so, if the       *)
(* Reconciler is only started between calls.                               *)
THEOREM SettlementFinal ==
  ASSUME ~Overlap
  PROVE  Spec => SettledIsFinal
<1> DEFINE Final == \A i \in Intents :
                      ledger[i].state \in {"COMMITTED", "FAILED"}
                        => ledger'[i] = ledger[i]
<1>1. Typed /\ OrderInv /\ FlightInv /\ [Next]_vars => Final
  <2> SUFFICES ASSUME Typed, OrderInv, FlightInv, [Next]_vars,
                      NEW i \in Intents,
                      ledger[i].state \in {"COMMITTED", "FAILED"}
               PROVE  ledger'[i] = ledger[i]
    OBVIOUS
  <2>0. ledger \in [Intents -> [state : EntryState, amount : Nat]]
    BY DEF Typed, TypeOK
  <2>1. ASSUME NEW c \in Callers, Reserve(c)
        PROVE  ledger'[i] = ledger[i]
    <3>1. ledger[call[c].intent].state = "none"
      BY <2>1 DEF Reserve, OrderInv, LockInv
    <3> QED  BY <2>0, <2>1, <3>1 DEF Reserve
  <2>2. ASSUME NEW j \in Intents, NEW s \in {"COMMITTED", "FAILED"}, Settles(j, s)
        PROVE  ledger'[i] = ledger[i]
    BY <2>0, <2>2 DEF Settles, SetEntry
  <2> QED  BY <2>1, <2>2, LedgerSteps DEF LedgerStep
<1>2. Typed /\ OrderInv /\ FlightInv /\ [Next]_vars => [Final]_vars
  BY <1>1
<1> QED  BY <1>2, FlightAlways, PTL DEF Spec, SettledIsFinal
-----------------------------------------------------------------------------
(* The limits of the mandate.                                              *)

(* The sum of a set of accounts is the same number in SpendGuard.          *)
LEMMA GuardTotal ==
  ASSUME NEW S, NEW a
  PROVE  Guard!Total(S, a) = Total(S, a)
BY DEF Guard!Total, Guard!Units, Guard!Cardinality, Total, Units, Cardinality

LEMMA GuardCardinality ==
  ASSUME NEW S
  PROVE  Guard!Cardinality(S) = Cardinality(S)
BY DEF Guard!Cardinality, Cardinality

LEMMA GuardCounted == Guard!Counted = Live
BY DEF Guard!Counted, Live

(* There is room for intent i at amount a: what the clauses check.         *)
HasRoom(i, a) ==
  /\ Spent + a <= BudgetMax
  /\ Cardinality(Live) < VelocityMax
  /\ DenyRecent => \A j \in Live : Basket[i] \cap Basket[j] = {}

LEMMA GuardRoom ==
  ASSUME NEW i, NEW a, HasRoom(i, a)
  PROVE  Guard!Room(i, a)
<1>1. Guard!Total(Live, Held) = Total(Live, Held)
  BY GuardTotal
<1>2. Guard!Cardinality(Live) = Cardinality(Live)
  BY GuardCardinality
<1> QED  BY <1>1, <1>2, GuardCounted DEF Guard!Room, HasRoom, Spent, Held

(* The live entries are finitely many and their money is a number.         *)
LEMMA LiveFinite ==
  ASSUME TypeOK
  PROVE  /\ IsFiniteSet(Live) /\ Cardinality(Live) \in Nat
         /\ \A i \in Intents : Held[i] \in Nat
         /\ Spent \in Nat
<1>1. IsFiniteSet(Live) /\ Live \subseteq Intents
  BY GatewayAssumption, FS_Subset DEF Live
<1>2. Cardinality(Live) \in Nat
  BY <1>1, FS_CardinalityType
<1>3. \A i \in Intents : Held[i] \in Nat
  BY DEF Held, TypeOK
<1>4. \A i \in Live : Held[i] \in Nat
  BY <1>1, <1>3
<1>5. Spent \in Nat
  BY <1>1, <1>4, UnitsFinite DEF Spent
<1> QED  BY <1>1, <1>2, <1>3, <1>5

(* An ALLOW means that no clause saw a limit exceeded.                     *)
LEMMA AllowHasRoom ==
  ASSUME TypeOK, NEW i \in Intents, NEW a \in Nat, NEW ok \in BOOLEAN,
         NEW s \in Screens, EvaluateAll(i, a, ok, s) = "ALLOW"
  PROVE  HasRoom(i, a)
<1> DEFINE R == {s, BudgetPerTransaction(a), BudgetTotal(a), Velocity,
                 ItemDenyRecent(i), AfaRequired(a, ok)}
<1>1. R \in SUBSET Verdict
  BY GatewayAssumption
     DEF BudgetPerTransaction, BudgetTotal, Velocity, ItemDenyRecent,
         AfaRequired, DenyIf, Verdict
<1>2. R \subseteq {"ALLOW"}
  <2>1. Combine(R) = "ALLOW"
    BY DEF EvaluateAll
  <2> HIDE DEF R
  <2> QED  BY <1>1, <2>1, CombineFailsClosed
<1>3. /\ ~(Spent + a > BudgetMax)
      /\ ~(Cardinality(Live) >= VelocityMax)
      /\ ~(DenyRecent /\ \E j \in Live : Basket[i] \cap Basket[j] # {})
  BY <1>2 DEF BudgetTotal, Velocity, ItemDenyRecent, DenyIf
<1> QED  BY <1>3, LiveFinite, GatewayAssumption DEF HasRoom

(* The same after a step.                                                  *)
NextRoom(i, a) ==
  /\ Spent' + a <= BudgetMax
  /\ Cardinality(Live') < VelocityMax
  /\ DenyRecent => \A j \in Live' : Basket[i] \cap Basket[j] = {}

(* Spending and giving back leave no less room than there was.             *)
LEMMA ShrinkKeepsRoom ==
  ASSUME TypeOK, TypeOK', Live' \subseteq Live,
         \A i \in Intents : ledger'[i].amount = ledger[i].amount
  PROVE  /\ Spent \in Nat /\ Spent' \in Nat /\ Spent' <= Spent
         /\ Cardinality(Live) \in Nat /\ Cardinality(Live') \in Nat
         /\ Cardinality(Live') <= Cardinality(Live)
         /\ \A i, a : a \in Nat /\ HasRoom(i, a) => NextRoom(i, a)
<1>1. Held' = Held
  BY DEF Held
<1>2. IsFiniteSet(Live) /\ \A i \in Live : Held[i] \in Nat
  BY LiveFinite DEF Live
<1>3. Spent' = Total(Live', Held)
  BY <1>1 DEF Spent
<1>4. Spent' <= Spent
  BY <1>2, <1>3, TotalMonotone DEF Spent
<1>5. Cardinality(Live') <= Cardinality(Live) /\ IsFiniteSet(Live')
  BY <1>2, FS_Subset
<1>6. /\ Spent \in Nat /\ Cardinality(Live) \in Nat
      /\ Spent' \in Nat /\ Cardinality(Live') \in Nat
  <2>1. Cardinality(Live') \in Nat
    BY <1>5, FS_CardinalityType
  <2>2. Spent' \in Nat
    BY <1>2, <1>3, <1>5, UnitsFinite
  <2> QED  BY <2>1, <2>2, LiveFinite
<1> QED  BY <1>4, <1>5, <1>6, GatewayAssumption DEF HasRoom, NextRoom

(* Between its evaluation and its reservation the caller that holds the    *)
(* lock still has the room it was promised.                                *)
RoomInv ==
  \A c \in Callers :
    /\ call[c].pc \in {"evaluate", "reserve"} => call[c].amount \in Amounts
    /\ call[c].pc = "reserve" => HasRoom(call[c].intent, call[c].amount)

LimitInv == RoomInv /\ BudgetHeld /\ VelocityHeld /\ NoRepeatPurchase

LEMMA LimitInit == Init => LimitInv
<1> SUFFICES ASSUME Init PROVE LimitInv
  OBVIOUS
<1>1. Live = {}
  BY DEF Init, Live
<1>2. Spent = 0
  <2>1. Units({}, Held) = {}
    BY DEF Units
  <2> QED  BY <1>1, <2>1, FS_EmptySet DEF Spent, Total
<1>3. Cardinality(Live) = 0
  BY <1>1, FS_EmptySet
<1>4. RoomInv
  BY DEF Init, Idle, RoomInv
<1> QED  BY <1>1, <1>2, <1>3, <1>4, GatewayAssumption
         DEF LimitInv, BudgetHeld, VelocityHeld, NoRepeatPurchase

(* A step that reserves nothing frees room or leaves it as it was.         *)
LEMMA OtherStepsShrink ==
  ASSUME TypeOK, LedgerStep, ~ \E c \in Callers : Reserve(c)
  PROVE  /\ Live' \subseteq Live
         /\ \A i \in Intents : ledger'[i].amount = ledger[i].amount
<1>0. ledger \in [Intents -> [state : EntryState, amount : Nat]]
  BY DEF TypeOK
<1>1. CASE UNCHANGED ledger
  BY <1>1 DEF Live
<1>2. ASSUME NEW i \in Intents, NEW s \in {"COMMITTED", "FAILED"}, Settles(i, s)
      PROVE  /\ Live' \subseteq Live
             /\ \A j \in Intents : ledger'[j].amount = ledger[j].amount
  BY <1>0, <1>2 DEF Settles, SetEntry, Live
<1> QED  BY <1>1, <1>2 DEF LedgerStep

(* A reservation takes exactly the room its caller was promised.           *)
LEMMA ReserveTakesRoom ==
  ASSUME Typed, TypeOK', OrderInv, LimitInv, NEW c \in Callers, Reserve(c)
  PROVE  BudgetHeld' /\ VelocityHeld' /\ NoRepeatPurchase'
<1> DEFINE i == call[c].intent
           a == call[c].amount
<1>0. /\ ledger \in [Intents -> [state : EntryState, amount : Nat]]
      /\ i \in Intents /\ ledger[i].state = "none" /\ i \notin Live
      /\ HasRoom(i, a)
  BY DEF Typed, TypeOK, Reserve, Working, OrderInv, LockInv, LimitInv, RoomInv, Live
<1>1. ledger' = [ledger EXCEPT ![i] = [state |-> "PENDING", amount |-> a]]
  BY DEF Reserve
<1>2. Live' = Live \cup {i}
  BY <1>0, <1>1 DEF Live
<1>3. \A j \in Live : Held'[j] = Held[j]
  BY <1>0, <1>1 DEF Held, Live
<1>4. Held'[i] = a
  BY <1>0, <1>1 DEF Held
<1>5. /\ IsFiniteSet(Live) /\ Live \subseteq Intents
      /\ \A j \in Intents : Held'[j] \in Nat
  BY LiveFinite DEF Typed, Live, Held, TypeOK
<1>6. Spent' = Spent + a
  <2>1. Total(Live, Held') = Total(Live, Held)
    BY <1>3, TotalSame
  <2>2. \A j \in Live \cup {i} : Held'[j] \in Nat
    BY <1>0, <1>5
  <2>3. Total(Live \cup {i}, Held') = Total(Live, Held') + Held'[i]
    <3> DEFINE h == Held'
    <3>1. IsFiniteSet(Live) /\ i \notin Live /\ \A j \in Live \cup {i} : h[j] \in Nat
      BY <1>0, <1>5, <2>2
    <3> HIDE DEF h, i
    <3>2. Total(Live \cup {i}, h) = Total(Live, h) + h[i]
      BY <3>1, TotalAdd
    <3> QED  BY <3>2 DEF h
  <2>4. Spent' = Total(Live', Held')
    BY DEF Spent
  <2> QED  BY <1>2, <1>4, <2>1, <2>3, <2>4 DEF Spent
<1>7. Cardinality(Live') = Cardinality(Live) + 1
  BY <1>0, <1>2, <1>5, FS_AddElement
<1>8. BudgetHeld'
  BY <1>0, <1>6 DEF HasRoom, BudgetHeld
<1>9. VelocityHeld'
  BY <1>0, <1>7, LiveFinite, GatewayAssumption DEF Typed, HasRoom, VelocityHeld
<1>10. NoRepeatPurchase'
  BY <1>0, <1>2 DEF HasRoom, NoRepeatPurchase, LimitInv
<1> QED  BY <1>8, <1>9, <1>10

LEMMA LimitNext ==
  ASSUME Enforcing, ~Overlap, Typed, Typed', OrderInv, OrderInv', FlightInv,
         LimitInv, [Next]_vars
  PROVE  LimitInv'
<1> USE DEF Typed
<1>0. call \in [Callers -> CallType]
  BY CallTyped
<1>1. ASSUME NEW c \in Callers, Reserve(c)
      PROVE  LimitInv'
  <2>1. call'[c].pc = "send" /\ \A d \in Callers : d # c => call'[d] = call[d]
    BY <1>0, <1>1 DEF Reserve, CallType
  <2>2. \A d \in Callers : d # c => call[d].pc \notin {"evaluate", "reserve"}
    BY <1>1 DEF Reserve, OrderInv, LockInv
  <2>3. RoomInv'
    BY <2>1, <2>2 DEF RoomInv
  <2> QED  BY <1>1, <2>3, ReserveTakesRoom DEF LimitInv
<1>2. ASSUME ~ \E c \in Callers : Reserve(c)
      PROVE  LimitInv'
  <2>0. /\ Live' \subseteq Live
        /\ \A i \in Intents : ledger'[i].amount = ledger[i].amount
    BY <1>2, LedgerSteps, OtherStepsShrink
  <2>1. /\ Spent \in Nat /\ Spent' \in Nat /\ Spent' <= Spent
        /\ Cardinality(Live) \in Nat /\ Cardinality(Live') \in Nat
        /\ Cardinality(Live') <= Cardinality(Live)
        /\ \A i, a : a \in Nat /\ HasRoom(i, a) => NextRoom(i, a)
    BY <2>0, ShrinkKeepsRoom
  <2>3. BudgetHeld' /\ VelocityHeld' /\ NoRepeatPurchase'
    BY <2>0, <2>1, GatewayAssumption
       DEF LimitInv, BudgetHeld, VelocityHeld, NoRepeatPurchase
  <2>2. \A c \in Callers :
          call[c].pc = "reserve" => NextRoom(call[c].intent, call[c].amount)
    BY <1>0, <2>1 DEF LimitInv, RoomInv, CallType
  <2>3a. ASSUME \A c \in Callers :
                 /\ call'[c].pc \in {"evaluate", "reserve"}
                      => call'[c].amount \in Amounts
                 /\ call'[c].pc = "reserve"
                      => NextRoom(call'[c].intent, call'[c].amount)
        PROVE  RoomInv'
    BY <2>3a DEF RoomInv, HasRoom, NextRoom
  <2>4. RoomInv'
    <3>1. CASE UNCHANGED call
      BY <2>2, <2>3a, <3>1 DEF LimitInv, RoomInv
    <3>2. CASE Crash
      BY <2>3a, <3>2 DEF Crash, Idle
    <3>3. ASSUME NEW c \in Callers, Propose(c)
          PROVE  RoomInv'
      <4>0. \A d \in Callers : d # c => call'[d] = call[d]
        BY <1>0, <3>3 DEF Propose, Enter, Evaluate, Reserve, Send, Commit, Void,
                          MarkFailed, Record
      <4>1. ASSUME call'[c].pc \notin {"evaluate", "reserve"}
            PROVE  RoomInv'
        BY <2>2, <2>3a, <4>0, <4>1 DEF LimitInv, RoomInv
      <4>2. ASSUME NEW i \in Intents, NEW b \in Amounts, Enter(c, i, b)
            PROVE  RoomInv'
        <5>1. call'[c].pc = "evaluate" /\ call'[c].amount = b
          BY <1>0, <4>2 DEF Enter, Idle
        <5> QED  BY <2>2, <2>3a, <4>0, <5>1 DEF LimitInv, RoomInv
      <4>3. ASSUME NEW s \in Screens, Evaluate(c, s)
            PROVE  RoomInv'
        <5> DEFINE ok == call[c].intent \in approved
                   v  == EvaluateAll(call[c].intent, call[c].amount, ok, s)
        <5>1. /\ call'[c].pc \in {"reserve", "audit"}
              /\ call'[c].pc = "reserve" => v = "ALLOW"
              /\ call'[c].intent = call[c].intent
              /\ call'[c].amount = call[c].amount
          <6> HIDE DEF v
          <6>1. call'[c] = [call[c] EXCEPT
                  !.pc = IF v = "ALLOW" THEN "reserve" ELSE "audit",
                  !.approved = ok, !.verdict = v]
            BY <1>0, <4>3 DEF Evaluate, v
          <6> HIDE DEF ok
          <6> QED  BY <1>0, <6>1 DEF CallType
        <5>2. /\ call[c].intent \in Intents /\ call[c].amount \in Amounts
              /\ call[c].amount \in Nat /\ ok \in BOOLEAN
          BY <1>0, <4>3 DEF Evaluate, Working, LimitInv, RoomInv, CallType
        <5>3. v = "ALLOW" => HasRoom(call[c].intent, call[c].amount)
          <6> HIDE DEF ok
          <6> QED  BY <5>2, AllowHasRoom
        <5>4. v = "ALLOW" => NextRoom(call[c].intent, call[c].amount)
          BY <2>1, <5>2, <5>3
        <5> HIDE DEF v
        <5> QED  BY <2>2, <2>3a, <4>0, <5>1, <5>2, <5>4 DEF LimitInv, RoomInv
      <4>4. CASE \/ \E o \in Outcomes : Send(c, o)
                 \/ Commit(c) \/ MarkFailed(c) \/ Record(c)
                 \/ \E w \in VoidAnswers : Void(c, w)
        <5>1. ASSUME NEW o \in Outcomes, Send(c, o)
              PROVE  call'[c].pc \notin {"evaluate", "reserve"}
          BY <1>0, <5>1, GatewayAssumption
             DEF Send, AfterRail, CallType, Idle, Outcome
        <5>2. ASSUME Commit(c)
              PROVE  call'[c].pc \notin {"evaluate", "reserve"}
          BY <1>0, <5>2 DEF Commit, CallType
        <5>3. ASSUME MarkFailed(c)
              PROVE  call'[c].pc \notin {"evaluate", "reserve"}
          BY <1>0, <5>3 DEF MarkFailed, CallType
        <5>4. ASSUME Record(c)
              PROVE  call'[c].pc \notin {"evaluate", "reserve"}
          BY <1>0, <5>4 DEF Record, Idle
        <5>5. ASSUME NEW w \in VoidAnswers, Void(c, w)
              PROVE  call'[c].pc \notin {"evaluate", "reserve"}
          BY <1>0, <5>5 DEF Void, CallType, Idle
        <5>6. call'[c].pc \notin {"evaluate", "reserve"}
          BY <4>4, <5>1, <5>2, <5>3, <5>4, <5>5
        <5> QED  BY <4>1, <5>6
      <4> QED  BY <1>2, <3>3, <4>2, <4>3, <4>4 DEF Propose
    <3> QED  BY <3>1, <3>2, <3>3
             DEF Next, Reconcile, Environment, ReconStart, ReconAsk, ReconMark,
                 Land, Approve, Lapse, vars
  <2> QED  BY <2>3, <2>4 DEF LimitInv
<1> QED  BY <1>1, <1>2

LEMMA LimitAlways ==
  ASSUME ~Overlap, Enforcing
  PROVE  Spec => [](Typed /\ OrderInv /\ FlightInv /\ LimitInv)
<1>1. Init => LimitInv
  BY LimitInit
<1>2. Typed /\ Typed' /\ OrderInv /\ OrderInv' /\ FlightInv /\ LimitInv
        /\ [Next]_vars => LimitInv'
  BY LimitNext
<1> QED  BY <1>1, <1>2, FlightAlways, PTL DEF Spec

(* The limits of the mandate hold in every state of an enforcing gateway,  *)
(* however many calls evaluate at the same time, whatever the rail does,   *)
(* through crashes and reconciliations.                                    *)

(* Committed and reserved money never exceeds the budget.                  *)
THEOREM BudgetLimit ==
  ASSUME ~Overlap, Enforcing
  PROVE  Spec => []BudgetHeld
<1>1. LimitInv => BudgetHeld
  BY DEF LimitInv
<1> QED  BY <1>1, LimitAlways, PTL

(* The live orders never exceed the velocity.                              *)
THEOREM VelocityLimit ==
  ASSUME ~Overlap, Enforcing
  PROVE  Spec => []VelocityHeld
<1>1. LimitInv => VelocityHeld
  BY DEF LimitInv
<1> QED  BY <1>1, LimitAlways, PTL

(* No two live orders share a SKU.                                         *)
THEOREM RepeatLimit ==
  ASSUME ~Overlap, Enforcing
  PROVE  Spec => []NoRepeatPurchase
<1>1. LimitInv => NoRepeatPurchase
  BY DEF LimitInv
<1> QED  BY <1>1, LimitAlways, PTL

(* Gateway implements SpendGuard: an enforcing gateway whose Reconciler is *)
(* started between calls holds an intent's money only while the mandate    *)
(* has room, and settles what it holds once.                               *)
THEOREM GatewayImplementsGuard ==
  ASSUME ~Overlap, Enforcing
  PROVE  Spec => ImplementsGuard
<1>1. Init => Guard!Init
  BY DEF Init, Guard!Init
<1>2. ASSUME Typed, OrderInv, FlightInv, LimitInv, [Next]_vars
      PROVE  [Guard!Next]_ledger
  <2>1. ASSUME NEW c \in Callers, Reserve(c)
        PROVE  Guard!Next
    <3> DEFINE i == call[c].intent
               a == call[c].amount
    <3>1. i \in Intents /\ a \in Amounts /\ ledger[i].state = "none" /\ HasRoom(i, a)
      BY <1>2, <2>1 DEF Reserve, Typed, Working, OrderInv, LockInv, LimitInv, RoomInv
    <3>2. ledger' = [ledger EXCEPT ![i] = [state |-> "PENDING", amount |-> a]]
      BY <2>1 DEF Reserve
    <3> HIDE DEF i, a
    <3>3. Guard!Room(i, a)
      BY <3>1, GuardRoom
    <3> QED  BY <3>1, <3>2, <3>3 DEF Guard!Next, Guard!Hold
  <2>2. ASSUME NEW i \in Intents, NEW s \in {"COMMITTED", "FAILED"}, Settles(i, s)
        PROVE  Guard!Next
    BY <2>2 DEF Settles, SetEntry, Guard!Next, Guard!Settle
  <2>3. LedgerStep
    BY <1>2, LedgerSteps
  <2> QED  BY <2>1, <2>2, <2>3 DEF LedgerStep
<1>3. Typed /\ OrderInv /\ FlightInv /\ LimitInv /\ [Next]_vars
        => [Guard!Next]_ledger
  BY <1>2
<1> QED  BY <1>1, <1>3, LimitAlways, PTL DEF Spec, ImplementsGuard, Guard!Spec
-----------------------------------------------------------------------------
(* What the gateway's books say of the rail.  Each theorem names, as its   *)
(* hypotheses, what it needs of the rail, the adapters and the process:    *)
(* the tables of outcomes are constants of Gateway, so that these are      *)
(* conditions on constants.                                                *)

(* The effect of each step of a call on its own variables.                 *)

LEMMA OthersStand ==
  ASSUME TypeOK, NEW c \in Callers, Propose(c)
  PROVE  /\ \A d \in Callers : d # c => call'[d] = call[d]
         /\ UNCHANGED <<recon, crashes>>
<1>0. call \in [Callers -> CallType]
  BY CallTyped
<1> QED  BY <1>0 DEF Propose, Enter, Evaluate, Reserve, Send, Commit, Void,
                     MarkFailed, Record

LEMMA EnterEffect ==
  ASSUME TypeOK, NEW c \in Callers, NEW i \in Intents, NEW a \in Amounts,
         Enter(c, i, a)
  PROVE  /\ call[c].pc = "idle"
         /\ call'[c].pc = "evaluate" /\ ~call'[c].executed
         /\ UNCHANGED <<ledger, audit, orders, wire>>
<1>0. call \in [Callers -> CallType]
  BY CallTyped
<1> QED  BY <1>0 DEF Enter, Idle

LEMMA EvaluateEffect ==
  ASSUME TypeOK, NEW c \in Callers, NEW s \in Screens, Evaluate(c, s)
  PROVE  /\ call[c].pc = "evaluate"
         /\ call'[c].pc \in {"reserve", "audit"}
         /\ call'[c].executed = call[c].executed
         /\ UNCHANGED <<ledger, audit, orders, wire>>
<1>0. call \in [Callers -> CallType]
  BY CallTyped
<1> QED  BY <1>0 DEF Evaluate, CallType

LEMMA ReserveEffect ==
  ASSUME Typed, OrderInv, NEW c \in Callers, Reserve(c)
  PROVE  LET i == call[c].intent IN
         /\ i \in Intents
         /\ ledger[i].state = "none" /\ orders[i] = <<>>
         /\ ledger'[i] = [state |-> "PENDING", amount |-> call[c].amount]
         /\ \A j \in Intents : j # i => ledger'[j] = ledger[j]
         /\ call[c].pc = "reserve"
         /\ call'[c].pc = "send" /\ call'[c].sent
         /\ call'[c].intent = i /\ call'[c].amount = call[c].amount
         /\ call'[c].executed = call[c].executed
         /\ UNCHANGED <<audit, orders, wire>>
<1>0. call \in [Callers -> CallType]
      /\ ledger \in [Intents -> [state : EntryState, amount : Nat]]
  BY CallTyped DEF Typed, TypeOK
<1>1. call[c].intent \in Intents /\ ledger[call[c].intent].state = "none"
  BY DEF Reserve, Typed, Working, OrderInv, LockInv
<1>2. orders[call[c].intent] = <<>>
  BY <1>1 DEF OrderInv, ReservedBeforeSent
<1> QED  BY <1>0, <1>1, <1>2 DEF Reserve, CallType

(* The one order an intent gets is the first, and it is the only one.      *)
PlacedAs(i, o) == orders'[i] = <<o>>

LEMMA PlaceCharges ==
  ASSUME TypeOK, NEW i \in Intents, NEW a \in Nat, Place(i, a), orders[i] = <<>>
  PROVE  /\ \E m \in Multipliers :
              PlacedAs(i, [charged |-> m * a, status |-> "created"])
         /\ \A j \in Intents : j # i => orders'[j] = orders[j]
<1>1. PICK m \in Multipliers :
        orders' = [orders EXCEPT
          ![i] = Append(@, [charged |-> m * a, status |-> "created"])]
  BY DEF Place
<1> DEFINE o == [charged |-> m * a, status |-> "created"]
<1>2. orders \in [Intents -> Seq(Order)]
  BY DEF TypeOK, Order
<1>3. orders'[i] = Append(<<>>, o)
  BY <1>1, <1>2
<1>4. Append(<<>>, o) = <<o>>
  OBVIOUS
<1> HIDE DEF o
<1>5. PlacedAs(i, o)
  BY <1>3, <1>4 DEF PlacedAs
<1> QED  BY <1>1, <1>2, <1>5 DEF o

LEMMA SendEffect ==
  ASSUME Typed, OrderInv, NEW c \in Callers, NEW o \in Outcomes, Send(c, o)
  PROVE  LET i == call[c].intent IN
         /\ i \in Intents /\ orders[i] = <<>> /\ ledger[i].state # "none"
         /\ call[c].pc = "send"
         /\ \A j \in Intents : j # i => orders'[j] = orders[j]
         /\ \/ \E m \in Multipliers :
                 PlacedAs(i, [charged |-> m * call[c].amount, status |-> "created"])
            \/ o.lands # "now" /\ orders'[i] = <<>>
         /\ o.lands = "now" => orders'[i] # <<>>
         /\ o.lands # "now" => orders'[i] = <<>>
         /\ call'[c].pc \in {"idle", "answered", "refused", "audit"}
         /\ call'[c].pc = "idle" <=> o.answer = "exception"
         /\ call'[c].pc = "refused" <=> o.answer = "refused"
         /\ call'[c].pc = "answered" <=> o.answer = "ok"
         /\ call'[c].pc = "answered" => call'[c].order = 1
         /\ call'[c].pc # "idle" => /\ call'[c].intent = i
                                    /\ call'[c].amount = call[c].amount
                                    /\ call'[c].sent = call[c].sent
         /\ call'[c].executed => call[c].executed
         /\ \A r \in wire' : \/ r \in wire
                             \/ /\ o.lands = "later" /\ r.intent = i
                                /\ r.amount = call[c].amount
         /\ o.lands # "later" => wire' = wire
         /\ UNCHANGED <<ledger, audit>>
<1> DEFINE i == call[c].intent
<1>0. call[c] \in CallType /\ call \in [Callers -> CallType]
  BY CallTyped DEF Typed
<1>1. i \in Intents /\ orders[i] = <<>> /\ ledger[i].state # "none"
  BY DEF Send, Typed, Working, OrderInv, SendInv, KnownInv, InFlight
<1>2. /\ \A j \in Intents : j # i => orders'[j] = orders[j]
      /\ \/ \E m \in Multipliers :
              PlacedAs(i, [charged |-> m * call[c].amount, status |-> "created"])
         \/ o.lands # "now" /\ orders'[i] = <<>>
      /\ o.lands = "now" => orders'[i] # <<>>
      /\ o.lands # "now" => orders'[i] = <<>>
  <2>1. CASE o.lands = "now"
    <3>1. Place(i, call[c].amount) /\ call[c].amount \in Nat /\ TypeOK
      BY <1>0, <2>1 DEF Send, CallType, Typed
    <3>2. /\ \E m \in Multipliers :
               PlacedAs(i, [charged |-> m * call[c].amount, status |-> "created"])
          /\ \A j \in Intents : j # i => orders'[j] = orders[j]
      BY <1>1, <3>1, PlaceCharges
    <3>3. orders'[i] # <<>>
      BY <3>2 DEF PlacedAs
    <3> QED  BY <2>1, <3>2, <3>3
  <2>2. CASE o.lands # "now"
    BY <1>1, <2>2 DEF Send
  <2> QED  BY <2>1, <2>2
<1>3. call'[c] = AfterRail(call[c], o)
  BY <1>0 DEF Send
<1>4. /\ call'[c].pc \in {"idle", "answered", "refused", "audit"}
      /\ call'[c].pc = "idle" <=> o.answer = "exception"
      /\ call'[c].pc = "refused" <=> o.answer = "refused"
      /\ call'[c].pc = "answered" <=> o.answer = "ok"
      /\ call'[c].pc = "answered" => call'[c].order = 1
      /\ call'[c].pc # "idle" => /\ call'[c].intent = i
                                 /\ call'[c].amount = call[c].amount
                                 /\ call'[c].sent = call[c].sent
      /\ call'[c].executed => call[c].executed
  <2>1. o.answer \in {"ok", "timeout", "refused", "exception"}
    BY GatewayAssumption DEF Outcome
  <2>2. CASE o.answer = "ok"
    <3>1. Len(orders[i]) + 1 = 1
      BY <1>1
    <3> QED  BY <1>0, <1>3, <2>2, <3>1 DEF AfterRail, CallType
  <2>3. CASE o.answer = "refused"
    BY <1>0, <1>3, <2>3 DEF AfterRail, CallType
  <2>4. CASE o.answer = "timeout"
    BY <1>0, <1>3, <2>4 DEF AfterRail, CallType
  <2>5. CASE o.answer = "exception"
    BY <1>3, <2>5 DEF AfterRail, Idle
  <2> QED  BY <2>1, <2>2, <2>3, <2>4, <2>5
<1>5. /\ \A r \in wire' : \/ r \in wire
                          \/ /\ o.lands = "later" /\ r.intent = i
                             /\ r.amount = call[c].amount
      /\ o.lands # "later" => wire' = wire
      /\ call[c].pc = "send"
      /\ UNCHANGED <<ledger, audit>>
  BY DEF Send
<1> QED  BY <1>1, <1>2, <1>4, <1>5

(* Commit and MarkFailed write the entry's state, never its amount.        *)
EntrySet(i, s) ==
  /\ ledger'[i] = [state |-> s, amount |-> ledger[i].amount]
  /\ \A j \in Intents : j # i => ledger'[j] = ledger[j]

LEMMA SetEntryEffect ==
  ASSUME TypeOK, NEW i \in Intents, NEW s \in EntryState, SetEntry(i, s)
  PROVE  EntrySet(i, s)
BY DEF TypeOK, SetEntry, EntrySet

LEMMA CommitEffect ==
  ASSUME Typed, NEW c \in Callers, Commit(c)
  PROVE  LET i == call[c].intent IN
         /\ i \in Intents /\ call[c].pc = "answered" /\ Matches(call[c])
         /\ EntrySet(i, "COMMITTED")
         /\ call'[c].pc = "audit" /\ call'[c].executed
         /\ call'[c].intent = i /\ call'[c].amount = call[c].amount
         /\ call'[c].sent = call[c].sent
         /\ UNCHANGED <<audit, orders, wire>>
<1>0. call \in [Callers -> CallType]
  BY CallTyped DEF Typed
<1>1. call[c].intent \in Intents
  BY DEF Commit, Typed, Working
<1>2. EntrySet(call[c].intent, "COMMITTED")
  BY <1>1, SetEntryEffect DEF Commit, EntryState, Typed
<1> QED  BY <1>0, <1>1, <1>2 DEF Commit, CallType

LEMMA VoidEffect ==
  ASSUME Typed, NEW c \in Callers, NEW w \in VoidAnswers, Void(c, w)
  PROVE  LET i == call[c].intent IN
         /\ i \in Intents /\ call[c].pc = "answered" /\ ~Matches(call[c])
         /\ call'[c].pc = IF w = "exception" THEN "idle" ELSE "diverged"
         /\ call'[c].pc = "diverged" => /\ call'[c].intent = i
                                        /\ call'[c].amount = call[c].amount
                                        /\ call'[c].sent = call[c].sent
         /\ call'[c].executed => call[c].executed
         /\ orders' = IF w = "voided"
                      THEN [orders EXCEPT ![i][call[c].order].status = "voided"]
                      ELSE orders
         /\ UNCHANGED <<ledger, audit, wire>>
<1>0. call \in [Callers -> CallType]
  BY CallTyped DEF Typed
<1>1. call[c].intent \in Intents
  BY DEF Void, Typed, Working
<1> QED  BY <1>0, <1>1 DEF Void, CallType, Idle

LEMMA MarkFailedEffect ==
  ASSUME Typed, NEW c \in Callers, MarkFailed(c)
  PROVE  LET i == call[c].intent IN
         /\ i \in Intents /\ call[c].pc \in {"diverged", "refused"}
         /\ EntrySet(i, "FAILED")
         /\ call'[c].pc = "audit" /\ call'[c].executed = call[c].executed
         /\ call'[c].intent = i /\ call'[c].amount = call[c].amount
         /\ call'[c].sent = call[c].sent
         /\ UNCHANGED <<audit, orders, wire>>
<1>0. call \in [Callers -> CallType]
  BY CallTyped DEF Typed
<1>1. call[c].intent \in Intents
  BY DEF MarkFailed, Typed, Working
<1>2. EntrySet(call[c].intent, "FAILED")
  BY <1>1, SetEntryEffect DEF MarkFailed, EntryState, Typed
<1> QED  BY <1>0, <1>1, <1>2 DEF MarkFailed, CallType

LEMMA RecordEffect ==
  ASSUME TypeOK, NEW c \in Callers, Record(c)
  PROVE  /\ call[c].pc = "audit"
         /\ call'[c].pc = "idle" /\ ~call'[c].executed
         /\ audit' = IF call[c].sent THEN audit \cup {call[c].intent} ELSE audit
         /\ UNCHANGED <<ledger, orders, wire>>
<1>0. call \in [Callers -> CallType]
  BY CallTyped
<1> QED  BY <1>0 DEF Record, Idle

LEMMA ReconMarkEffect ==
  ASSUME Typed, ReconMark
  PROVE  /\ recon.pc = "mark" /\ recon.intent \in Intents
         /\ EntrySet(recon.intent, IF recon.found THEN "COMMITTED" ELSE "FAILED")
         /\ recon'.pc \in {"idle", "scan"}
         /\ UNCHANGED <<call, audit, orders, wire>>
<1>1. recon.intent \in Intents
  BY DEF ReconMark, Typed, ReconWorking
<1>2. EntrySet(recon.intent, IF recon.found THEN "COMMITTED" ELSE "FAILED")
  BY <1>1, SetEntryEffect DEF ReconMark, EntryState, Typed
<1>3. recon'.pc \in {"idle", "scan"}
  BY DEF ReconMark, Resting
<1> QED  BY <1>1, <1>2, <1>3 DEF ReconMark

-----------------------------------------------------------------------------
(* Spending leaves a trace.                                                *)

(* The call that reserved for intent i is on its way to its audit record.  *)
WillRecord(c, i) ==
  /\ call[c].intent = i /\ call[c].sent
  /\ call[c].pc \in InFlight \cup {"audit"}

TraceInv ==
  \A i \in Intents :
    ledger[i].state # "none" => i \in audit \/ \E c \in Callers : WillRecord(c, i)

(* Nothing takes a call from Reserve to its end without the record: no     *)
(* crash, no exception but the two the adapters define.                    *)
RunsToRecord ==
  /\ MaxCrashes = 0
  /\ \A o \in Outcomes : o.answer # "exception"
  /\ "exception" \notin VoidAnswers \/ ~ReportsAmount

LEMMA TraceNext ==
  ASSUME RunsToRecord, Typed, OrderInv, TraceInv, [Next]_vars
  PROVE  TraceInv'
<1>0. TypeOK
  BY DEF Typed
<1>1. ASSUME NEW c \in Callers, Propose(c),
             audit \subseteq audit',
             \A i \in Intents : WillRecord(c, i) => i \in audit' \/ WillRecord(c, i)',
             \A i \in Intents : ledger'[i].state # "none" =>
               ledger[i].state # "none" \/ WillRecord(c, i)'
      PROVE  TraceInv'
  <2>1. \A d \in Callers, i \in Intents :
          WillRecord(d, i) => i \in audit' \/ WillRecord(d, i)'
    BY <1>0, <1>1, OthersStand DEF WillRecord
  <2> QED  BY <1>1, <2>1 DEF TraceInv
<1>2. ASSUME NEW c \in Callers, Propose(c)
      PROVE  TraceInv'
  <2>1. ASSUME NEW i \in Intents, NEW a \in Amounts, Enter(c, i, a)
        PROVE  TraceInv'
    BY <1>0, <1>1, <1>2, <2>1, EnterEffect DEF WillRecord, InFlight
  <2>2. ASSUME NEW s \in Screens, Evaluate(c, s)
        PROVE  TraceInv'
    BY <1>0, <1>1, <1>2, <2>2, EvaluateEffect DEF WillRecord, InFlight
  <2>3. CASE Reserve(c)
    <3>1. \A i \in Intents : ~WillRecord(c, i)
      BY <2>3, ReserveEffect DEF WillRecord, InFlight
    <3>2. \A i \in Intents : ledger'[i].state # "none" =>
            ledger[i].state # "none" \/ WillRecord(c, i)'
      BY <2>3, ReserveEffect, ZenonT(40) DEF WillRecord, InFlight
    <3>3. UNCHANGED audit
      BY <2>3, ReserveEffect
    <3> QED  BY <1>1, <1>2, <3>1, <3>2, <3>3
  <2>4. ASSUME NEW o \in Outcomes, Send(c, o)
        PROVE  TraceInv'
    BY <1>1, <1>2, <2>4, SendEffect DEF WillRecord, InFlight, RunsToRecord
  <2>5. CASE Commit(c)
    <3>1. \A i \in Intents : WillRecord(c, i) => WillRecord(c, i)'
      BY <2>5, CommitEffect DEF WillRecord, InFlight
    <3>2. ledger[call[c].intent].state # "none"
      BY <2>5 DEF Commit, OrderInv, KnownInv, InFlight
    <3>3. \A i \in Intents : ledger'[i].state # "none" => ledger[i].state # "none"
      BY <2>5, <3>2, CommitEffect DEF EntrySet
    <3>4. UNCHANGED audit
      BY <2>5, CommitEffect
    <3> QED  BY <1>1, <1>2, <3>1, <3>3, <3>4
  <2>6. ASSUME NEW w \in VoidAnswers, Void(c, w)
        PROVE  TraceInv'
    <3>1. w # "exception"
      BY <2>6 DEF RunsToRecord, Void, Matches
    <3> QED  BY <1>1, <1>2, <2>6, <3>1, VoidEffect DEF WillRecord, InFlight
  <2>7. CASE MarkFailed(c)
    <3>1. \A i \in Intents : WillRecord(c, i) => WillRecord(c, i)'
      BY <2>7, MarkFailedEffect DEF WillRecord, InFlight
    <3>2. ledger[call[c].intent].state # "none"
      BY <2>7 DEF MarkFailed, OrderInv, KnownInv, InFlight
    <3>3. \A i \in Intents : ledger'[i].state # "none" => ledger[i].state # "none"
      BY <2>7, <3>2, MarkFailedEffect DEF EntrySet
    <3>4. UNCHANGED audit
      BY <2>7, MarkFailedEffect
    <3> QED  BY <1>1, <1>2, <3>1, <3>3, <3>4
  <2>8. CASE Record(c)
    BY <1>0, <1>1, <1>2, <2>8, RecordEffect DEF WillRecord
  <2> QED  BY <1>2, <2>1, <2>2, <2>3, <2>4, <2>5, <2>6, <2>7, <2>8 DEF Propose
<1>3. CASE ReconMark
  <2>1. ledger[recon.intent].state # "none"
    BY <1>3 DEF ReconMark, OrderInv, KnownInv, ReconTodo
  <2> QED  BY <1>3, <2>1, ReconMarkEffect DEF TraceInv, WillRecord, EntrySet
<1>4. ~Crash
  BY <1>0 DEF Crash, RunsToRecord, TypeOK
<1>5. CASE \/ ReconStart
           \/ \E i \in Intents, f \in BOOLEAN : ReconAsk(i, f)
           \/ \E r \in wire : Land(r)
           \/ \E i \in Intents : Approve(i) \/ Lapse(i)
           \/ UNCHANGED vars
  BY <1>5 DEF ReconStart, ReconAsk, Land, Approve, Lapse, vars, TraceInv, WillRecord
<1> QED  BY <1>2, <1>3, <1>4, <1>5 DEF Next, Reconcile, Environment

(* Spending is audited, whatever the rail does with a request and in any   *)
(* mode, as long as every call that reserved gets to its audit record: if  *)
(* no crash and no unexpected exception ends it on the way, and the        *)
(* Reconciler does not spend for a call that is still in flight.           *)
THEOREM SpendingAudited ==
  ASSUME RunsToRecord, ~Overlap
  PROVE  Spec => []SpendIsAudited
<1>1. Init => TraceInv
  BY DEF Init, TraceInv
<1>2. Typed /\ OrderInv /\ TraceInv /\ [Next]_vars => TraceInv'
  BY TraceNext
<1>3. FlightInv /\ TraceInv => SpendIsAudited
  BY DEF TraceInv, SpendIsAudited, WillRecord, FlightInv
<1> QED  BY <1>1, <1>2, <1>3, FlightAlways, PTL DEF Spec

-----------------------------------------------------------------------------
(* What is committed is what was authorised.                               *)

(* An order, once there, is the one its entry reserves the money for.      *)
Faithful(i) ==
  orders[i] \in {<<>>, <<[charged |-> ledger[i].amount, status |-> "created"]>>}

PriceInv ==
  /\ \A i \in Intents : Faithful(i)
  /\ \A i \in Intents : ledger[i].state = "COMMITTED" => orders[i] # <<>>
  /\ \A r \in wire : r.amount = ledger[r.intent].amount
  /\ \A c \in Callers : call[c].pc \in InFlight =>
       call[c].amount = ledger[call[c].intent].amount
  /\ \A c \in Callers : call[c].pc = "answered" =>
       call[c].order = 1 /\ orders[call[c].intent] # <<>>
  /\ recon.pc = "mark" /\ recon.found => orders[recon.intent] # <<>>

(* The rail charges what it is asked to charge.                            *)
ChargesTrue == Multipliers \subseteq {1}

(* Then the amount check never fails, and no order is voided.              *)
LEMMA NeverDiverges ==
  ASSUME TypeOK, Working, PriceInv, NEW c \in Callers, call[c].pc = "answered"
  PROVE  Matches(call[c])
<1>1. call[c].intent \in Intents /\ call[c].order = 1
      /\ orders[call[c].intent] # <<>> /\ Faithful(call[c].intent)
      /\ call[c].amount = ledger[call[c].intent].amount
  BY DEF Working, PriceInv, InFlight
<1>2. orders[call[c].intent][1].charged = ledger[call[c].intent].amount
  BY <1>1 DEF Faithful
<1> QED  BY <1>1, <1>2 DEF Matches

(* What a step has to show when it leaves the entries' amounts alone and   *)
(* takes no order away.                                                    *)
LEMMA PriceFrame ==
  ASSUME TypeOK, Working, PriceInv,
         UNCHANGED <<orders, wire>>,
         \A i \in Intents : ledger'[i].amount = ledger[i].amount,
         \A i \in Intents : ledger'[i].state = "COMMITTED" =>
           ledger[i].state = "COMMITTED" \/ orders[i] # <<>>,
         \A c \in Callers : call'[c].pc \in InFlight =>
           /\ call[c].pc \in InFlight /\ call'[c].intent = call[c].intent
           /\ call'[c].amount = call[c].amount,
         \A c \in Callers : call'[c].pc = "answered" => call'[c] = call[c],
         recon'.pc = "mark" /\ recon'.found => orders[recon'.intent] # <<>>
  PROVE  PriceInv'
<1>1. \A i \in Intents : Faithful(i)'
  BY DEF PriceInv, Faithful
<1>2. \A r \in wire' : r.amount = ledger'[r.intent].amount
  BY DEF PriceInv, TypeOK
<1>3. \A c \in Callers : call'[c].pc \in InFlight =>
        call'[c].amount = ledger'[call'[c].intent].amount
  BY DEF PriceInv, Working, InFlight
<1> QED  BY <1>1, <1>2, <1>3 DEF PriceInv

LEMMA PriceNext ==
  ASSUME ChargesTrue, Typed, OrderInv, PriceInv, [Next]_vars
  PROVE  PriceInv'
<1>0. TypeOK /\ Working
  BY DEF Typed
<1>1. ASSUME NEW c \in Callers, Propose(c)
      PROVE  PriceInv'
  <2>0. /\ \A d \in Callers : d # c => call'[d] = call[d]
        /\ UNCHANGED recon
    BY <1>0, <1>1, OthersStand
  <2>1. ASSUME NEW i \in Intents, NEW a \in Amounts, Enter(c, i, a)
        PROVE  PriceInv'
    <3>1. call'[c].pc = "evaluate" /\ UNCHANGED <<ledger, orders, wire>>
      BY <1>0, <2>1, EnterEffect
    <3> QED  BY <1>0, <2>0, <3>1, PriceFrame DEF InFlight, PriceInv
  <2>2. ASSUME NEW s \in Screens, Evaluate(c, s)
        PROVE  PriceInv'
    <3>1. call'[c].pc \in {"reserve", "audit"} /\ UNCHANGED <<ledger, orders, wire>>
      BY <1>0, <2>2, EvaluateEffect
    <3> QED  BY <1>0, <2>0, <3>1, PriceFrame DEF InFlight, PriceInv
  <2>3. CASE Reserve(c)
    <3> DEFINE i == call[c].intent
    <3>1. /\ i \in Intents /\ ledger[i].state = "none" /\ orders[i] = <<>>
          /\ ledger'[i] = [state |-> "PENDING", amount |-> call[c].amount]
          /\ \A j \in Intents : j # i => ledger'[j] = ledger[j]
          /\ call'[c].pc = "send"
          /\ call'[c].intent = i /\ call'[c].amount = call[c].amount
          /\ UNCHANGED <<orders, wire>>
      BY <2>3, ReserveEffect
    <3>2. \A r \in wire : r.intent \in Intents \ {i}
      BY <1>0, <3>1 DEF OrderInv, SendInv, TypeOK
    <3>3. \A d \in Callers : d # c /\ call'[d].pc \in InFlight =>
            /\ call'[d] = call[d] /\ call[d].pc \in InFlight
            /\ call[d].intent \in Intents \ {i}
      BY <1>0, <2>0, <3>1 DEF OrderInv, KnownInv, Working, InFlight
    <3> HIDE DEF i
    <3>4. \A j \in Intents : Faithful(j)'
      BY <3>1 DEF PriceInv, Faithful
    <3>5. \A j \in Intents : ledger'[j].state = "COMMITTED" => orders'[j] # <<>>
      BY <3>1 DEF PriceInv
    <3>6. \A r \in wire' : r.amount = ledger'[r.intent].amount
      BY <3>1, <3>2 DEF PriceInv
    <3>7. \A d \in Callers : call'[d].pc \in InFlight =>
            call'[d].amount = ledger'[call'[d].intent].amount
      BY <3>1, <3>3 DEF PriceInv
    <3>8. \A d \in Callers : call'[d].pc = "answered" =>
            call'[d].order = 1 /\ orders'[call'[d].intent] # <<>>
      BY <3>1, <3>3 DEF PriceInv, InFlight
    <3> QED  BY <2>0, <3>1, <3>4, <3>5, <3>6, <3>7, <3>8 DEF PriceInv
  <2>4. ASSUME NEW o \in Outcomes, Send(c, o)
        PROVE  PriceInv'
    <3> DEFINE i == call[c].intent
               a == call[c].amount
    <3>1. /\ i \in Intents /\ orders[i] = <<>> /\ call[c].pc = "send"
          /\ \A j \in Intents : j # i => orders'[j] = orders[j]
          /\ \/ \E m \in Multipliers :
                  PlacedAs(i, [charged |-> m * a, status |-> "created"])
             \/ orders'[i] = <<>>
          /\ o.lands = "now" => orders'[i] # <<>>
          /\ call'[c].pc \in {"idle", "answered", "refused", "audit"}
          /\ call'[c].pc = "answered" => o.answer = "ok" /\ call'[c].order = 1
          /\ call'[c].pc # "idle" => call'[c].intent = i /\ call'[c].amount = a
          /\ \A r \in wire' : r \in wire \/ (r.intent = i /\ r.amount = a)
          /\ UNCHANGED ledger
      BY <2>4, SendEffect
    <3>2. a = ledger[i].amount /\ a \in Nat
      BY <1>0, <3>1, CallTyped DEF PriceInv, InFlight, CallType
    <3>3. o.answer = "ok" => o.lands = "now"
      BY GatewayAssumption
    <3> HIDE DEF i, a
    <3>4. orders'[i] \in {<<>>, <<[charged |-> a, status |-> "created"]>>}
      <4>1. ASSUME NEW m \in Multipliers,
                   PlacedAs(i, [charged |-> m * a, status |-> "created"])
            PROVE  orders'[i] = <<[charged |-> a, status |-> "created"]>>
        <5>0. m = 1
          BY DEF ChargesTrue
        <5>1. m * a = a
          BY <3>2, <5>0
        <5> QED  BY <4>1, <5>1 DEF PlacedAs
      <4> QED  BY <3>1, <4>1
    <3>5. \A j \in Intents : Faithful(j)'
      BY <3>1, <3>2, <3>4 DEF PriceInv, Faithful
    <3>6. \A j \in Intents : orders[j] # <<>> => orders'[j] # <<>>
      BY <3>1
    <3>7. \A r \in wire' : r.amount = ledger'[r.intent].amount
      BY <3>1, <3>2 DEF PriceInv
    <3>8. \A d \in Callers : call'[d].pc \in InFlight =>
            call'[d].amount = ledger'[call'[d].intent].amount
      BY <2>0, <3>1, <3>2 DEF PriceInv, InFlight
    <3>9. \A d \in Callers : call'[d].pc = "answered" =>
            call'[d].order = 1 /\ orders'[call'[d].intent] # <<>>
      BY <1>0, <2>0, <3>1, <3>3, <3>6 DEF PriceInv, Working
    <3>10. recon'.pc = "mark" /\ recon'.found => orders'[recon'.intent] # <<>>
      BY <2>0, <3>6 DEF PriceInv, Typed, ReconWorking
    <3> QED  BY <3>1, <3>5, <3>6, <3>7, <3>8, <3>9, <3>10 DEF PriceInv
  <2>5. CASE Commit(c)
    <3>1. /\ call[c].intent \in Intents /\ call[c].pc = "answered"
          /\ EntrySet(call[c].intent, "COMMITTED")
          /\ call'[c].pc = "audit" /\ UNCHANGED <<orders, wire>>
      BY <2>5, CommitEffect
    <3>2. orders[call[c].intent] # <<>>
      BY <3>1 DEF PriceInv
    <3> QED  BY <1>0, <2>0, <3>1, <3>2, PriceFrame DEF InFlight, EntrySet, PriceInv
  <2>6. ASSUME NEW w \in VoidAnswers
        PROVE  ~Void(c, w)
    BY <1>0, NeverDiverges DEF Void
  <2>7. CASE MarkFailed(c)
    <3>1. /\ call[c].intent \in Intents
          /\ EntrySet(call[c].intent, "FAILED")
          /\ call'[c].pc = "audit" /\ UNCHANGED <<orders, wire>>
      BY <2>7, MarkFailedEffect
    <3> QED  BY <1>0, <2>0, <3>1, PriceFrame DEF InFlight, EntrySet, PriceInv
  <2>8. CASE Record(c)
    <3>1. call'[c].pc = "idle" /\ UNCHANGED <<ledger, orders, wire>>
      BY <1>0, <2>8, RecordEffect
    <3> QED  BY <1>0, <2>0, <3>1, PriceFrame DEF InFlight, PriceInv
  <2> QED  BY <1>1, <2>1, <2>2, <2>3, <2>4, <2>5, <2>6, <2>7, <2>8 DEF Propose
<1>2. CASE ReconMark
  <2>1. /\ recon.pc = "mark" /\ recon.intent \in Intents
        /\ EntrySet(recon.intent, IF recon.found THEN "COMMITTED" ELSE "FAILED")
        /\ recon'.pc \in {"idle", "scan"} /\ UNCHANGED <<call, orders, wire>>
    BY <1>2, ReconMarkEffect
  <2>2. \A i \in Intents : ledger'[i].amount = ledger[i].amount
    BY <2>1 DEF EntrySet
  <2>3. \A i \in Intents : ledger'[i].state = "COMMITTED" =>
          ledger[i].state = "COMMITTED" \/ orders[i] # <<>>
    BY <2>1 DEF EntrySet, PriceInv
  <2> QED  BY <1>0, <2>1, <2>2, <2>3, PriceFrame
<1>3. ASSUME NEW r \in wire, Land(r)
      PROVE  PriceInv'
  <2>1. /\ r.intent \in Intents /\ r.amount \in Nat
        /\ orders[r.intent] = <<>> /\ r.amount = ledger[r.intent].amount
    BY <1>0 DEF OrderInv, SendInv, PriceInv, TypeOK
  <2>2. /\ \A j \in Intents : j # r.intent => orders'[j] = orders[j]
        /\ orders'[r.intent]
             \in {<<>>, <<[charged |-> r.amount, status |-> "created"]>>}
    <3>1. CASE Place(r.intent, r.amount)
      <4>1. /\ \E m \in Multipliers : PlacedAs(r.intent,
                    [charged |-> m * r.amount, status |-> "created"])
            /\ \A j \in Intents : j # r.intent => orders'[j] = orders[j]
        BY <1>0, <2>1, <3>1, PlaceCharges
      <4>2. ASSUME NEW m \in Multipliers
            PROVE  m * r.amount = r.amount
        <5>1. m = 1
          BY DEF ChargesTrue
        <5> QED  BY <2>1, <5>1
      <4> QED  BY <4>1, <4>2 DEF PlacedAs
    <3> QED  BY <1>3, <2>1, <3>1 DEF Land
  <2>3. /\ UNCHANGED <<call, ledger, recon>> /\ wire' \subseteq wire
    BY <1>3 DEF Land
  <2>4. \A j \in Intents : Faithful(j)'
    BY <2>1, <2>2, <2>3 DEF PriceInv, Faithful
  <2>5. \A j \in Intents : orders[j] # <<>> => orders'[j] # <<>>
    BY <2>1, <2>2
  <2> QED  BY <1>0, <2>3, <2>4, <2>5 DEF PriceInv, Working, Typed, ReconWorking
<1>4. CASE ReconStart
  <2>1. recon'.pc = "scan" /\ UNCHANGED <<call, ledger, orders, wire>>
    BY <1>0, <1>4 DEF ReconStart, TypeOK
  <2> QED  BY <1>0, <2>1, PriceFrame DEF PriceInv
<1>5. ASSUME NEW i \in Intents, NEW f \in BOOLEAN, ReconAsk(i, f)
      PROVE  PriceInv'
  <2>1. /\ recon'.found => orders[recon'.intent] # <<>>
        /\ UNCHANGED <<call, ledger, orders, wire>>
    BY <1>5 DEF ReconAsk
  <2> QED  BY <1>0, <2>1, PriceFrame DEF PriceInv
<1>6. CASE Crash
  <2>1. /\ \A c \in Callers : call'[c].pc = "idle"
        /\ recon'.pc = "idle" /\ UNCHANGED <<ledger, orders, wire>>
    BY <1>6 DEF Crash, Idle, Resting
  <2> QED  BY <1>0, <2>1, PriceFrame DEF PriceInv, InFlight
<1>7. CASE (\E i \in Intents : Approve(i) \/ Lapse(i)) \/ UNCHANGED vars
  <2>1. UNCHANGED <<call, recon, ledger, orders, wire>>
    BY <1>7 DEF Approve, Lapse, vars
  <2> QED  BY <1>0, <2>1, PriceFrame DEF PriceInv
<1> QED  BY <1>1, <1>2, <1>3, <1>4, <1>5, <1>6, <1>7
         DEF Next, Reconcile, Environment

LEMMA PriceAlways ==
  ASSUME ChargesTrue
  PROVE  Spec => [](Typed /\ OrderInv /\ PriceInv)
<1>1. Init => PriceInv
  BY DEF Init, PriceInv, Faithful, Idle, Resting, InFlight
<1>2. Typed /\ OrderInv /\ PriceInv /\ [Next]_vars => PriceInv'
  BY PriceNext
<1> QED  BY <1>1, <1>2, OrderAlways, PTL DEF Spec

(* On a rail that charges what it is asked to, a committed entry has an    *)
(* order standing at exactly the amount that was authorised: in any mode,  *)
(* through crashes, requests that land late, an incomplete scan and a      *)
(* Reconciler that overlaps with calls in flight.                          *)
THEOREM CommittedExactly ==
  ASSUME ChargesTrue
  PROVE  Spec => []CommittedAsAuthorised
<1>1. PriceInv => CommittedAsAuthorised
  <2> SUFFICES ASSUME PriceInv, NEW i \in Intents, ledger[i].state = "COMMITTED"
               PROVE  \E k \in Standing(i) : orders[i][k].charged = ledger[i].amount
    BY DEF CommittedAsAuthorised
  <2>1. orders[i] = <<[charged |-> ledger[i].amount, status |-> "created"]>>
    BY DEF PriceInv, Faithful
  <2>2. 1 \in Standing(i) /\ orders[i][1].charged = ledger[i].amount
    BY <2>1 DEF Standing
  <2> QED  BY <2>2
<1> QED  BY <1>1, PriceAlways, PTL

-----------------------------------------------------------------------------
(* What stands on the rail is charged.                                     *)

(* A rail whose word holds: a refusal means that there is no order, and a  *)
(* request that was given up does not land later.  A timeout or any other  *)
(* exception leaves both possibilities open.                               *)
RailKeepsWord ==
  \A o \in Outcomes :
    o.lands # "later" /\ (o.answer = "refused" => o.lands = "never")

(* An order whose amount diverged does not stand when its entry is marked  *)
(* failed: the void works, or raises, or the amounts never differ.         *)
VoidsRestore == "stands" \notin VoidAnswers \/ ~ReportsAmount \/ ChargesTrue

(* Of the orders s of an intent: none stands, and there is one, standing,  *)
(* at the amount a times a factor of the rail.                             *)
NoneStands(s) == \A k \in DOMAIN s : s[k].status # "created"

OneStands(s, a) ==
  \E m \in Multipliers : s = <<[charged |-> m * a, status |-> "created"]>>

Charged(i) == ledger[i].state \in {"PENDING", "COMMITTED"}

RailInv ==
  /\ wire = {}
  /\ \A c \in Callers : call[c].pc = "refused" => orders[call[c].intent] = <<>>
  /\ \A c \in Callers : call[c].pc = "diverged" => NoneStands(orders[call[c].intent])
  /\ \A c \in Callers : call[c].pc = "answered" =>
       call[c].order = 1 /\ OneStands(orders[call[c].intent], call[c].amount)
  /\ recon.pc = "mark" => (recon.found <=> orders[recon.intent] # <<>>)
  /\ \A i \in Intents : NoneStands(orders[i]) \/ Charged(i)

LEMMA RailCovers == RailInv => StandingCovered
BY DEF RailInv, StandingCovered, Standing, NoneStands, Charged, Live

LEMMA EmptyNoneStands == NoneStands(<<>>)
BY DEF NoneStands

(* A void of the one order leaves none standing.                           *)
LEMMA VoidLeavesNone ==
  ASSUME TypeOK, NEW i \in Intents, NEW a, OneStands(orders[i], a),
         orders' = [orders EXCEPT ![i][1].status = "voided"]
  PROVE  NoneStands(orders'[i])
<1>1. PICK m \in Multipliers :
        orders[i] = <<[charged |-> m * a, status |-> "created"]>>
  BY DEF OneStands
<1>2. orders'[i] = <<[charged |-> m * a, status |-> "voided"]>>
  BY <1>1 DEF TypeOK
<1> QED  BY <1>2 DEF NoneStands

(* What a step has to show when it leaves the rail alone.                  *)
LEMMA RailFrame ==
  ASSUME RailInv, UNCHANGED <<orders, wire>>,
         \A c \in Callers : call'[c].pc \in {"refused", "diverged", "answered"}
           => call'[c] = call[c],
         recon'.pc = "mark" => (recon'.found <=> orders[recon'.intent] # <<>>),
         \A i \in Intents : Charged(i) => Charged(i)' \/ NoneStands(orders[i])
  PROVE  RailInv'
BY DEF RailInv

LEMMA RailNext ==
  ASSUME ~Overlap, RailKeepsWord, VoidsRestore, ScanComplete,
         Typed, OrderInv, FlightInv, RailInv, [Next]_vars
  PROVE  RailInv'
<1>0. TypeOK /\ Working
  BY DEF Typed
<1>1. ASSUME NEW c \in Callers, Propose(c)
      PROVE  RailInv'
  <2>0. /\ \A d \in Callers : d # c => call'[d] = call[d]
        /\ UNCHANGED recon
    BY <1>0, <1>1, OthersStand
  <2>m. recon.pc = "mark" => (recon.found <=> orders[recon.intent] # <<>>)
    BY DEF RailInv
  <2>1. ASSUME NEW i \in Intents, NEW a \in Amounts, Enter(c, i, a)
        PROVE  RailInv'
    <3>1. call'[c].pc = "evaluate" /\ UNCHANGED <<ledger, orders, wire>>
      BY <1>0, <2>1, EnterEffect
    <3> QED  BY <2>0, <2>m, <3>1, RailFrame DEF Charged
  <2>2. ASSUME NEW s \in Screens, Evaluate(c, s)
        PROVE  RailInv'
    <3>1. call'[c].pc \in {"reserve", "audit"} /\ UNCHANGED <<ledger, orders, wire>>
      BY <1>0, <2>2, EvaluateEffect
    <3> QED  BY <2>0, <2>m, <3>1, RailFrame DEF Charged
  <2>3. CASE Reserve(c)
    <3>1. /\ call[c].intent \in Intents
          /\ ledger'[call[c].intent] = [state |-> "PENDING", amount |-> call[c].amount]
          /\ \A j \in Intents : j # call[c].intent => ledger'[j] = ledger[j]
          /\ call'[c].pc = "send" /\ UNCHANGED <<orders, wire>>
      BY <2>3, ReserveEffect
    <3>2. \A j \in Intents : Charged(j) => Charged(j)'
      BY <3>1 DEF Charged
    <3> QED  BY <2>0, <2>m, <3>1, <3>2, RailFrame
  <2>4. ASSUME NEW o \in Outcomes, Send(c, o)
        PROVE  RailInv'
    <3> DEFINE i == call[c].intent
               a == call[c].amount
    <3>1. /\ i \in Intents /\ orders[i] = <<>> /\ call[c].pc = "send"
          /\ \A j \in Intents : j # i => orders'[j] = orders[j]
          /\ \/ \E m \in Multipliers :
                  PlacedAs(i, [charged |-> m * a, status |-> "created"])
             \/ o.lands # "now"
          /\ o.lands # "now" => orders'[i] = <<>>
          /\ call'[c].pc \in {"idle", "answered", "refused", "audit"}
          /\ call'[c].pc = "refused" => o.answer = "refused"
          /\ call'[c].pc = "answered" => o.answer = "ok" /\ call'[c].order = 1
          /\ call'[c].pc # "idle" => call'[c].intent = i /\ call'[c].amount = a
          /\ UNCHANGED ledger
      BY <2>4, SendEffect
    <3>2. wire' = {}
      BY <2>4, SendEffect DEF RailKeepsWord, RailInv
    <3>3. /\ o.answer = "ok" => o.lands = "now"
          /\ o.answer = "refused" => o.lands = "never"
      BY GatewayAssumption DEF RailKeepsWord
    <3>4. /\ ledger[i].state = "PENDING" /\ i \notin ReconTodo
          /\ \A d \in Callers : d # c /\ call'[d].pc \in InFlight =>
               call'[d] = call[d] /\ call[d].intent \in Intents \ {i}
      BY <1>0, <2>0, <3>1 DEF FlightInv, InFlight, Working
    <3> HIDE DEF i, a
    <3>5. call'[c].pc = "answered" => OneStands(orders'[i], a)
      BY <3>1, <3>3 DEF OneStands, PlacedAs
    <3>6. call'[c].pc = "refused" => orders'[i] = <<>>
      BY <3>1, <3>3
    <3>7. \A j \in Intents : NoneStands(orders'[j]) \/ Charged(j)'
      BY <3>1, <3>4 DEF RailInv, Charged
    <3>8. recon'.pc = "mark" => (recon'.found <=> orders'[recon'.intent] # <<>>)
      BY <2>0, <2>m, <3>1, <3>4 DEF ReconTodo, Typed, ReconWorking
    <3>9. \A d \in Callers : d # c /\ call'[d].pc \in InFlight =>
            orders'[call'[d].intent] = orders[call[d].intent]
      BY <3>1, <3>4
    <3>10. \A d \in Callers : call'[d].pc = "refused" => orders'[call'[d].intent] = <<>>
      BY <2>0, <3>1, <3>6, <3>9 DEF RailInv, InFlight
    <3>11. \A d \in Callers :
             call'[d].pc = "diverged" => NoneStands(orders'[call'[d].intent])
      BY <2>0, <3>1, <3>9 DEF RailInv, InFlight
    <3>12. \A d \in Callers : call'[d].pc = "answered" =>
             call'[d].order = 1 /\ OneStands(orders'[call'[d].intent], call'[d].amount)
      BY <2>0, <3>1, <3>5, <3>9 DEF RailInv, InFlight
    <3> QED  BY <3>2, <3>7, <3>8, <3>10, <3>11, <3>12 DEF RailInv
  <2>5. CASE Commit(c)
    <3>1. /\ call[c].intent \in Intents
          /\ EntrySet(call[c].intent, "COMMITTED")
          /\ call'[c].pc = "audit" /\ UNCHANGED <<orders, wire>>
      BY <2>5, CommitEffect
    <3>2. \A j \in Intents : Charged(j) => Charged(j)'
      BY <3>1 DEF Charged, EntrySet
    <3> QED  BY <2>0, <2>m, <3>1, <3>2, RailFrame
  <2>6. ASSUME NEW w \in VoidAnswers, Void(c, w)
        PROVE  RailInv'
    <3> DEFINE i == call[c].intent
    <3>1. /\ i \in Intents /\ call[c].pc = "answered" /\ ~Matches(call[c])
          /\ call'[c].pc = IF w = "exception" THEN "idle" ELSE "diverged"
          /\ call'[c].pc = "diverged" => call'[c].intent = i
          /\ orders' = IF w = "voided"
                       THEN [orders EXCEPT ![i][call[c].order].status = "voided"]
                       ELSE orders
          /\ UNCHANGED <<ledger, wire>>
      BY <2>6, VoidEffect
    <3>2. call[c].order = 1 /\ OneStands(orders[i], call[c].amount)
      BY <3>1 DEF RailInv
    <3>3. call[c].amount \in Nat
      BY <1>0, CallTyped DEF CallType
    <3>4. ~(~ReportsAmount \/ ChargesTrue)
      <4>1. ReportsAmount
        BY <3>1 DEF Matches
      <4>2. ASSUME ChargesTrue
            PROVE  FALSE
        <5>1. PICK m \in Multipliers : orders[i] =
                <<[charged |-> m * call[c].amount, status |-> "created"]>>
          BY <3>2 DEF OneStands
        <5>2. m = 1
          BY <4>2 DEF ChargesTrue
        <5>3. m * call[c].amount = call[c].amount
          BY <3>3, <5>2
        <5>4. orders[i][call[c].order].charged = call[c].amount
          BY <3>2, <5>1, <5>3
        <5> QED  BY <3>1, <5>4 DEF Matches
      <4> QED  BY <4>1, <4>2
    <3>5. w \in {"voided", "exception"}
      BY <3>4, GatewayAssumption DEF VoidsRestore, VoidAnswer
    <3>6. CASE w = "exception"
      <4>1. UNCHANGED <<orders, wire, ledger>> /\ call'[c].pc = "idle"
        BY <3>1, <3>6
      <4> QED  BY <2>0, <2>m, <4>1, RailFrame DEF Charged
    <3>7. CASE w = "voided"
      <4>1. /\ orders' = [orders EXCEPT ![i][1].status = "voided"]
            /\ call'[c].pc = "diverged" /\ call'[c].intent = i
        BY <3>1, <3>2, <3>7
      <4>2. /\ ledger[i].state = "PENDING" /\ i \notin ReconTodo
            /\ \A d \in Callers : d # c /\ call'[d].pc \in InFlight =>
                 call'[d] = call[d] /\ call[d].intent \in Intents \ {i}
        BY <1>0, <2>0, <3>1 DEF FlightInv, InFlight, Working
      <4>3. \A j \in Intents : j # i => orders'[j] = orders[j]
        BY <1>0, <4>1 DEF TypeOK
      <4>4. NoneStands(orders'[i])
        BY <1>0, <3>1, <3>2, <4>1, VoidLeavesNone
      <4> HIDE DEF i
      <4>5. \A j \in Intents : NoneStands(orders'[j]) \/ Charged(j)'
        BY <3>1, <4>3, <4>4 DEF RailInv, Charged
      <4>6. recon'.pc = "mark" => (recon'.found <=> orders'[recon'.intent] # <<>>)
        BY <2>0, <2>m, <4>2, <4>3 DEF ReconTodo, Typed, ReconWorking
      <4>7. \A d \in Callers : d # c /\ call'[d].pc \in InFlight =>
              orders'[call'[d].intent] = orders[call[d].intent]
        BY <4>2, <4>3
      <4>8. \A d \in Callers :
              call'[d].pc = "refused" => orders'[call'[d].intent] = <<>>
        BY <2>0, <4>1, <4>7 DEF RailInv, InFlight
      <4>9. \A d \in Callers :
              call'[d].pc = "diverged" => NoneStands(orders'[call'[d].intent])
        BY <2>0, <4>1, <4>4, <4>7 DEF RailInv, InFlight
      <4>10. \A d \in Callers : call'[d].pc = "answered" =>
               call'[d].order = 1 /\ OneStands(orders'[call'[d].intent], call'[d].amount)
        BY <2>0, <4>1, <4>7 DEF RailInv, InFlight
      <4> QED  BY <3>1, <4>5, <4>6, <4>8, <4>9, <4>10 DEF RailInv
    <3> QED  BY <3>5, <3>6, <3>7
  <2>7. CASE MarkFailed(c)
    <3>1. /\ call[c].intent \in Intents /\ call[c].pc \in {"diverged", "refused"}
          /\ EntrySet(call[c].intent, "FAILED")
          /\ call'[c].pc = "audit" /\ UNCHANGED <<orders, wire>>
      BY <2>7, MarkFailedEffect
    <3>2. NoneStands(orders[call[c].intent])
      BY <3>1, EmptyNoneStands DEF RailInv
    <3>3. \A j \in Intents : Charged(j) => Charged(j)' \/ NoneStands(orders[j])
      BY <3>1, <3>2 DEF Charged, EntrySet
    <3> QED  BY <2>0, <2>m, <3>1, <3>3, RailFrame
  <2>8. CASE Record(c)
    <3>1. call'[c].pc = "idle" /\ UNCHANGED <<ledger, orders, wire>>
      BY <1>0, <2>8, RecordEffect
    <3> QED  BY <2>0, <2>m, <3>1, RailFrame DEF Charged
  <2> QED  BY <1>1, <2>1, <2>2, <2>3, <2>4, <2>5, <2>6, <2>7, <2>8 DEF Propose
<1>2. CASE ReconMark
  <2>1. /\ recon.pc = "mark" /\ recon.intent \in Intents
        /\ EntrySet(recon.intent, IF recon.found THEN "COMMITTED" ELSE "FAILED")
        /\ recon'.pc \in {"idle", "scan"} /\ UNCHANGED <<call, orders, wire>>
    BY <1>2, ReconMarkEffect
  <2>2. recon.found \/ NoneStands(orders[recon.intent])
    BY <1>0, <2>1, EmptyNoneStands DEF RailInv
  <2>3. \A j \in Intents : Charged(j) => Charged(j)' \/ NoneStands(orders[j])
    BY <2>1, <2>2 DEF Charged, EntrySet
  <2> QED  BY <2>1, <2>3, RailFrame
<1>3. ~ \E r \in wire : Land(r)
  BY DEF RailInv
<1>4. CASE ReconStart
  <2>1. recon'.pc = "scan" /\ UNCHANGED <<call, ledger, orders, wire>>
    BY <1>0, <1>4 DEF ReconStart, TypeOK
  <2> QED  BY <2>1, RailFrame DEF Charged
<1>5. ASSUME NEW i \in Intents, NEW f \in BOOLEAN, ReconAsk(i, f)
      PROVE  RailInv'
  <2>1. /\ recon'.found <=> orders[recon'.intent] # <<>>
        /\ UNCHANGED <<call, ledger, orders, wire>>
    BY <1>5 DEF ReconAsk
  <2> QED  BY <2>1, RailFrame DEF Charged
<1>6. CASE Crash
  <2>1. /\ \A c \in Callers : call'[c].pc = "idle"
        /\ recon'.pc = "idle" /\ UNCHANGED <<ledger, orders, wire>>
    BY <1>6 DEF Crash, Idle, Resting
  <2> QED  BY <2>1, RailFrame DEF Charged
<1>7. CASE (\E i \in Intents : Approve(i) \/ Lapse(i)) \/ UNCHANGED vars
  <2>1. UNCHANGED <<call, recon, ledger, orders, wire>>
    BY <1>7 DEF Approve, Lapse, vars
  <2>2. recon.pc = "mark" => (recon.found <=> orders[recon.intent] # <<>>)
    BY DEF RailInv
  <2> QED  BY <2>1, <2>2, RailFrame DEF Charged
<1> QED  BY <1>1, <1>2, <1>3, <1>4, <1>5, <1>6, <1>7
         DEF Next, Reconcile, Environment

LEMMA RailAlways ==
  ASSUME ~Overlap, RailKeepsWord, VoidsRestore, ScanComplete
  PROVE  Spec => [](Typed /\ OrderInv /\ FlightInv /\ RailInv)
<1>1. Init => RailInv
  BY EmptyNoneStands DEF Init, RailInv, Idle, Resting
<1>2. Typed /\ OrderInv /\ FlightInv /\ RailInv /\ [Next]_vars => RailInv'
  BY RailNext
<1> QED  BY <1>1, <1>2, FlightAlways, PTL DEF Spec

(* Nothing that stands on the rail is forgotten: if the rail keeps its     *)
(* word, a divergent order is voided, and the Reconciler sees every order  *)
(* and runs between calls, then the entry of every standing order counts   *)
(* against the budget, through timeouts, exceptions and crashes.           *)
THEOREM StandingIsCovered ==
  ASSUME ~Overlap, RailKeepsWord, VoidsRestore, ScanComplete
  PROVE  Spec => []StandingCovered
<1>1. RailInv => StandingCovered
  BY RailCovers
<1> QED  BY <1>1, RailAlways, PTL

-----------------------------------------------------------------------------
(* What the caller is told is true.                                        *)

(* Once an entry is settled, neither it nor its order changes.             *)
LEMMA SettledStands ==
  ASSUME Typed, OrderInv, FlightInv, RailInv, [Next]_vars, NEW i \in Intents,
         ledger[i].state \in {"COMMITTED", "FAILED"}
  PROVE  ledger'[i] = ledger[i] /\ orders'[i] = orders[i]
<1>0. ledger \in [Intents -> [state : EntryState, amount : Nat]]
  BY DEF Typed, TypeOK
<1>1. ASSUME NEW c \in Callers, Reserve(c)
      PROVE  ledger'[i] = ledger[i]
  BY <1>1, ReserveEffect
<1>2. ASSUME NEW j \in Intents, NEW s \in {"COMMITTED", "FAILED"}, Settles(j, s)
      PROVE  ledger'[i] = ledger[i]
  BY <1>0, <1>2 DEF Settles, SetEntry
<1>3. ledger'[i] = ledger[i]
  BY <1>1, <1>2, LedgerSteps DEF LedgerStep
<1>4. ASSUME NEW c \in Callers, NEW o \in Outcomes, Send(c, o)
      PROVE  orders'[i] = orders[i]
  <2>1. ledger[call[c].intent].state = "PENDING"
    BY <1>4 DEF Send, FlightInv, InFlight
  <2> QED  BY <1>4, <2>1, SendEffect
<1>5. ASSUME NEW c \in Callers, NEW w \in VoidAnswers, Void(c, w)
      PROVE  orders'[i] = orders[i]
  <2>1. ledger[call[c].intent].state = "PENDING"
    BY <1>5 DEF Void, FlightInv, InFlight
  <2> QED  BY <1>5, <2>1 DEF Void, Typed, TypeOK
<1>6. orders'[i] = orders[i]
  BY <1>4, <1>5
     DEF Next, Propose, Reconcile, Environment, Enter, Evaluate, Reserve, Commit,
         MarkFailed, Record, ReconStart, ReconAsk, ReconMark, Land, Approve,
         Lapse, Crash, vars, RailInv
<1> QED  BY <1>3, <1>6

(* The order of an executed call, as it was authorised, on the rail.       *)
AsAuthorised(me, s) == s = <<[charged |-> me.amount, status |-> "created"]>>

AnswerInv ==
  \A c \in Callers : call[c].executed =>
    /\ call[c].pc = "audit"
    /\ ledger[call[c].intent].state = "COMMITTED"
    /\ AsAuthorised(call[c], orders[call[c].intent])

(* The amount is compared, or there is nothing to compare.                 *)
AmountKnown == ReportsAmount \/ ChargesTrue

LEMMA CommitIsAuthorised ==
  ASSUME AmountKnown, Typed, RailInv, NEW c \in Callers, Commit(c)
  PROVE  AsAuthorised(call[c], orders[call[c].intent])
<1> DEFINE s == orders[call[c].intent]
<1>1. /\ call[c].order = 1 /\ OneStands(s, call[c].amount)
      /\ Matches(call[c]) /\ call[c].amount \in Nat
  BY CommitEffect, CallTyped DEF RailInv, Typed, CallType
<1>2. PICK m \in Multipliers :
        s = <<[charged |-> m * call[c].amount, status |-> "created"]>>
  BY <1>1 DEF OneStands
<1>3. m * call[c].amount = call[c].amount
  <2>1. CASE ReportsAmount
    BY <1>1, <1>2, <2>1 DEF Matches
  <2>2. CASE ChargesTrue
    <3>1. m = 1
      BY <2>2 DEF ChargesTrue
    <3> QED  BY <1>1, <3>1
  <2> QED  BY <2>1, <2>2 DEF AmountKnown
<1> QED  BY <1>2, <1>3 DEF AsAuthorised

LEMMA AnswerNext ==
  ASSUME AmountKnown, Typed, OrderInv, FlightInv, RailInv, AnswerInv, [Next]_vars
  PROVE  AnswerInv'
<1>0. TypeOK /\ Working
  BY DEF Typed
<1>1. ASSUME NEW d \in Callers, call'[d] = call[d], call[d].executed
      PROVE  /\ call'[d].pc = "audit"
             /\ ledger'[call'[d].intent].state = "COMMITTED"
             /\ AsAuthorised(call'[d], orders'[call'[d].intent])
  <2>1. call[d].intent \in Intents
    BY <1>0, <1>1 DEF Working, AnswerInv
  <2> QED  BY <1>1, <2>1, SettledStands DEF AnswerInv
<1>2. ASSUME NEW c \in Callers, Propose(c)
      PROVE  AnswerInv'
  <2>0. \A d \in Callers : d # c => call'[d] = call[d]
    BY <1>0, <1>2, OthersStand
  <2>c. ASSUME ~call'[c].executed
        PROVE  AnswerInv'
    BY <1>1, <2>0, <2>c DEF AnswerInv
  <2>1. ASSUME NEW i \in Intents, NEW a \in Amounts, Enter(c, i, a)
        PROVE  AnswerInv'
    BY <1>0, <2>1, <2>c, EnterEffect
  <2>2. ASSUME NEW s \in Screens, Evaluate(c, s)
        PROVE  AnswerInv'
    BY <1>0, <2>2, <2>c, EvaluateEffect DEF AnswerInv
  <2>3. CASE Reserve(c)
    <3>1. call[c].pc = "reserve" /\ call'[c].executed = call[c].executed
      BY <2>3, ReserveEffect
    <3> QED  BY <2>c, <3>1 DEF AnswerInv
  <2>4. ASSUME NEW o \in Outcomes, Send(c, o)
        PROVE  AnswerInv'
    <3>1. call[c].pc = "send" /\ (call'[c].executed => call[c].executed)
      BY <2>4, SendEffect
    <3> QED  BY <2>c, <3>1 DEF AnswerInv
  <2>5. CASE Commit(c)
    <3>1. /\ call[c].intent \in Intents
          /\ EntrySet(call[c].intent, "COMMITTED")
          /\ call'[c].pc = "audit"
          /\ call'[c].intent = call[c].intent /\ call'[c].amount = call[c].amount
          /\ UNCHANGED orders
      BY <2>5, CommitEffect
    <3>2. AsAuthorised(call'[c], orders'[call'[c].intent])
      BY <2>5, <3>1, CommitIsAuthorised DEF AsAuthorised
    <3>3. ledger'[call'[c].intent].state = "COMMITTED"
      BY <3>1 DEF EntrySet
    <3> QED  BY <1>1, <2>0, <3>1, <3>2, <3>3 DEF AnswerInv
  <2>6. ASSUME NEW w \in VoidAnswers, Void(c, w)
        PROVE  AnswerInv'
    <3>1. call[c].pc = "answered" /\ (call'[c].executed => call[c].executed)
      BY <2>6, VoidEffect
    <3> QED  BY <2>c, <3>1 DEF AnswerInv
  <2>7. CASE MarkFailed(c)
    <3>1. call[c].pc \in {"diverged", "refused"}
          /\ call'[c].executed = call[c].executed
      BY <2>7, MarkFailedEffect
    <3> QED  BY <2>c, <3>1 DEF AnswerInv
  <2>8. CASE Record(c)
    BY <1>0, <2>8, <2>c, RecordEffect
  <2> QED  BY <1>2, <2>1, <2>2, <2>3, <2>4, <2>5, <2>6, <2>7, <2>8 DEF Propose
<1>3. CASE Crash
  <2>1. \A c \in Callers : ~call'[c].executed
    BY <1>3 DEF Crash, Idle
  <2> QED  BY <2>1 DEF AnswerInv
<1>4. CASE UNCHANGED call
  BY <1>1, <1>4 DEF AnswerInv
<1> QED  BY <1>2, <1>3, <1>4
         DEF Next, Reconcile, Environment, ReconStart, ReconAsk, ReconMark, Land,
             Approve, Lapse, vars

(* The Decision a call records is true of the rail, if the rail keeps its  *)
(* word: an executed order is committed and stands at the amount that was  *)
(* authorised, and a denied one does not stand.                            *)
THEOREM AnswersMatch ==
  ASSUME ~Overlap, RailKeepsWord, VoidsRestore, ScanComplete, AmountKnown
  PROVE  Spec => []AnswerMatchesRail
<1>1. Init => AnswerInv
  BY DEF Init, AnswerInv, Idle
<1>2. Typed /\ OrderInv /\ FlightInv /\ RailInv /\ AnswerInv /\ [Next]_vars
        => AnswerInv'
  BY AnswerNext
<1>3. Typed /\ RailInv /\ AnswerInv => AnswerMatchesRail
  <2> SUFFICES ASSUME Typed, RailInv, AnswerInv,
                      NEW c \in Callers, call[c].pc = "audit"
               PROVE  /\ call[c].executed =>
                           /\ ledger[call[c].intent].state = "COMMITTED"
                           /\ \E k \in Standing(call[c].intent) :
                                orders[call[c].intent][k].charged = call[c].amount
                      /\ ledger[call[c].intent].state = "FAILED"
                           => Standing(call[c].intent) = {}
    BY DEF AnswerMatchesRail
  <2>1. call[c].intent \in Intents
    BY DEF Typed, Working
  <2>2. ASSUME call[c].executed
        PROVE  \E k \in Standing(call[c].intent) :
                 orders[call[c].intent][k].charged = call[c].amount
    <3>1. orders[call[c].intent]
            = <<[charged |-> call[c].amount, status |-> "created"]>>
      BY <2>2 DEF AnswerInv, AsAuthorised
    <3>2. 1 \in Standing(call[c].intent)
          /\ orders[call[c].intent][1].charged = call[c].amount
      BY <3>1 DEF Standing
    <3> QED  BY <3>2
  <2>3. ledger[call[c].intent].state = "FAILED" => Standing(call[c].intent) = {}
    BY <2>1 DEF RailInv, NoneStands, Charged, Standing
  <2> QED  BY <2>2, <2>3 DEF AnswerInv
<1> QED  BY <1>1, <1>2, <1>3, RailAlways, PTL DEF Spec

-----------------------------------------------------------------------------
(* The money on the rail.                                                  *)

(* The principal's side of the budget: if the rail keeps its word and      *)
(* charges what it is asked to, an enforcing gateway's orders standing on  *)
(* the rail never add up to more than the budget, whatever times out,      *)
(* raises or crashes.                                                      *)
THEOREM RailIsWithinBudget ==
  ASSUME ~Overlap, Enforcing, RailKeepsWord, ScanComplete, ChargesTrue
  PROVE  Spec => []RailWithinBudget
<1>1. ASSUME TypeOK, PriceInv, RailInv, BudgetHeld
      PROVE  RailWithinBudget
  <2> DEFINE charged == [p \in StandingOrders |-> orders[p[1]][p[2]].charged]
             h == [p \in StandingOrders |-> p[1]]
  <2>1. ASSUME NEW p \in StandingOrders
        PROVE  /\ p = <<p[1], 1>> /\ p[1] \in Live
               /\ charged[p] = Held[p[1]]
    <3>1. PICK i \in Intents : p \in {i} \X Standing(i)
      BY DEF StandingOrders
    <3>2. p = <<i, p[2]>> /\ p[1] = i /\ p[2] \in Standing(i)
      BY <3>1
    <3>3. orders[i] = <<[charged |-> ledger[i].amount, status |-> "created"]>>
      BY <1>1, <3>2 DEF Standing, PriceInv, Faithful
    <3>4. p[2] = 1
      BY <3>2, <3>3 DEF Standing
    <3>5. i \in Live
      BY <1>1, <3>2, RailCovers DEF StandingCovered
    <3>6. orders[p[1]][p[2]].charged = ledger[i].amount
      BY <3>2, <3>3, <3>4
    <3> QED  BY <3>2, <3>4, <3>5, <3>6 DEF Held
  <2>2. /\ IsFiniteSet(Live) /\ \A i \in Live : Held[i] \in Nat
    BY <1>1, LiveFinite DEF Live
  <2>3. h \in Injection(StandingOrders, Live)
    BY <2>1 DEF Injection, IsInjective
  <2>4. \A p \in StandingOrders :
          charged[p] \in Nat /\ charged[p] <= Held[h[p]]
    BY <2>1, <2>2
  <2> HIDE DEF charged, h
  <2>5. Total(StandingOrders, charged) <= Total(Live, Held)
    BY <2>2, <2>3, <2>4, TotalCovered
  <2>6. /\ Total(Live, Held) <= BudgetMax
        /\ Total(Live, Held) \in Nat
    BY <1>1, <2>2, UnitsFinite DEF BudgetHeld, Spent
  <2>7. IsFiniteSet(StandingOrders)
    BY <2>2, <2>3, FS_Injection
  <2>8. Total(StandingOrders, charged) \in Nat
    BY <2>4, <2>7, UnitsFinite
  <2>9. Total(StandingOrders, charged) <= BudgetMax
    BY <2>5, <2>6, <2>8, GatewayAssumption
  <2> QED  BY <2>9 DEF RailWithinBudget, charged
<1>2. VoidsRestore
  BY DEF VoidsRestore
<1>3. Spec => [](Typed /\ RailInv)
  BY <1>2, RailAlways, PTL
<1>4. Spec => []PriceInv
  BY PriceAlways, PTL
<1>5. Spec => []BudgetHeld
  BY BudgetLimit, PTL
<1>6. Typed => TypeOK
  BY DEF Typed
<1> QED  BY <1>1, <1>3, <1>4, <1>5, <1>6, PTL
=============================================================================
