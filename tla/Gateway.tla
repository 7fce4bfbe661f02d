------------------------------ MODULE Gateway ------------------------------
(***************************************************************************)
(* The path of one order through Mandate: Gateway.propose                  *)
(* (gateway/core.py), the idempotency ledger (gateway/idem.py), the payment *)
(* rail behind a downstream adapter, and the Reconciler                    *)
(* (gateway/reconcile.py) that settles what the rail left unanswered.      *)
(*                                                                         *)
(* Several callers run propose at once on one Gateway.  propose evaluates  *)
(* and reserves under _eval_lock and talks to the rail outside it, so the  *)
(* steps below interleave everywhere except between Enter and Reserve.     *)
(*                                                                         *)
(* Data is abstracted to what the properties tell apart.  An intent is a   *)
(* value of canonical_intent: one basket from one merchant, whatever its   *)
(* price.  A proposal is an intent with the amount the price book or a     *)
(* verified quote gives it.  Calls that return before the ledger is read   *)
(* for a new intent (rejected token, unknown SKU, a cached or an           *)
(* unresolved intent) change no state and are stuttering steps.            *)
(***************************************************************************)
EXTENDS Integers, Sequences, FiniteSets, Money, Lattice

CONSTANTS
  Callers,        \* threads that call propose
  NoCaller,       \* nobody holds _eval_lock
  Intents,        \* canonical intents
  NoIntent,       \* what an idle caller is proposing
  Basket,         \* Basket[i]: the SKUs of intent i
  Amounts,        \* the totals a basket may resolve to, in paise
  BudgetMax,      \* budget.total
  TxMax,          \* budget.per_transaction
  VelocityMax,    \* velocity.max_actions
  AfaThreshold,   \* afa.required threshold
  Askable,        \* bound: intents the principal may be asked to approve
  DenyRecent,     \* item.deny_recent is in the policy
  Screens,        \* what the clauses that read no shared state may combine to
  Enforcing,      \* Mode.ENFORCE (otherwise Mode.OBSERVE)
  Outcomes,       \* what the rail may do with a request (a subset of Outcome)
  Multipliers,    \* factors by which the rail may overcharge
  ReportsAmount,  \* the rail's answer carries the amount it charged
  VoidAnswers,    \* what void_order may do (a subset of VoidAnswer)
  ScanComplete,   \* find_orders_by_receipt sees every order of a receipt
  Overlap,        \* the Reconciler may start while a call is in flight
  MaxCrashes      \* bound on the number of crashes

(* What the rail does with a create_order request: whether the order comes *)
(* to exist (now, later, never) and what the adapter tells the caller: the *)
(* order, DownstreamTimeout, DownstreamError, or any other exception.  A   *)
(* success without an order is left out by GatewayAssumption: the MCP      *)
(* client does not look at isError (razorpay_mcp.py:60-69), so an upstream *)
(* that answers with one would be taken for an order.                      *)
Outcome == [lands : {"now", "later", "never"},
            answer : {"ok", "timeout", "refused", "exception"}]

(* What comes of void_order: the order is voided, it stands (no void_order, *)
(* no order id, DownstreamError or DownstreamTimeout), or another exception *)
(* is raised with the order standing.                                       *)
VoidAnswer == {"voided", "stands", "exception"}

ASSUME GatewayAssumption ==
  /\ IsFiniteSet(Intents) /\ NoIntent \notin Intents
  /\ NoCaller \notin Callers
  /\ DOMAIN Basket = Intents
  /\ Amounts \subseteq Nat /\ Askable \subseteq Intents
  /\ BudgetMax \in Nat /\ TxMax \in Nat /\ VelocityMax \in Nat
  /\ AfaThreshold \in Nat /\ MaxCrashes \in Nat
  /\ DenyRecent \in BOOLEAN /\ Enforcing \in BOOLEAN /\ Overlap \in BOOLEAN
  /\ ReportsAmount \in BOOLEAN /\ ScanComplete \in BOOLEAN
  /\ Screens \subseteq Verdict
  /\ Multipliers \subseteq Nat
  /\ VoidAnswers \subseteq VoidAnswer
  /\ Outcomes \subseteq Outcome
  /\ \A o \in Outcomes : o.answer = "ok" => o.lands = "now"

VARIABLES
  lock,      \* who holds Gateway._eval_lock
  call,      \* call[c]: the local variables of the propose c is executing
  ledger,    \* ledger[i]: the last entry written for intent i
  approved,  \* intents with a live approval in the ApprovalStore
  audit,     \* intents whose order attempt has its audit record
  orders,    \* orders[i]: the orders on the rail whose receipt is i
  wire,      \* requests that timed out and may still reach the rail
  recon,     \* the local variables of Reconciler.run
  crashes    \* crashes so far

vars == <<lock, call, ledger, approved, audit, orders, wire, recon, crashes>>

-----------------------------------------------------------------------------
EntryState == {"none", "PENDING", "COMMITTED", "FAILED"}

Idle == [pc |-> "idle", intent |-> NoIntent, amount |-> 0, order |-> 0,
         approved |-> FALSE, sent |-> FALSE, executed |-> FALSE,
         verdict |-> "ALLOW"]

Resting == [pc |-> "idle", todo |-> {}, intent |-> NoIntent, found |-> FALSE]

Init ==
  /\ lock = NoCaller
  /\ call = [c \in Callers |-> Idle]
  /\ ledger = [i \in Intents |-> [state |-> "none", amount |-> 0]]
  /\ approved = {}
  /\ audit = {}
  /\ orders = [i \in Intents |-> <<>>]
  /\ wire = {}
  /\ recon = Resting
  /\ crashes = 0

(* Ledger.state(): the entries that count against the mandate, and the     *)
(* money they hold, committed plus pending.                                *)
Live == {i \in Intents : ledger[i].state \in {"PENDING", "COMMITTED"}}

Held == [i \in Intents |-> ledger[i].amount]

Spent == Total(Live, Held)

SetEntry(i, s) == ledger' = [ledger EXCEPT ![i].state = s]

-----------------------------------------------------------------------------
(* The clauses that read the ledger or the approvals.  The others depend   *)
(* on the action, the policy and the clock alone; their combined verdict   *)
(* is the input `screen` of Evaluate.                                      *)
DenyIf(cond) == IF cond THEN "DENY" ELSE "ALLOW"

BudgetPerTransaction(a) == DenyIf(a > TxMax)

(* Mutant: only settled money counts, reservations do not.                 *)
BudgetTotal_CommittedOnly(a) ==
  DenyIf(Total({i \in Intents : ledger[i].state = "COMMITTED"}, Held) + a
           > BudgetMax)

BudgetTotal(a) == DenyIf(Spent + a > BudgetMax)

(* Mutant: off by one at the cap.                                          *)
Velocity_OffByOne == DenyIf(Cardinality(Live) > VelocityMax)

Velocity == DenyIf(Cardinality(Live) >= VelocityMax)

ItemDenyRecent(i) ==
  DenyIf(DenyRecent /\ \E j \in Live : Basket[i] \cap Basket[j] # {})

AfaRequired(a, ok) == IF a <= AfaThreshold \/ ok THEN "ALLOW" ELSE "UNKNOWN"

EvaluateAll(i, a, ok, screen) ==
  Combine({screen, BudgetPerTransaction(a), BudgetTotal(a), Velocity,
           ItemDenyRecent(i), AfaRequired(a, ok)})

-----------------------------------------------------------------------------
(* propose, under _eval_lock.                                              *)

(* Mutant: the lock is not waited for.                                     *)
Enter_Unlocked(c, i, a) ==
  /\ call[c].pc = "idle"
  /\ ledger[i].state = "none"
  /\ lock' = c
  /\ call' = [call EXCEPT ![c] = [Idle EXCEPT !.pc = "evaluate",
                                              !.intent = i, !.amount = a]]
  /\ UNCHANGED <<ledger, approved, audit, orders, wire, recon, crashes>>

(* Mutant: a failed intent may be tried again.                             *)
Enter_RetryFailed(c, i, a) ==
  /\ call[c].pc = "idle"
  /\ lock = NoCaller
  /\ ledger[i].state \in {"none", "FAILED"}
  /\ lock' = c
  /\ call' = [call EXCEPT ![c] = [Idle EXCEPT !.pc = "evaluate",
                                              !.intent = i, !.amount = a]]
  /\ UNCHANGED <<ledger, approved, audit, orders, wire, recon, crashes>>

(* A call takes the lock, its token and its references check out, and the  *)
(* ledger has no entry for its intent.  A COMMITTED, FAILED or PENDING     *)
(* entry ends the call here with the cached, the failed or the in-flight   *)
(* answer and no change of state.                                          *)
Enter(c, i, a) ==
  /\ call[c].pc = "idle"
  /\ lock = NoCaller
  /\ ledger[i].state = "none"
  /\ lock' = c
  /\ call' = [call EXCEPT ![c] = [Idle EXCEPT !.pc = "evaluate",
                                              !.intent = i, !.amount = a]]
  /\ UNCHANGED <<ledger, approved, audit, orders, wire, recon, crashes>>

(* Mutant: the lock is released between the check and the reservation.     *)
Evaluate_EarlyUnlock(c, screen) ==
  LET me == call[c]
      ok == me.intent \in approved
      v  == EvaluateAll(me.intent, me.amount, ok, screen)
      mayExecute == v = "ALLOW" \/ ~Enforcing
  IN  /\ me.pc = "evaluate"
      /\ call' = [call EXCEPT
            ![c] = [me EXCEPT !.pc = IF mayExecute THEN "reserve" ELSE "audit",
                              !.approved = ok, !.verdict = v]]
      /\ lock' = NoCaller
      /\ UNCHANGED <<ledger, approved, audit, orders, wire, recon, crashes>>

(* The approval is looked up, the ledger summed, every clause evaluated.   *)
(* A call that may not execute leaves the lock and goes to the audit log.  *)
Evaluate(c, screen) ==
  LET me == call[c]
      ok == me.intent \in approved
      v  == EvaluateAll(me.intent, me.amount, ok, screen)
      mayExecute == v = "ALLOW" \/ ~Enforcing
  IN  /\ me.pc = "evaluate"
      /\ call' = [call EXCEPT
            ![c] = [me EXCEPT !.pc = IF mayExecute THEN "reserve" ELSE "audit",
                              !.approved = ok, !.verdict = v]]
      /\ lock' = IF mayExecute THEN lock ELSE NoCaller
      /\ UNCHANGED <<ledger, approved, audit, orders, wire, recon, crashes>>

(* Ledger.open_pending, then the lock is released.                         *)
Reserve(c) ==
  /\ call[c].pc = "reserve"
  /\ ledger' = [ledger EXCEPT
       ![call[c].intent] = [state |-> "PENDING", amount |-> call[c].amount]]
  /\ call' = [call EXCEPT ![c].pc = "send", ![c].sent = TRUE]
  /\ lock' = NoCaller
  /\ UNCHANGED <<approved, audit, orders, wire, recon, crashes>>

-----------------------------------------------------------------------------
(* propose, outside the lock: the rail, the settlement, the audit record.  *)

Place(i, a) ==
  \E m \in Multipliers :
    orders' = [orders EXCEPT
                 ![i] = Append(@, [charged |-> m * a, status |-> "created"])]

(* Mutant: a timeout is treated like a refusal and rolled back.            *)
AfterRail_RollBack(me, o) ==
  CASE o.answer = "ok"        -> [me EXCEPT !.pc = "answered",
                                            !.order = Len(orders[me.intent]) + 1]
    [] o.answer = "refused"   -> [me EXCEPT !.pc = "refused"]
    [] o.answer = "timeout"   -> [me EXCEPT !.pc = "refused"]
    [] o.answer = "exception" -> Idle

(* Mutant: a refused request is sent again until it is accepted.           *)
AfterRail_RetryForever(me, o) ==
  CASE o.answer = "ok"        -> [me EXCEPT !.pc = "answered",
                                            !.order = Len(orders[me.intent]) + 1]
    [] o.answer = "refused"   -> me
    [] o.answer = "timeout"   -> [me EXCEPT !.pc = "audit", !.verdict = "UNKNOWN"]
    [] o.answer = "exception" -> Idle

(* What the answer to create_order does to the call.  A timeout writes     *)
(* nothing: the entry stays PENDING and the verdict is UNKNOWN.  Any       *)
(* exception but DownstreamTimeout and DownstreamError leaves propose at   *)
(* once, before the audit record.                                          *)
AfterRail(me, o) ==
  CASE o.answer = "ok"        -> [me EXCEPT !.pc = "answered",
                                            !.order = Len(orders[me.intent]) + 1]
    [] o.answer = "refused"   -> [me EXCEPT !.pc = "refused"]
    [] o.answer = "timeout"   -> [me EXCEPT !.pc = "audit", !.verdict = "UNKNOWN"]
    [] o.answer = "exception" -> Idle

(* downstream.create_order(action.amount, receipt=idem).                   *)
Send(c, o) ==
  LET me == call[c]
  IN  /\ me.pc = "send"
      /\ \/ o.lands = "now"   /\ Place(me.intent, me.amount) /\ UNCHANGED wire
         \/ o.lands = "never" /\ UNCHANGED <<orders, wire>>
         \/ /\ o.lands = "later"
            /\ wire' = wire \cup {[intent |-> me.intent, amount |-> me.amount]}
            /\ UNCHANGED orders
      /\ call' = [call EXCEPT ![c] = AfterRail(me, o)]
      /\ UNCHANGED <<lock, ledger, approved, audit, recon, crashes>>

(* Mutant: the amount the rail answers is not compared.                    *)
Matches_Never(me) == TRUE

(* The amount check on the rail's answer.  An answer without an amount is  *)
(* taken as it is.                                                         *)
Matches(me) ==
  ~ReportsAmount \/ orders[me.intent][me.order].charged = me.amount

(* mark_committed and the consumption of the approval the call evaluated   *)
(* with.                                                                   *)
Commit(c) ==
  LET me == call[c]
  IN  /\ me.pc = "answered" /\ Matches(me)
      /\ SetEntry(me.intent, "COMMITTED")
      /\ approved' = IF me.approved THEN approved \ {me.intent} ELSE approved
      /\ call' = [call EXCEPT ![c] = [me EXCEPT !.pc = "audit", !.executed = TRUE]]
      /\ UNCHANGED <<lock, audit, orders, wire, recon, crashes>>

(* _void_order, when the amounts differ.                                   *)
Void(c, w) ==
  LET me == call[c]
  IN  /\ me.pc = "answered" /\ ~Matches(me)
      /\ orders' = IF w = "voided"
                   THEN [orders EXCEPT ![me.intent][me.order].status = "voided"]
                   ELSE orders
      /\ call' = [call EXCEPT
            ![c] = IF w = "exception" THEN Idle
                   ELSE [me EXCEPT !.pc = "diverged", !.verdict = "UNKNOWN"]]
      /\ UNCHANGED <<lock, ledger, approved, audit, wire, recon, crashes>>

(* mark_failed, after a divergence whether or not the void worked, and     *)
(* after a DownstreamError.                                                *)
MarkFailed(c) ==
  LET me == call[c]
  IN  /\ me.pc \in {"diverged", "refused"}
      /\ SetEntry(me.intent, "FAILED")
      /\ call' = [call EXCEPT
            ![c] = [me EXCEPT !.pc = "audit",
                              !.verdict = IF me.pc = "refused" THEN "DENY" ELSE @]]
      /\ UNCHANGED <<lock, approved, audit, orders, wire, recon, crashes>>

(* Mutant: only executed calls leave an audit record.                      *)
Record_ExecutedOnly(c) ==
  LET me == call[c]
  IN  /\ me.pc = "audit"
      /\ audit' = IF me.executed THEN audit \cup {me.intent} ELSE audit
      /\ call' = [call EXCEPT ![c] = Idle]
      /\ UNCHANGED <<lock, ledger, approved, orders, wire, recon, crashes>>

(* audit.append, then propose returns its Decision.  The records of calls  *)
(* that reserved nothing are left to module AuditChain.                    *)
Record(c) ==
  LET me == call[c]
  IN  /\ me.pc = "audit"
      /\ audit' = IF me.sent THEN audit \cup {me.intent} ELSE audit
      /\ call' = [call EXCEPT ![c] = Idle]
      /\ UNCHANGED <<lock, ledger, approved, orders, wire, recon, crashes>>

-----------------------------------------------------------------------------
(* Reconciler.run.                                                         *)

(* The list of pending entries is taken once, at the start.                *)
ReconStart ==
  LET pending == {i \in Intents : ledger[i].state = "PENDING"}
  IN  /\ recon.pc = "idle"
      /\ Overlap \/ \A c \in Callers : call[c].pc = "idle"
      /\ pending # {}
      /\ recon' = [recon EXCEPT !.pc = "scan", !.todo = pending]
      /\ UNCHANGED <<lock, call, ledger, approved, audit, orders, wire, crashes>>

(* find_orders_by_receipt for the next entry.  A voided order is found     *)
(* like any other.                                                         *)
ReconAsk(i, found) ==
  /\ recon.pc = "scan" /\ i \in recon.todo
  /\ found => orders[i] # <<>>
  /\ ScanComplete => (found <=> orders[i] # <<>>)
  /\ recon' = [pc |-> "mark", todo |-> recon.todo \ {i},
               intent |-> i, found |-> found]
  /\ UNCHANGED <<lock, call, ledger, approved, audit, orders, wire, crashes>>

(* Mutant: the state has the name the architecture document gives it.      *)
ReconMark_RolledBack ==
  /\ recon.pc = "mark"
  /\ SetEntry(recon.intent, IF recon.found THEN "COMMITTED" ELSE "ROLLED_BACK")
  /\ recon' = IF recon.todo = {} THEN Resting
              ELSE [Resting EXCEPT !.pc = "scan", !.todo = recon.todo]
  /\ UNCHANGED <<lock, call, approved, audit, orders, wire, crashes>>

(* Mutant: every entry the rail was asked about is given back.             *)
ReconMark_AlwaysFailed ==
  /\ recon.pc = "mark"
  /\ SetEntry(recon.intent, "FAILED")
  /\ recon' = IF recon.todo = {} THEN Resting
              ELSE [Resting EXCEPT !.pc = "scan", !.todo = recon.todo]
  /\ UNCHANGED <<lock, call, approved, audit, orders, wire, crashes>>

(* Mutant: every entry the rail was asked about is taken as paid.          *)
ReconMark_AlwaysCommitted ==
  /\ recon.pc = "mark"
  /\ SetEntry(recon.intent, "COMMITTED")
  /\ recon' = IF recon.todo = {} THEN Resting
              ELSE [Resting EXCEPT !.pc = "scan", !.todo = recon.todo]
  /\ UNCHANGED <<lock, call, approved, audit, orders, wire, crashes>>

(* Mutant: an entry the rail does not know is left as it is.               *)
ReconMark_SkipsAbsent ==
  /\ recon.pc = "mark"
  /\ IF recon.found THEN SetEntry(recon.intent, "COMMITTED") ELSE UNCHANGED ledger
  /\ recon' = IF recon.todo = {} THEN Resting
              ELSE [Resting EXCEPT !.pc = "scan", !.todo = recon.todo]
  /\ UNCHANGED <<lock, call, approved, audit, orders, wire, crashes>>

(* mark_committed with the order found, whatever its amount, or            *)
(* mark_failed.                                                            *)
ReconMark ==
  /\ recon.pc = "mark"
  /\ SetEntry(recon.intent, IF recon.found THEN "COMMITTED" ELSE "FAILED")
  /\ recon' = IF recon.todo = {} THEN Resting
              ELSE [Resting EXCEPT !.pc = "scan", !.todo = recon.todo]
  /\ UNCHANGED <<lock, call, approved, audit, orders, wire, crashes>>

-----------------------------------------------------------------------------
(* The environment: the rail, the principal, the process.                  *)

(* A request that timed out reaches the rail after all, or is lost.        *)
Land(r) ==
  /\ r \in wire
  /\ wire' = wire \ {r}
  /\ Place(r.intent, r.amount) \/ UNCHANGED orders
  /\ UNCHANGED <<lock, call, ledger, approved, audit, recon, crashes>>

(* The principal approves an intent; an approval expires.                  *)
Approve(i) ==
  /\ i \in Askable \ approved
  /\ approved' = approved \cup {i}
  /\ UNCHANGED <<lock, call, ledger, audit, orders, wire, recon, crashes>>

Lapse(i) ==
  /\ i \in approved
  /\ approved' = approved \ {i}
  /\ UNCHANGED <<lock, call, ledger, audit, orders, wire, recon, crashes>>

(* The process dies and a new Gateway is built on the same ledger file.    *)
(* Locals and locks are gone; the files and the rail stay.                 *)
Crash ==
  /\ crashes < MaxCrashes
  /\ crashes' = crashes + 1
  /\ lock' = NoCaller
  /\ call' = [c \in Callers |-> Idle]
  /\ recon' = Resting
  /\ UNCHANGED <<ledger, approved, audit, orders, wire>>

-----------------------------------------------------------------------------
Propose(c) ==
  \/ \E i \in Intents, a \in Amounts : Enter(c, i, a)
  \/ \E s \in Screens : Evaluate(c, s)
  \/ Reserve(c)
  \/ \E o \in Outcomes : Send(c, o)
  \/ Commit(c)
  \/ \E w \in VoidAnswers : Void(c, w)
  \/ MarkFailed(c)
  \/ Record(c)

Reconcile ==
  \/ ReconStart
  \/ \E i \in Intents, f \in BOOLEAN : ReconAsk(i, f)
  \/ ReconMark

Environment ==
  \/ \E r \in wire : Land(r)
  \/ \E i \in Intents : Approve(i) \/ Lapse(i)
  \/ Crash

Next == (\E c \in Callers : Propose(c)) \/ Reconcile \/ Environment

Spec == Init /\ [][Next]_vars
-----------------------------------------------------------------------------
(* Liveness is stated under the fairness the scheduling gives: a call that *)
(* holds the lock or is past it runs on, because the interpreter schedules *)
(* every runnable thread and an exchange with the rail ends.  The fake     *)
(* rail answers at once and the MCP client gives up after a timeout; the   *)
(* REST client is built without one, so for it the end of the exchange is  *)
(* an assumption about the network.  Nothing obliges an agent to call, a   *)
(* request to land, an approval to be given.  Nor does anything in src/    *)
(* start the Reconciler while the service runs; once started, it runs on.  *)
Proceed(c) ==
  \/ \E s \in Screens : Evaluate(c, s)
  \/ Reserve(c)
  \/ \E o \in Outcomes : Send(c, o)
  \/ Commit(c)
  \/ \E w \in VoidAnswers : Void(c, w)
  \/ MarkFailed(c)
  \/ Record(c)

ReconProceed == (\E i \in Intents, f \in BOOLEAN : ReconAsk(i, f)) \/ ReconMark

FairSpec ==
  /\ Spec
  /\ \A c \in Callers : WF_vars(Proceed(c))
  /\ WF_vars(ReconProceed)

-----------------------------------------------------------------------------
TypeOK ==
  /\ lock \in Callers \cup {NoCaller}
  /\ call \in [Callers ->
       [pc : {"idle", "evaluate", "reserve", "send", "answered", "diverged",
              "refused", "audit"},
        intent : Intents \cup {NoIntent}, amount : Nat, order : Nat,
        approved : BOOLEAN, sent : BOOLEAN, executed : BOOLEAN,
        verdict : Verdict]]
  /\ ledger \in [Intents -> [state : EntryState, amount : Nat]]
  /\ approved \subseteq Intents
  /\ audit \subseteq Intents
  /\ orders \in [Intents -> Seq([charged : Nat, status : {"created", "voided"}])]
  /\ wire \subseteq [intent : Intents, amount : Nat]
  /\ recon \in [pc : {"idle", "scan", "mark"}, todo : SUBSET Intents,
                intent : Intents \cup {NoIntent}, found : BOOLEAN]
  /\ crashes \in 0 .. MaxCrashes

(* budget.total: committed plus pending money never exceeds the mandate's  *)
(* budget, however many calls evaluate and reserve at once (race.budget),  *)
(* whatever the rail answers, and across crashes and reconciliations.      *)
BudgetHeld == Spent <= BudgetMax

(* velocity: no more orders are live than the mandate allows (race.velocity). *)
VelocityHeld == Cardinality(Live) <= VelocityMax

(* item.deny_recent: two live orders never share a SKU, also when they     *)
(* were proposed at the same moment.                                       *)
NoRepeatPurchase ==
  DenyRecent => \A i, j \in Live : i # j => Basket[i] \cap Basket[j] = {}

(* The rail never gets two orders for one intent, whatever is retried,     *)
(* crashes, times out, lands late or is reconciled (replay.intent).        *)
OneOrderPerIntent == \A i \in Intents : Len(orders[i]) <= 1

(* open_pending reaches the ledger before the request leaves: an order on  *)
(* the rail always has a ledger entry, also after a crash.                 *)
ReservedBeforeSent ==
  \A i \in Intents : orders[i] # <<>> => ledger[i].state # "none"

Standing(i) == {k \in DOMAIN orders[i] : orders[i][k].status = "created"}

(* An order that stands on the rail is charged against the budget: its     *)
(* entry is PENDING or COMMITTED, never rolled back.                       *)
StandingCovered == \A i \in Intents : Standing(i) # {} => i \in Live

StandingOrders == UNION {{i} \X Standing(i) : i \in Intents}

(* The money of the orders standing on the rail is within the budget.      *)
RailWithinBudget ==
  Total(StandingOrders, [p \in StandingOrders |-> orders[p[1]][p[2]].charged])
     <= BudgetMax

(* COMMITTED and FAILED are final: an entry once settled, by the call or   *)
(* by the Reconciler, is never settled the other way.                      *)
SettledIsFinal ==
  [][\A i \in Intents :
       ledger[i].state \in {"COMMITTED", "FAILED"} => ledger'[i] = ledger[i]]_vars

(* The Decision a call is about to record is true of the rail: executed    *)
(* means one order stands at the authorised amount and is committed; DENY  *)
(* by an enforcing gateway means no order of the intent stands.            *)
AnswerMatchesRail ==
  \A c \in Callers :
    LET me == call[c] IN
    me.pc = "audit" =>
      /\ me.executed =>
           /\ ledger[me.intent].state = "COMMITTED"
           /\ \E k \in Standing(me.intent) :
                orders[me.intent][k].charged = me.amount
      /\ (me.verdict = "DENY" /\ Enforcing /\ ledger[me.intent].state = "FAILED")
           => Standing(me.intent) = {}

(* A committed entry holds the amount the rail charged for its order.      *)
CommittedAsAuthorised ==
  \A i \in Intents :
    ledger[i].state = "COMMITTED" =>
      \E k \in Standing(i) : orders[i][k].charged = ledger[i].amount

(* Spending leaves a trace: a committed entry has an audit record, or the  *)
(* call that will write it is still running.                               *)
SpendIsAudited ==
  \A i \in Intents :
    ledger[i].state = "COMMITTED" =>
      \/ i \in audit
      \/ \E c \in Callers : call[c].pc = "audit" /\ call[c].intent = i

Guard == INSTANCE SpendGuard WITH money <- ledger

(* The gateway implements the abstract spending guard: projected to the    *)
(* ledger, every step of the callers, the rail, the Reconciler and the     *)
(* crashes holds, spends or releases one intent's money, or does nothing.  *)
ImplementsGuard == Guard!Spec

(* A call past the lock's acquisition always returns.                      *)
CallsReturn == \A c \in Callers : call[c].pc # "idle" ~> call[c].pc = "idle"

(* What a timeout, an exception or a crash left PENDING is settled, if     *)
(* somebody starts the Reconciler whenever entries keep pending.  A pass   *)
(* takes the list of pending entries once, callers go on adding to them,   *)
(* and a crash can end it.                                                 *)
PendingSettles ==
  WF_vars(ReconStart) =>
    \A i \in Intents : ledger[i].state = "PENDING" ~> ledger[i].state # "PENDING"

(* idem.py: "PENDING is held and reconciled".  Without a Reconciler that   *)
(* somebody starts it is only held.                                        *)
PendingReconciled ==
  \A i \in Intents : ledger[i].state = "PENDING" ~> ledger[i].state # "PENDING"
=============================================================================
