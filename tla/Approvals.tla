----------------------------- MODULE Approvals -----------------------------
(***************************************************************************)
(* The human approval of orders above the AFA threshold: the pending queue *)
(* (service/pending.py), POST /v1/approve (service/server.py), the         *)
(* approval store (gateway/approval.py) and the two lines of propose that  *)
(* look an approval up and consume it.                                     *)
(*                                                                         *)
(* One queue and one store serve every session of the service, and both    *)
(* are keyed on the canonical intent.  Sandbox sessions share one mandate  *)
(* id, so the same basket is the same intent in all of them; their ledgers *)
(* and the locks of their gateways are their own.  The handlers run on the *)
(* event loop, one at a time, and time passes between any two of their     *)
(* steps; agent runs propose from threads, and wait at the rail with no    *)
(* lock held.  Every intent here is above the threshold and passes the     *)
(* other clauses.                                                          *)
(***************************************************************************)
EXTENDS Integers, Sequences, FiniteSets

CONSTANTS
  Sessions,    \* jtis, each with its principal and its ledger
  Intents,     \* canonical intents
  MaxItems     \* bound on the number of pending items opened

ASSUME ApprovalsAssumption == MaxItems \in Nat

VARIABLES
  items,     \* items[k]: the pending item with the k-th reference
  byIntent,  \* _by_intent: the last reference opened for an intent, 0 if none
  approval,  \* ApprovalStore: approval[i] is "none", "live", "consumed", "lapsed"
  grants,    \* grants[n]: the item whose submission made the n-th approval
  granted,   \* granted[i]: the number of the last approval of intent i
  call,      \* call[s][i]: the approved call of session s for intent i, which
             \* its ledger lets happen once: the approval it found, whether
             \* its order is on the rail, and whether the approval was spent
  submit     \* the submission the event loop is executing

approvalVars == <<items, byIntent, approval, grants, granted, call, submit>>

NoCall == [pc |-> "none", grant |-> 0, placed |-> FALSE, late |-> FALSE]

NoSubmit == [ref |-> 0, decision |-> "none"]

ApprovalInit ==
  /\ items = <<>>
  /\ byIntent = [i \in Intents |-> 0]
  /\ approval = [i \in Intents |-> "none"]
  /\ grants = <<>>
  /\ granted = [i \in Intents |-> 0]
  /\ call = [s \in Sessions |-> [i \in Intents |-> NoCall]]
  /\ submit = NoSubmit

LoopFree == submit = NoSubmit

-----------------------------------------------------------------------------
(* propose, and the queue.                                                 *)

Actionable(k) == items[k].status = "pending" /\ ~items[k].overdue

(* open returns the reference the intent has while its item is pending and *)
(* not overdue, whichever session opened it.                               *)
OpenItem(s, i) ==
  IF byIntent[i] # 0 /\ Actionable(byIntent[i])
  THEN UNCHANGED <<items, byIntent>>
  ELSE /\ Len(items) < MaxItems
       /\ items' = Append(items, [session |-> s, intent |-> i, status |-> "pending",
                                  overdue |-> FALSE])
       /\ byIntent' = [byIntent EXCEPT ![i] = Len(items) + 1]

(* An unapproved order is held at UNKNOWN and queued for the principal.    *)
Hold(s, i) ==
  /\ LoopFree /\ call[s][i].pc = "none" /\ approval[i] # "live"
  /\ OpenItem(s, i)
  /\ UNCHANGED <<approval, grants, granted, call, submit>>

(* An order under the approval is committed and the approval was consumed. *)
Spent(n) == \E s \in Sessions, i \in Intents :
              call[s][i].pc = "done" /\ call[s][i].grant = n

(* An approved order is reserved in the session's ledger, under the lock   *)
(* of its gateway.                                                         *)
LookUp(s, i) ==
  /\ call[s][i].pc = "none" /\ approval[i] = "live"
  /\ call' = [call EXCEPT ![s][i] = [pc |-> "rail", grant |-> granted[i],
                                     placed |-> FALSE, late |-> Spent(granted[i])]]
  /\ UNCHANGED <<items, byIntent, approval, grants, granted, submit>>

(* The rail answers, or not.  An order it reports as failed may stand: the *)
(* answer that was lost, the order of another amount that was not voided.  *)
RailAnswers(s, i, placed, answer) ==
  /\ call[s][i].pc = "rail"
  /\ answer = "committed" => placed
  /\ call' = [call EXCEPT ![s][i] = [pc |-> answer, grant |-> @.grant,
                                     placed |-> placed, late |-> @.late]]
  /\ UNCHANGED <<items, byIntent, approval, grants, granted, submit>>

(* Mutant: the approval is left in the store.                              *)
Consume_Never(i) == UNCHANGED approval

(* consume takes off whatever approval the intent has by now.              *)
Consume(i) ==
  approval' = [approval EXCEPT ![i] = IF @ = "live" THEN "consumed" ELSE @]

(* Only a committed order consumes.                                        *)
Finish(s, i) ==
  /\ call[s][i].pc = "committed"
  /\ Consume(i)
  /\ call' = [call EXCEPT ![s][i].pc = "done"]
  /\ UNCHANGED <<items, byIntent, grants, granted, submit>>

-----------------------------------------------------------------------------
(* The principal of a session sees the items the session opened, and only  *)
(* their references.                                                       *)
Listed(s) == {k \in DOMAIN items : items[k].session = s}

(* GET /v1/pending: items that are overdue become expired.                 *)
List(s) ==
  /\ LoopFree
  /\ items' = [k \in DOMAIN items |->
                 IF k \in Listed(s) /\ items[k].status = "pending" /\ items[k].overdue
                 THEN [items[k] EXCEPT !.status = "expired"] ELSE items[k]]
  /\ UNCHANGED <<byIntent, approval, grants, granted, call, submit>>

(* POST /v1/approve, first half: get, which marks an overdue item expired. *)
(* An item that is not pending answers 409 or 410.                         *)
Submit(k, decision) ==
  /\ LoopFree /\ items[k].status = "pending"
  /\ IF items[k].overdue
     THEN items' = [items EXCEPT ![k].status = "expired"] /\ UNCHANGED submit
     ELSE submit' = [ref |-> k, decision |-> decision] /\ UNCHANGED items
  /\ UNCHANGED <<byIntent, approval, grants, granted, call>>

(* ApprovalStore.approve.                                                  *)
Grant(k) ==
  /\ approval' = [approval EXCEPT ![items[k].intent] = "live"]
  /\ grants' = Append(grants, k)
  /\ granted' = [granted EXCEPT ![items[k].intent] = Len(grants) + 1]

(* Second half: resolve, with a clock reading of its own, then the store.  *)
(* What resolve made of the item is answered but not looked at.            *)
Resolve ==
  LET k == submit.ref
  IN  /\ ~LoopFree
      /\ items' = [items EXCEPT
           ![k].status = IF items[k].overdue THEN "expired"
                         ELSE IF submit.decision = "approve" THEN "approved" ELSE "rejected"]
      /\ IF submit.decision = "approve" THEN Grant(k)
         ELSE UNCHANGED <<approval, grants, granted>>
      /\ submit' = NoSubmit
      /\ UNCHANGED <<byIntent, call>>

-----------------------------------------------------------------------------
(* Time: ten minutes for an item, fifteen for an approval.                 *)
Overdue(k) ==
  /\ Actionable(k)
  /\ items' = [items EXCEPT ![k].overdue = TRUE]
  /\ UNCHANGED <<byIntent, approval, grants, granted, call, submit>>

Lapse(i) ==
  /\ approval[i] = "live"
  /\ approval' = [approval EXCEPT ![i] = "lapsed"]
  /\ UNCHANGED <<items, byIntent, grants, granted, call, submit>>

Propose(s, i) ==
  \/ Hold(s, i) \/ LookUp(s, i) \/ Finish(s, i)
  \/ \E placed \in BOOLEAN, answer \in {"committed", "failed", "unanswered"} :
       RailAnswers(s, i, placed, answer)

ApprovalNext ==
  \/ \E s \in Sessions, i \in Intents : Propose(s, i)
  \/ \E s \in Sessions : List(s)
  \/ \E k \in DOMAIN items :
       Overdue(k) \/ \E d \in {"approve", "reject"} : Submit(k, d)
  \/ Resolve
  \/ \E i \in Intents : Lapse(i)

ApprovalSpec == ApprovalInit /\ [][ApprovalNext]_approvalVars
-----------------------------------------------------------------------------
ApprovalTypes ==
  /\ items \in Seq([session : Sessions, intent : Intents,
                    status : {"pending", "approved", "rejected", "expired"},
                    overdue : BOOLEAN])
  /\ Len(items) <= MaxItems
  /\ byIntent \in [Intents -> 0 .. Len(items)]
  /\ approval \in [Intents -> {"none", "live", "consumed", "lapsed"}]
  /\ grants \in Seq(DOMAIN items)
  /\ granted \in [Intents -> 0 .. Len(grants)]
  /\ call \in [Sessions -> [Intents ->
       [pc : {"none", "rail", "committed", "failed", "unanswered", "done"},
        grant : 0 .. Len(grants), placed : BOOLEAN, late : BOOLEAN]]]
  /\ submit.ref \in 0 .. Len(items)
  /\ submit.decision \in {"none", "approve", "reject"}

(* approve.replay: when an order placed under an approval is committed and *)
(* consume has returned, the approval lets no other call through, whatever *)
(* the session, and whatever was approved or has lapsed since.             *)
SpentOnce == \A s \in Sessions, i \in Intents : ~call[s][i].late

(* An item is decided once: what became of it is never changed, and it     *)
(* gives at most one approval.                                             *)
DecidedOnce ==
  /\ \A m, n \in DOMAIN grants : grants[m] = grants[n] => m = n
  /\ \A n \in DOMAIN grants : items[grants[n]].status \notin {"pending", "rejected"}

ApprovedOnce == SpentOnce /\ DecidedOnce

-----------------------------------------------------------------------------
(* Promises of the comments and the documentation that this code does not  *)
(* keep.                                                                   *)

(* approval.py: an approval is single-use.  Calls that found it before it  *)
(* was consumed, or after one whose order was left unanswered or reported  *)
(* as failed, each place their order.                                      *)
SingleUse ==
  \A s, t \in Sessions, i \in Intents :
    call[s][i].placed /\ call[t][i].placed /\ call[s][i].grant = call[t][i].grant
      => s = t

(* server.py: an expired request is answered 410.  One that expires        *)
(* between get and resolve approves the intent all the same.               *)
ApprovedInTime == \A n \in DOMAIN grants : items[grants[n]].status = "approved"

(* server.py: a principal decides about the baskets of its own session.    *)
OwnPrincipal ==
  \A s \in Sessions, i \in Intents :
    call[s][i].placed => items[grants[call[s][i].grant]].session = s
=============================================================================
