---------------------------- MODULE PartsProofs -----------------------------
(***************************************************************************)
(* Theorems about the small parts: the revocation list, the capture of     *)
(* payments, the human approvals, the daily call budget, the file under    *)
(* the ledger, the order held for approval and the page of a recorded run. *)
(* They share no state; each theorem holds for every value of its part's   *)
(* constants.                                                              *)
(***************************************************************************)
EXTENDS Revocations, Capture, Approvals, CallBudget, LedgerFile, HeldOrder,
        RunRecord, OperatorProofs, SequenceTheorems

-----------------------------------------------------------------------------
(* When a revocation is seen.  The cache may be behind the file only while *)
(* the remembered time is behind the file's.  Two circumstances keep it    *)
(* so: all writes came from the command and got times of their own, or all *)
(* were the service's.                                                     *)

(* The state has its type, and the cache holds nothing the file does not.  *)
Typed == cache \subseteq file /\ TypeOK

LEMMA TypedStep == Typed /\ [Next]_vars => Typed'
<1> SUFFICES ASSUME Typed, [Next]_vars PROVE Typed'
  OBVIOUS
<1> USE RevocationsAssumption DEF Typed, TypeOK, written
<1>1. CASE Tick
  BY <1>1 DEF Tick
<1>2. ASSUME NEW x \in Targets, CommandRevoke(x) PROVE Typed'
  BY <1>2 DEF CommandRevoke, AppendTarget
<1>3. ASSUME NEW x \in Targets, Stat(x) PROVE Typed'
  BY <1>3 DEF Stat
<1>4. ASSUME NEW x \in Targets, Revoke(x) PROVE Typed'
  <2>1. mtime' = clock /\ clock' = clock /\ file' = file \cup {x}
    BY <1>4 DEF Revoke, AppendTarget
  <2>2. writers' = writers \cup {"service"} /\ tied' \in BOOLEAN
    BY <1>4 DEF Revoke, AppendTarget
  <2>3. cache' = cache \cup {x} /\ UNCHANGED last
    BY <1>4 DEF Revoke
  <2>4. op' = [pc |-> "restat", target |-> x, seen |-> 0, due |-> FALSE,
               answer |-> FALSE]
    BY <1>4 DEF Revoke, Free
  <2> QED
    BY <2>1, <2>2, <2>3, <2>4
<1>5. CASE Read
  <2>1. op' = [pc |-> "answer", target |-> op.target, seen |-> op.seen,
               due |-> op.due, answer |-> op.target \in file]
    BY <1>5 DEF Read
  <2>2. (op.target \in file) \in BOOLEAN
    OBVIOUS
  <2>3. cache' = file /\ last' = op.seen /\ UNCHANGED written
    BY <1>5 DEF Read
  <2> QED
    BY <2>1, <2>2, <2>3
<1>6. CASE Answer
  BY <1>6 DEF Answer, Free
<1>7. CASE Restat
  BY <1>7 DEF Restat, Free
<1>8. CASE UNCHANGED vars
  BY <1>8 DEF vars
<1> QED
  BY <1>1, <1>2, <1>3, <1>4, <1>5, <1>6, <1>7, <1>8 DEF Next

LEMMA TypedInit == Init => Typed
<1> SUFFICES ASSUME Init PROVE Typed
  OBVIOUS
<1>1. op = [pc |-> "idle", target |-> NoTarget, seen |-> 0, due |-> FALSE,
            answer |-> FALSE]
  BY DEF Init, Free
<1>2. op \in [pc : {"idle", "read", "answer", "restat"},
             target : Targets \cup {NoTarget}, seen : Nat,
             due : BOOLEAN, answer : BOOLEAN]
  BY <1>1
<1>3. tied \in BOOLEAN
  BY DEF Init
<1> QED
  BY <1>2, <1>3 DEF Init, Typed, TypeOK

(* TypeOK holds in every state, whoever revokes.                           *)
THEOREM RevocationTypes == Spec => []TypeOK
<1>1. Init => Typed
  BY TypedInit
<1>2. Typed => TypeOK
  BY DEF Typed
<1> QED
  BY <1>1, <1>2, TypedStep, PTL DEF Spec

-----------------------------------------------------------------------------
(* What is_revoked is about to answer is right.                            *)
Checking ==
  /\ op.pc = "read" => (op.due => op.target \in file)
  /\ op.pc = "answer" => (op.due => op.answer)

(* A cache whose remembered time is the file's is the file.                *)
CommandInv ==
  /\ op.pc # "restat"
  /\ last <= mtime /\ mtime <= clock
  /\ last = mtime => cache = file
  /\ op.pc = "read" => op.seen <= mtime
  /\ Checking

(* A service that alone writes the file has it in its cache.               *)
ServiceInv == cache = file /\ Checking

ByCommand == writers \subseteq {"command"} /\ ~tied
ByService == writers \subseteq {"service"}

SoleInv ==
  /\ Typed
  /\ ByCommand => CommandInv
  /\ ByService => ServiceInv

(* As long as the command alone has written, at times of their own.        *)
LEMMA CommandStep ==
  ASSUME Typed, CommandInv, [Next]_vars, ByCommand'
  PROVE  CommandInv'
<1> USE RevocationsAssumption DEF Typed, TypeOK, CommandInv, Checking, written
<1>1. CASE Tick
  BY <1>1 DEF Tick
<1>2. ASSUME NEW x \in Targets, CommandRevoke(x) PROVE CommandInv'
  <2>1. mtime' = clock /\ clock' = clock /\ file' = file \cup {x}
    BY <1>2 DEF CommandRevoke, AppendTarget
  <2>2. mtime # clock
    BY <1>2 DEF CommandRevoke, AppendTarget, ByCommand
  <2>3. UNCHANGED <<cache, last, op>>
    BY <1>2 DEF CommandRevoke
  <2> QED
    BY <2>1, <2>2, <2>3
<1>3. ASSUME NEW x \in Targets, Stat(x) PROVE CommandInv'
  <2>1. UNCHANGED <<written, cache, last>>
    BY <1>3 DEF Stat
  <2>2. CASE mtime > last
    <3>1. op' = [pc |-> "read", target |-> x, seen |-> mtime,
                 due |-> x \in file, answer |-> x \in cache]
      BY <1>3, <2>2 DEF Stat
    <3>2. /\ op'.pc = "read" /\ op'.seen = mtime
          /\ op'.due => op'.target \in file
      BY <3>1
    <3> QED
      BY <2>1, <3>2
  <2>3. CASE ~(mtime > last)
    <3>1. cache = file
      BY <2>3
    <3> QED
      BY <1>3, <2>1, <2>3, <3>1 DEF Stat
  <2> QED
    BY <2>2, <2>3
<1>4. ASSUME NEW x \in Targets, Revoke(x) PROVE CommandInv'
  <2>1. "service" \in writers'
    BY <1>4 DEF Revoke, AppendTarget
  <2> QED
    BY <2>1 DEF ByCommand
<1>5. CASE Read
  BY <1>5 DEF Read
<1>6. CASE Answer
  BY <1>6 DEF Answer, Free
<1>7. CASE Restat
  BY <1>7 DEF Restat
<1>8. CASE UNCHANGED vars
  BY <1>8 DEF vars
<1> QED
  BY <1>1, <1>2, <1>3, <1>4, <1>5, <1>6, <1>7, <1>8 DEF Next

(* As long as the service alone has written.                               *)
LEMMA ServiceStep ==
  ASSUME Typed, ServiceInv, [Next]_vars, ByService'
  PROVE  ServiceInv'
<1> USE RevocationsAssumption DEF Typed, TypeOK, ServiceInv, Checking, written
<1>1. CASE Tick
  BY <1>1 DEF Tick
<1>2. ASSUME NEW x \in Targets, CommandRevoke(x) PROVE ServiceInv'
  <2>1. "command" \in writers'
    BY <1>2 DEF CommandRevoke, AppendTarget
  <2> QED
    BY <2>1 DEF ByService
<1>3. ASSUME NEW x \in Targets, Stat(x) PROVE ServiceInv'
  BY <1>3 DEF Stat
<1>4. ASSUME NEW x \in Targets, Revoke(x) PROVE ServiceInv'
  BY <1>4 DEF Revoke, AppendTarget, Free
<1>5. CASE Read
  BY <1>5 DEF Read
<1>6. CASE Answer
  BY <1>6 DEF Answer, Free
<1>7. CASE Restat
  BY <1>7 DEF Restat, Free
<1>8. CASE UNCHANGED vars
  BY <1>8 DEF vars
<1> QED
  BY <1>1, <1>2, <1>3, <1>4, <1>5, <1>6, <1>7, <1>8 DEF Next

(* The file's writers are only ever added to, and a tie is not undone.     *)
LEMMA SoleBefore ==
  ASSUME [Next]_vars
  PROVE  (ByCommand' => ByCommand) /\ (ByService' => ByService)
<1>1. /\ writers' = writers \/ \E w : writers' = writers \cup {w}
      /\ tied => tied'
  <2>1. ASSUME NEW x \in Targets, CommandRevoke(x) \/ Revoke(x)
        PROVE  (\E w : writers' = writers \cup {w}) /\ (tied => tied')
    BY <2>1 DEF CommandRevoke, Revoke, AppendTarget
  <2>2. CASE UNCHANGED <<writers, tied>>
    BY <2>2
  <2> QED
    BY <2>1, <2>2
    DEF Next, vars, written, Tick, Stat, Read, Answer, Restat
<1> QED
  BY <1>1 DEF ByCommand, ByService

(* is_revoked sees every revocation for as long as the file has one writer:*)
(* the service, on any clock, or the command at distinct times.            *)
THEOREM SoleWriterCorrect == Spec => []SoleWriterSeen
<1>1. Init => SoleInv
  BY TypedInit DEF Init, SoleInv, CommandInv, ServiceInv, Checking, Free
<1>2. SoleInv /\ [Next]_vars => SoleInv'
  BY TypedStep, CommandStep, ServiceStep, SoleBefore DEF SoleInv
<1>3. SoleInv => SoleWriterSeen
  BY DEF SoleInv, CommandInv, ServiceInv, Checking, ByCommand, ByService,
         SoleWriterSeen, SoleWriter, RevocationSeen
<1> QED
  BY <1>1, <1>2, <1>3, PTL DEF Spec

-----------------------------------------------------------------------------
(* Capture.  A gateway captures an order once and as it was signed.  The   *)
(* invariant says what a request stands for between two of its steps: one  *)
(* that has verified carries the signature of what it asks for; one that   *)
(* has spent its capability is alone with it, and the rail has not         *)
(* captured yet.                                                           *)

(* What holds of a request under way.                                      *)
InHand(r) == r.asked = r.capability /\ r.capability \in signed

(* Caller c is about to ask the rail for x on gateway g.                   *)
Asking(c, g, x) ==
  request[c].pc = "spent" /\ request[c].gateway = g /\ request[c].asked = x

RequestInv ==
  \A c \in Callers : request[c] # Idle => InHand(request[c])

SpentInv ==
  /\ \A c \in Callers, g \in Gateways, x \in Capability :
       Asking(c, g, x) => x \in spent[g] /\ captured[g][x] = 0
  /\ \A g \in Gateways, x \in Capability :
       captured[g][x] > 0 => x \in spent[g]

AloneInv ==
  \A c, d \in Callers, g \in Gateways, x \in Capability :
    Asking(c, g, x) /\ Asking(d, g, x) => c = d

CaptureInv ==
  CaptureTypes /\ RequestInv /\ SpentInv /\ AloneInv /\ CapturedAsSigned

LEMMA IdleIsNot ==
  ASSUME NEW r \in Request
  PROVE  r # Idle /\ r.pc # "idle"
BY DEF Request, Idle
-----------------------------------------------------------------------------
LEMMA CaptureStart == CaptureInit => CaptureInv
BY CaptureAssumption
   DEF CaptureInit, CaptureInv, CaptureTypes, RequestInv, SpentInv, AloneInv,
       CapturedAsSigned, Asking, Idle, Gateways

(* Sessions come and go, and more capabilities are signed: nothing that    *)
(* the invariant speaks of is taken back.                                  *)
LEMMA SurroundingsStep ==
  ASSUME CaptureInv,
         Create \/ (\E g \in Gateways : Drop(g)) \/ (\E x \in Capability : Mint(x))
  PROVE  CaptureInv'
<1>1. /\ signed \subseteq signed'
      /\ UNCHANGED <<spent, request, captured>>
  BY DEF Create, Drop, Mint
<1>2. CaptureTypes'
  <2>1. CASE Create
    BY <2>1, CaptureAssumption DEF CaptureInv, CaptureTypes, Create, Gateways
  <2>2. CASE \E g \in Gateways : Drop(g)
    BY <2>2 DEF CaptureInv, CaptureTypes, Drop
  <2>3. CASE \E x \in Capability : Mint(x)
    BY <2>3 DEF CaptureInv, CaptureTypes, Mint
  <2> QED  BY <2>1, <2>2, <2>3
<1>3. RequestInv'
  BY <1>1 DEF CaptureInv, RequestInv, InHand
<1>4. SpentInv' /\ AloneInv'
  BY <1>1 DEF CaptureInv, SpentInv, AloneInv, Asking
<1>5. CapturedAsSigned'
  BY <1>1 DEF CaptureInv, CapturedAsSigned
<1> QED  BY <1>2, <1>3, <1>4, <1>5 DEF CaptureInv

(* A request that verified asks for what its capability signs.             *)
LEMMA AskStep ==
  ASSUME CaptureInv, NEW c \in Callers, NEW g \in living, NEW x \in signed,
         NEW o \in Charged, NEW a \in Sums, Ask(c, g, x, o, a)
  PROVE  CaptureInv'
<1> DEFINE r == [pc |-> "verified", gateway |-> g, capability |-> x,
                 asked |-> [order |-> o, amount |-> a]]
<1>1. g \in Gateways /\ x \in Capability
  BY DEF CaptureInv, CaptureTypes
<1>2. r \in Request /\ r.pc = "verified" /\ r.asked = r.capability
  BY <1>1 DEF Request, Capability, Ask, Verified
<1>3. request' = [request EXCEPT ![c] = r]
  BY DEF Ask
<1> HIDE DEF r
<1>4. UNCHANGED <<signed, built, living, spent, captured>>
  BY DEF Ask
<1>5. CaptureTypes'
  BY <1>2, <1>3, <1>4 DEF CaptureInv, CaptureTypes
<1>6. r.capability \in signed
  BY DEF r
<1>7. RequestInv'
  BY <1>2, <1>3, <1>4, <1>6 DEF CaptureInv, CaptureTypes, RequestInv, InHand
<1>8. \A d \in Callers, h \in Gateways, y \in Capability :
        Asking(d, h, y)' => Asking(d, h, y)
  BY <1>2, <1>3 DEF CaptureInv, CaptureTypes, Asking
<1>9. SpentInv' /\ AloneInv'
  BY <1>4, <1>8 DEF CaptureInv, SpentInv, AloneInv
<1>10. CapturedAsSigned'
  BY <1>4 DEF CaptureInv, CapturedAsSigned
<1> QED  BY <1>5, <1>7, <1>9, <1>10 DEF CaptureInv

(* The lock: a capability found spent ends the request, and one that was   *)
(* not has neither been captured nor is another request about to.          *)
LEMMA SpendStep ==
  ASSUME CaptureInv, NEW c \in Callers, Spend(c)
  PROVE  CaptureInv'
<1> DEFINE r == request[c]
           g == r.gateway
           x == r.capability
<1>1. r \in Request /\ r.pc = "verified"
  BY DEF CaptureInv, CaptureTypes, Spend, Idle
<1>2. /\ g \in Gateways /\ x \in Capability
      /\ r.asked = x /\ x \in signed
  BY <1>1, IdleIsNot DEF CaptureInv, RequestInv, InHand, Request
<1>3. /\ request' = [request EXCEPT
             ![c] = IF x \in spent[g] THEN Idle ELSE [r EXCEPT !.pc = "spent"]]
      /\ spent' = [spent EXCEPT ![g] = @ \cup {x}]
      /\ UNCHANGED <<signed, built, living, captured>>
  BY DEF Spend
<1>4. [r EXCEPT !.pc = "spent"] \in Request
  BY <1>1 DEF Request
<1>5. CaptureTypes'
  BY <1>2, <1>3, <1>4 DEF CaptureInv, CaptureTypes
<1>6. /\ \A h \in Gateways : spent[h] \subseteq spent'[h]
      /\ x \in spent'[g]
  BY <1>2, <1>3 DEF CaptureInv, CaptureTypes
<1>7. /\ request'[c] = IF x \in spent[g] THEN Idle ELSE [r EXCEPT !.pc = "spent"]
      /\ \A d \in Callers \ {c} : request'[d] = request[d]
  BY <1>3 DEF CaptureInv, CaptureTypes
<1>8. RequestInv'
  BY <1>1, <1>2, <1>3, <1>7 DEF CaptureInv, RequestInv, InHand, Request
<1>9. \A d \in Callers, h \in Gateways, y \in Capability :
        Asking(d, h, y)' =>
          Asking(d, h, y) \/ (d = c /\ h = g /\ y = x /\ x \notin spent[g])
  BY <1>1, <1>2, <1>7 DEF Asking, Request, Idle
<1>10. SpentInv'
  <2>1. x \notin spent[g] => captured[g][x] = 0
    BY <1>2 DEF CaptureInv, CaptureTypes, SpentInv
  <2> QED  BY <1>3, <1>6, <1>9, <2>1 DEF CaptureInv, SpentInv
<1>11. AloneInv'
  <2>1. x \notin spent[g] => \A d \in Callers : ~Asking(d, g, x)
    BY <1>2 DEF CaptureInv, SpentInv
  <2> QED  BY <1>9, <2>1 DEF CaptureInv, AloneInv
<1>12. CapturedAsSigned'
  BY <1>3 DEF CaptureInv, CapturedAsSigned
<1> QED  BY <1>5, <1>8, <1>10, <1>11, <1>12 DEF CaptureInv

(* The rail: the request was alone with its capability and nothing had     *)
(* been captured for it, so what the rail does now is the first time.      *)
LEMMA RailStep ==
  ASSUME CaptureInv, NEW c \in Callers, NEW done \in BOOLEAN, Rail(c, done)
  PROVE  CaptureInv'
<1> DEFINE r == request[c]
           g == r.gateway
           x == r.asked
<1>1. r \in Request /\ r.pc = "spent"
  BY DEF CaptureInv, CaptureTypes, Rail, Idle
<1>2. g \in Gateways /\ x \in Capability /\ x \in signed
  BY <1>1, IdleIsNot DEF CaptureInv, RequestInv, InHand, Request
<1>3. x \in spent[g] /\ captured[g][x] = 0
  BY <1>1, <1>2 DEF CaptureInv, SpentInv, Asking
<1>4. /\ captured' = IF done THEN [captured EXCEPT ![g][x] = @ + 1] ELSE captured
      /\ request' = [request EXCEPT ![c] = Idle]
      /\ UNCHANGED <<signed, built, living, spent>>
  BY DEF Rail
<1>5. CaptureTypes'
  BY <1>2, <1>3, <1>4 DEF CaptureInv, CaptureTypes
<1>6. \A h \in Gateways, y \in Capability :
        captured'[h][y] = IF done /\ h = g /\ y = x THEN 1 ELSE captured[h][y]
  BY <1>2, <1>3, <1>4 DEF CaptureInv, CaptureTypes
<1>7. \A d \in Callers, h \in Gateways, y \in Capability :
        Asking(d, h, y)' => d # c /\ Asking(d, h, y)
  BY <1>4 DEF CaptureInv, CaptureTypes, Asking, Idle
<1>8. RequestInv'
  BY <1>4 DEF CaptureInv, CaptureTypes, RequestInv, InHand
<1>9. \A d \in Callers \ {c} : ~Asking(d, g, x)
  BY <1>1, <1>2 DEF CaptureInv, AloneInv, Asking
<1>10. SpentInv'
  BY <1>3, <1>4, <1>6, <1>7, <1>9 DEF CaptureInv, SpentInv
<1>11. AloneInv'
  BY <1>7 DEF CaptureInv, AloneInv
<1>12. CapturedAsSigned'
  BY <1>2, <1>4, <1>6 DEF CaptureInv, CapturedAsSigned
<1> QED  BY <1>5, <1>8, <1>10, <1>11, <1>12 DEF CaptureInv
-----------------------------------------------------------------------------
LEMMA CaptureStep == CaptureInv /\ [CaptureNext]_captureVars => CaptureInv'
<1> SUFFICES ASSUME CaptureInv, [CaptureNext]_captureVars
             PROVE  CaptureInv'
  OBVIOUS
<1>1. CASE Create \/ (\E g \in Gateways : Drop(g)) \/ (\E x \in Capability : Mint(x))
  BY <1>1, SurroundingsStep
<1>2. ASSUME NEW c \in Callers,
             \E g \in living, x \in signed, o \in Charged, a \in Sums : Ask(c, g, x, o, a)
      PROVE  CaptureInv'
  BY <1>2, AskStep
<1>3. ASSUME NEW c \in Callers, Spend(c)
      PROVE  CaptureInv'
  BY <1>3, SpendStep
<1>4. ASSUME NEW c \in Callers, NEW done \in BOOLEAN, Rail(c, done)
      PROVE  CaptureInv'
  BY <1>4, RailStep
<1>5. CASE UNCHANGED captureVars
  BY <1>5 DEF captureVars, CaptureInv, CaptureTypes, RequestInv, InHand, SpentInv, AloneInv,
              CapturedAsSigned, Asking
<1> QED  BY <1>1, <1>2, <1>3, <1>4, <1>5 DEF CaptureNext

(* A gateway captures an order once and at its authorised amount, whoever  *)
(* else captures meanwhile and whatever became of an earlier try           *)
(* (Gateway.capture_payment).                                              *)
THEOREM CapturedOnceEach == CaptureSpec => []CapturedAsSigned
<1>1. CaptureSpec => []CaptureInv
  BY CaptureStart, CaptureStep, PTL DEF CaptureSpec
<1>2. CaptureInv => CapturedAsSigned
  BY DEF CaptureInv
<1> QED  BY <1>1, <1>2, PTL

-----------------------------------------------------------------------------
(* Human approvals.  A call has the number of the approval it found; while *)
(* that approval is live no call that found it has been committed and has  *)
(* consumed, and the next approval of the intent has a number of its own.  *)

Item == [session : Sessions, intent : Intents,
         status : {"pending", "approved", "rejected", "expired"}, overdue : BOOLEAN]

ApprovedCall ==
  [pc : {"none", "rail", "committed", "failed", "unanswered", "done"},
   grant : 0 .. Len(grants), placed : BOOLEAN, late : BOOLEAN]

(* The submission under way is about an item nobody has decided.           *)
SubmitInv ==
  \/ submit = NoSubmit
  \/ /\ submit.ref \in DOMAIN items /\ submit.decision \in {"approve", "reject"}
     /\ items[submit.ref].status = "pending"

(* A call found an approval of its intent.                                 *)
FoundInv ==
  \A s \in Sessions, i \in Intents :
    call[s][i].pc # "none" =>
      call[s][i].grant \in DOMAIN grants /\ items[grants[call[s][i].grant]].intent = i

(* A live approval is not spent.                                           *)
LiveInv ==
  \A i \in Intents : approval[i] = "live" =>
    /\ granted[i] \in DOMAIN grants /\ items[grants[granted[i]]].intent = i
    /\ ~Spent(granted[i])

ApprovalInv ==
  ApprovalTypes /\ SubmitInv /\ FoundInv /\ LiveInv /\ SpentOnce /\ DecidedOnce

(* Items stay in the queue with their intent, and are decided once.        *)
ItemsKept ==
  /\ items' \in Seq(Item) /\ Len(items) <= Len(items') /\ Len(items') <= MaxItems
  /\ \A k \in DOMAIN items :
       /\ items'[k].intent = items[k].intent
       /\ items[k].status # "pending" => items'[k].status = items[k].status

LEMMA ApprovalTyped ==
  ApprovalTypes <=>
    /\ items \in Seq(Item) /\ Len(items) <= MaxItems
    /\ byIntent \in [Intents -> 0 .. Len(items)]
    /\ approval \in [Intents -> {"none", "live", "consumed", "lapsed"}]
    /\ grants \in Seq(DOMAIN items)
    /\ granted \in [Intents -> 0 .. Len(grants)]
    /\ call \in [Sessions -> [Intents -> ApprovedCall]]
    /\ submit.ref \in 0 .. Len(items)
    /\ submit.decision \in {"none", "approve", "reject"}
BY DEF ApprovalTypes, Item, ApprovedCall

LEMMA ApprovalStart == ApprovalInit => ApprovalInv
<1> SUFFICES ASSUME ApprovalInit PROVE ApprovalInv
  OBVIOUS
<1>1. Len(items) = 0 /\ Len(grants) = 0 /\ DOMAIN grants = {}
  BY DEF ApprovalInit
<1>2. ApprovalTypes
  BY <1>1, ApprovalsAssumption, ApprovalTyped
     DEF ApprovalInit, NoSubmit, ApprovedCall, NoCall
<1>3. SubmitInv /\ FoundInv /\ LiveInv /\ SpentOnce /\ DecidedOnce
  BY <1>1 DEF ApprovalInit, SubmitInv, FoundInv, LiveInv, SpentOnce, DecidedOnce, NoCall
<1> QED  BY <1>2, <1>3 DEF ApprovalInv

LEMMA ItemUpdate ==
  ASSUME ApprovalTypes, NEW k \in DOMAIN items,
         NEW st \in {"pending", "approved", "rejected", "expired"},
         items' = [items EXCEPT ![k].status = st], items[k].status = "pending"
  PROVE  ItemsKept /\ Len(items') = Len(items) /\ items'[k].status = st
         /\ \A j \in DOMAIN items : j # k => items'[j] = items[j]
<1>1. items \in Seq(Item) /\ Len(items) <= MaxItems /\ k \in 1 .. Len(items)
  BY ApprovalTyped
<1>2. items[k] \in Item
  BY <1>1
<1> DEFINE new == [items[k] EXCEPT !.status = st]
<1>3. /\ new \in Item /\ new.intent = items[k].intent /\ new.status = st
  BY <1>2 DEF Item
<1>4. items' = [items EXCEPT ![k] = new]
  OBVIOUS
<1> HIDE DEF new
<1>5. /\ items' \in Seq(Item) /\ Len(items') = Len(items) /\ items'[k] = new
      /\ \A j \in DOMAIN items : j # k => items'[j] = items[j]
  BY <1>1, <1>3, <1>4
<1> QED  BY <1>1, <1>3, <1>5 DEF ItemsKept

LEMMA ItemsListed ==
  ASSUME ApprovalTypes, NEW s \in Sessions, List(s)
  PROVE  ItemsKept /\ Len(items') = Len(items)
<1>1. items \in Seq(Item) /\ Len(items) <= MaxItems
  BY ApprovalTyped
<1> DEFINE new(k) == IF k \in Listed(s) /\ items[k].status = "pending" /\ items[k].overdue
                     THEN [items[k] EXCEPT !.status = "expired"] ELSE items[k]
<1>2. ASSUME NEW k \in DOMAIN items
      PROVE  /\ new(k) \in Item /\ new(k).intent = items[k].intent
             /\ items[k].status # "pending" => new(k) = items[k]
  <2>1. items[k] \in Item
    BY <1>1
  <2>2. /\ [items[k] EXCEPT !.status = "expired"] \in Item
        /\ [items[k] EXCEPT !.status = "expired"].intent = items[k].intent
    BY <2>1 DEF Item
  <2> QED  BY <2>1, <2>2
<1>3. items' = [k \in 1 .. Len(items) |-> new(k)]
  BY <1>1 DEF List
<1> HIDE DEF new
<1>4. /\ items' \in Seq(Item) /\ Len(items') = Len(items)
      /\ \A k \in DOMAIN items : items'[k] = new(k)
  BY <1>1, <1>2, <1>3
<1> QED  BY <1>1, <1>2, <1>4 DEF ItemsKept

LEMMA ItemsOpened ==
  ASSUME ApprovalTypes, NEW s \in Sessions, NEW i \in Intents, OpenItem(s, i)
  PROVE  ItemsKept /\ byIntent' \in [Intents -> 0 .. Len(items')]
<1>1. /\ items \in Seq(Item) /\ Len(items) <= MaxItems
      /\ byIntent \in [Intents -> 0 .. Len(items)]
  BY ApprovalTyped
<1>2. CASE UNCHANGED <<items, byIntent>>
  BY <1>1, <1>2 DEF ItemsKept
<1>3. CASE ~UNCHANGED <<items, byIntent>>
  <2> DEFINE new == [session |-> s, intent |-> i, status |-> "pending", overdue |-> FALSE]
  <2>1. new \in Item
    BY DEF Item
  <2>2. /\ Len(items) < MaxItems /\ items' = Append(items, new)
        /\ byIntent' = [byIntent EXCEPT ![i] = Len(items) + 1]
    BY <1>3 DEF OpenItem
  <2> HIDE DEF new
  <2>3. /\ items' \in Seq(Item) /\ Len(items') = Len(items) + 1
        /\ \A k \in DOMAIN items : items'[k] = items[k]
    BY <1>1, <2>1, <2>2
  <2>4. byIntent' \in [Intents -> 0 .. Len(items')]
    BY <1>1, <2>2, <2>3
  <2> QED  BY <1>1, <2>2, <2>3, <2>4, ApprovalsAssumption DEF ItemsKept
<1> QED  BY <1>2, <1>3

LEMMA ItemOverdue ==
  ASSUME ApprovalTypes, NEW k \in DOMAIN items, Overdue(k)
  PROVE  /\ ItemsKept /\ Len(items') = Len(items)
         /\ \A j \in DOMAIN items : items'[j].status = items[j].status
<1>1. items \in Seq(Item) /\ Len(items) <= MaxItems /\ k \in 1 .. Len(items)
  BY ApprovalTyped
<1>2. items[k] \in Item
  BY <1>1
<1> DEFINE new == [items[k] EXCEPT !.overdue = TRUE]
<1>3. /\ new \in Item /\ new.intent = items[k].intent /\ new.status = items[k].status
  BY <1>2 DEF Item
<1>4. items' = [items EXCEPT ![k] = new]
  BY DEF Overdue
<1> HIDE DEF new
<1>5. /\ items' \in Seq(Item) /\ Len(items') = Len(items) /\ items'[k] = new
      /\ \A j \in DOMAIN items : j # k => items'[j] = items[j]
  BY <1>1, <1>3, <1>4
<1> QED  BY <1>1, <1>3, <1>5 DEF ItemsKept

(* What was granted and placed stays as it is while the queue moves.       *)
LEMMA QueueStep ==
  ASSUME ApprovalInv, ItemsKept,
         UNCHANGED <<approval, grants, granted, call>>,
         byIntent' \in [Intents -> 0 .. Len(items')],
         submit'.ref \in 0 .. Len(items'),
         submit'.decision \in {"none", "approve", "reject"}, SubmitInv'
  PROVE  ApprovalInv'
<1>1. /\ items \in Seq(Item) /\ grants \in Seq(DOMAIN items)
      /\ call \in [Sessions -> [Intents -> ApprovedCall]] /\ ApprovalTypes
  BY ApprovalTyped DEF ApprovalInv
<1>2. DOMAIN items \subseteq DOMAIN items' /\ items' \in Seq(Item)
  BY <1>1 DEF ItemsKept
<1>3. grants \in Seq(DOMAIN items')
  BY <1>1, <1>2
<1>4. ApprovalTypes'
  BY <1>1, <1>2, <1>3, ApprovalTyped DEF ApprovalTypes, ItemsKept, Item, ApprovedCall
<1>5. \A n \in DOMAIN grants : grants[n] \in DOMAIN items
  BY <1>1
<1>6. FoundInv'
  BY <1>5 DEF ApprovalInv, FoundInv, ItemsKept
<1>7. LiveInv'
  BY <1>5 DEF ApprovalInv, LiveInv, Spent, ItemsKept
<1>8. SpentOnce'
  BY DEF ApprovalInv, SpentOnce
<1>9. DecidedOnce'
  BY <1>5 DEF ApprovalInv, DecidedOnce, ItemsKept
<1> QED  BY <1>4, <1>6, <1>7, <1>8, <1>9 DEF ApprovalInv

LEMMA HoldStep ==
  ASSUME ApprovalInv, NEW s \in Sessions, NEW i \in Intents, Hold(s, i)
  PROVE  ApprovalInv'
<1>1. ApprovalTypes
  BY DEF ApprovalInv
<1>2. /\ submit = NoSubmit /\ submit' = NoSubmit /\ OpenItem(s, i)
      /\ UNCHANGED <<approval, grants, granted, call>>
  BY DEF Hold, LoopFree
<1>3. ItemsKept /\ byIntent' \in [Intents -> 0 .. Len(items')]
  BY <1>1, <1>2, ItemsOpened
<1>4. Len(items') \in Nat
  BY <1>3 DEF ItemsKept
<1> QED  BY <1>2, <1>3, <1>4, QueueStep DEF SubmitInv, NoSubmit

LEMMA ListStep ==
  ASSUME ApprovalInv, NEW s \in Sessions, List(s)
  PROVE  ApprovalInv'
<1>1. ApprovalTypes
  BY DEF ApprovalInv
<1>2. /\ submit = NoSubmit /\ submit' = NoSubmit
      /\ UNCHANGED <<byIntent, approval, grants, granted, call>>
  BY DEF List, LoopFree
<1>3. ItemsKept /\ byIntent' \in [Intents -> 0 .. Len(items')]
  BY <1>1, <1>2, ItemsListed, ApprovalTyped
<1>4. Len(items') \in Nat
  BY <1>3 DEF ItemsKept
<1> QED  BY <1>2, <1>3, <1>4, QueueStep DEF SubmitInv, NoSubmit

LEMMA OverdueStep ==
  ASSUME ApprovalInv, NEW k \in DOMAIN items, Overdue(k)
  PROVE  ApprovalInv'
<1>1. ApprovalTypes
  BY DEF ApprovalInv
<1>2. UNCHANGED <<byIntent, approval, grants, granted, call, submit>>
  BY DEF Overdue
<1>3. /\ ItemsKept /\ Len(items') = Len(items)
      /\ \A j \in DOMAIN items : items'[j].status = items[j].status
  BY <1>1, ItemOverdue
<1>4. SubmitInv'
  BY <1>2, <1>3 DEF ApprovalInv, SubmitInv, ItemsKept
<1>5. /\ submit.ref \in 0 .. Len(items) /\ submit.decision \in {"none", "approve", "reject"}
      /\ byIntent \in [Intents -> 0 .. Len(items)]
  BY <1>1, ApprovalTyped
<1> QED  BY <1>2, <1>3, <1>4, <1>5, QueueStep

LEMMA SubmitStep ==
  ASSUME ApprovalInv, NEW k \in DOMAIN items, NEW d \in {"approve", "reject"}, Submit(k, d)
  PROVE  ApprovalInv'
<1>1. ApprovalTypes /\ items \in Seq(Item) /\ byIntent \in [Intents -> 0 .. Len(items)]
  BY ApprovalTyped DEF ApprovalInv
<1>2. /\ submit = NoSubmit /\ items[k].status = "pending"
      /\ UNCHANGED <<byIntent, approval, grants, granted, call>>
  BY DEF Submit, LoopFree
<1>3. CASE items[k].overdue
  <2>1. items' = [items EXCEPT ![k].status = "expired"] /\ submit' = NoSubmit
    BY <1>2, <1>3 DEF Submit
  <2>2. ItemsKept /\ Len(items') = Len(items)
    BY <1>1, <1>2, <2>1, ItemUpdate
  <2>3. Len(items') \in Nat
    BY <2>2 DEF ItemsKept
  <2> QED  BY <1>1, <1>2, <2>1, <2>2, <2>3, QueueStep DEF SubmitInv, NoSubmit
<1>4. CASE ~items[k].overdue
  <2>1. submit' = [ref |-> k, decision |-> d] /\ items' = items
    BY <1>4 DEF Submit
  <2>2. ItemsKept
    BY <1>1, <2>1, ApprovalTyped DEF ItemsKept
  <2>3. k \in 0 .. Len(items') /\ SubmitInv'
    BY <1>1, <1>2, <2>1 DEF SubmitInv
  <2> QED  BY <1>1, <1>2, <2>1, <2>2, <2>3, QueueStep
<1> QED  BY <1>3, <1>4

LEMMA LapseStep ==
  ASSUME ApprovalInv, NEW i \in Intents, Lapse(i)
  PROVE  ApprovalInv'
<1>1. /\ approval' = [approval EXCEPT ![i] = "lapsed"]
      /\ UNCHANGED <<items, byIntent, grants, granted, call, submit>>
  BY DEF Lapse
<1>2. ApprovalTypes'
  BY <1>1 DEF ApprovalInv, ApprovalTypes
<1>3. LiveInv'
  BY <1>1 DEF ApprovalInv, ApprovalTypes, LiveInv, Spent
<1> QED  BY <1>1, <1>2, <1>3
         DEF ApprovalInv, SubmitInv, FoundInv, SpentOnce, DecidedOnce

(* One call moves and keeps the approval it found.                         *)
LEMMA CallMoves ==
  ASSUME ApprovalInv, NEW s \in Sessions, NEW i \in Intents, NEW c \in ApprovedCall,
         call' = [call EXCEPT ![s][i] = c],
         UNCHANGED <<items, byIntent, grants, granted, submit>>,
         approval' \in [Intents -> {"none", "live", "consumed", "lapsed"}],
         \A j \in Intents : approval'[j] = "live" => approval[j] = "live",
         ~c.late,
         c.pc # "none" => c.grant \in DOMAIN grants /\ items[grants[c.grant]].intent = i,
         c.pc = "done" => approval'[i] # "live"
  PROVE  ApprovalInv'
<1>1. /\ call \in [Sessions -> [Intents -> ApprovedCall]] /\ ApprovalTypes
      /\ grants \in Seq(DOMAIN items)
  BY ApprovalTyped DEF ApprovalInv
<1>2. \A t \in Sessions, j \in Intents :
        call'[t][j] = IF t = s /\ j = i THEN c ELSE call[t][j]
  BY <1>1
<1>3. call' \in [Sessions -> [Intents -> ApprovedCall]]
  BY <1>1
<1>4. ApprovalTypes'
  BY <1>1, <1>3, ApprovalTyped DEF ApprovalTypes, ApprovedCall
<1>5. FoundInv' /\ SpentOnce' /\ SubmitInv' /\ DecidedOnce'
  BY <1>2 DEF ApprovalInv, FoundInv, SpentOnce, SubmitInv, DecidedOnce
<1>6. LiveInv'
  <2> SUFFICES ASSUME NEW j \in Intents, approval'[j] = "live"
               PROVE  /\ granted[j] \in DOMAIN grants
                      /\ items[grants[granted[j]]].intent = j
                      /\ ~Spent(granted[j])'
    BY DEF LiveInv
  <2>1. /\ granted[j] \in DOMAIN grants /\ items[grants[granted[j]]].intent = j
        /\ \A t \in Sessions, k \in Intents :
             ~(call[t][k].pc = "done" /\ call[t][k].grant = granted[j])
    BY DEF ApprovalInv, LiveInv, Spent
  <2>2. ~(c.pc = "done" /\ c.grant = granted[j])
    BY <2>1
  <2>3. \A t \in Sessions, k \in Intents :
          ~(call'[t][k].pc = "done" /\ call'[t][k].grant = granted'[j])
    BY <1>2, <2>1, <2>2
  <2> QED  BY <2>1, <2>3 DEF Spent
<1> QED  BY <1>4, <1>5, <1>6 DEF ApprovalInv

LEMMA LookUpStep ==
  ASSUME ApprovalInv, NEW s \in Sessions, NEW i \in Intents, LookUp(s, i)
  PROVE  ApprovalInv'
<1> DEFINE c == [pc |-> "rail", grant |-> granted[i], placed |-> FALSE,
                 late |-> Spent(granted[i])]
<1>1. /\ granted[i] \in DOMAIN grants /\ items[grants[granted[i]]].intent = i
      /\ Spent(granted[i]) = FALSE
  BY DEF LookUp, ApprovalInv, LiveInv, Spent
<1>2. c = [pc |-> "rail", grant |-> granted[i], placed |-> FALSE, late |-> FALSE]
  BY <1>1
<1>3. ApprovalTypes /\ DOMAIN grants \subseteq 0 .. Len(grants)
      /\ approval \in [Intents -> {"none", "live", "consumed", "lapsed"}]
  BY ApprovalTyped DEF ApprovalInv
<1>4. /\ c \in ApprovedCall /\ ~c.late /\ c.pc = "rail" /\ c.grant = granted[i]
  BY <1>1, <1>2, <1>3 DEF ApprovedCall
<1>5. /\ call' = [call EXCEPT ![s][i] = c]
      /\ UNCHANGED <<items, byIntent, approval, grants, granted, submit>>
  BY DEF LookUp
<1> HIDE DEF c
<1> QED  BY <1>1, <1>3, <1>4, <1>5, CallMoves

LEMMA AnswerStep ==
  ASSUME ApprovalInv, NEW s \in Sessions, NEW i \in Intents, NEW placed \in BOOLEAN,
         NEW answer \in {"committed", "failed", "unanswered"},
         RailAnswers(s, i, placed, answer)
  PROVE  ApprovalInv'
<1>1. /\ call \in [Sessions -> [Intents -> ApprovedCall]]
      /\ approval \in [Intents -> {"none", "live", "consumed", "lapsed"}]
  BY ApprovalTyped DEF ApprovalInv
<1>2. PICK c : c = [pc |-> answer, grant |-> call[s][i].grant, placed |-> placed,
                    late |-> call[s][i].late]
  OBVIOUS
<1>3. call[s][i] \in ApprovedCall /\ call[s][i].pc = "rail"
  BY <1>1 DEF RailAnswers
<1>4. call' = [call EXCEPT ![s][i] = c]
  BY <1>1, <1>2 DEF RailAnswers
<1>5. /\ c \in ApprovedCall /\ ~c.late /\ c.pc # "done" /\ c.grant = call[s][i].grant
  BY <1>2, <1>3 DEF ApprovedCall, ApprovalInv, SpentOnce
<1>6. c.grant \in DOMAIN grants /\ items[grants[c.grant]].intent = i
  BY <1>3, <1>5 DEF ApprovalInv, FoundInv
<1>7. UNCHANGED <<items, byIntent, approval, grants, granted, submit>>
  BY DEF RailAnswers
<1> QED  BY <1>1, <1>4, <1>5, <1>6, <1>7, CallMoves

LEMMA FinishStep ==
  ASSUME ApprovalInv, NEW s \in Sessions, NEW i \in Intents, Finish(s, i)
  PROVE  ApprovalInv'
<1> DEFINE c == [call[s][i] EXCEPT !.pc = "done"]
<1>1. /\ call \in [Sessions -> [Intents -> ApprovedCall]]
      /\ approval \in [Intents -> {"none", "live", "consumed", "lapsed"}]
  BY ApprovalTyped DEF ApprovalInv
<1>2. call[s][i] \in ApprovedCall /\ call[s][i].pc = "committed" /\ ~call[s][i].late
  BY <1>1 DEF Finish, ApprovalInv, SpentOnce
<1>3. /\ c \in ApprovedCall /\ ~c.late /\ c.pc = "done" /\ c.grant = call[s][i].grant
  BY <1>2 DEF ApprovedCall
<1>4. call[s][i].grant \in DOMAIN grants /\ items[grants[call[s][i].grant]].intent = i
  BY <1>2 DEF ApprovalInv, FoundInv
<1>5. call' = [call EXCEPT ![s][i] = c]
  BY <1>1 DEF Finish
<1>6. /\ approval' \in [Intents -> {"none", "live", "consumed", "lapsed"}]
      /\ approval'[i] # "live"
      /\ \A j \in Intents : approval'[j] = "live" => approval[j] = "live"
  BY <1>1 DEF Finish, Consume
<1>7. UNCHANGED <<items, byIntent, grants, granted, submit>>
  BY DEF Finish
<1> HIDE DEF c
<1> QED  BY <1>3, <1>4, <1>5, <1>6, <1>7, CallMoves

LEMMA ResolveStep == ASSUME ApprovalInv, Resolve PROVE ApprovalInv'
<1>1. PICK k \in DOMAIN items : k = submit.ref /\ items[k].status = "pending"
                                /\ submit.decision \in {"approve", "reject"}
  BY DEF ApprovalInv, SubmitInv, Resolve, LoopFree
<1>2. PICK st \in {"expired", "approved", "rejected"} :
        /\ items' = [items EXCEPT ![k].status = st]
        /\ submit.decision = "approve" => st # "rejected"
  BY <1>1 DEF Resolve
<1>3. ApprovalTypes /\ items \in Seq(Item) /\ byIntent \in [Intents -> 0 .. Len(items)]
  BY ApprovalTyped DEF ApprovalInv
<1>4. /\ ItemsKept /\ Len(items') = Len(items) /\ items'[k].status = st
      /\ \A j \in DOMAIN items : j # k => items'[j] = items[j]
  BY <1>1, <1>2, <1>3, ItemUpdate
<1>5. submit' = NoSubmit /\ UNCHANGED <<byIntent, call>>
  BY DEF Resolve
<1>6. Len(items') \in Nat /\ DOMAIN items' = DOMAIN items
  BY <1>3, <1>4 DEF ItemsKept
<1>7. CASE submit.decision = "reject"
  <2>1. UNCHANGED <<approval, grants, granted>>
    BY <1>7 DEF Resolve
  <2> QED  BY <1>3, <1>4, <1>5, <1>6, <2>1, QueueStep DEF SubmitInv, NoSubmit
<1>8. CASE submit.decision = "approve"
  <2> DEFINE i == items[k].intent
  <2>1. /\ approval' = [approval EXCEPT ![i] = "live"]
        /\ grants' = Append(grants, k)
        /\ granted' = [granted EXCEPT ![i] = Len(grants) + 1]
    BY <1>1, <1>8 DEF Resolve, Grant
  <2>2. /\ grants \in Seq(DOMAIN items)
        /\ call \in [Sessions -> [Intents -> ApprovedCall]]
        /\ approval \in [Intents -> {"none", "live", "consumed", "lapsed"}]
        /\ granted \in [Intents -> 0 .. Len(grants)]
        /\ i \in Intents
    <3>1. items[k] \in Item
      BY <1>3
    <3> QED  BY <1>3, <3>1, ApprovalTyped DEF Item
  <2> HIDE DEF i
  <2>3. /\ grants' \in Seq(DOMAIN items') /\ Len(grants') = Len(grants) + 1
        /\ grants'[Len(grants) + 1] = k
        /\ \A n \in DOMAIN grants : grants'[n] = grants[n] /\ grants[n] \in DOMAIN items
    BY <1>6, <2>1, <2>2
  <2>4. Len(grants) \in Nat /\ DOMAIN grants = 1 .. Len(grants)
        /\ DOMAIN grants' = 1 .. Len(grants) + 1
    BY <2>2, <2>3
  <2>5. /\ approval' \in [Intents -> {"none", "live", "consumed", "lapsed"}]
        /\ granted' \in [Intents -> 0 .. Len(grants')]
        /\ call' \in [Sessions -> [Intents -> ApprovedCall']]
    <3>1. ApprovedCall \subseteq ApprovedCall'
      BY <2>3, <2>4 DEF ApprovedCall
    <3> QED  BY <1>5, <2>1, <2>2, <2>3, <2>4, <3>1
  <2>6. ApprovalTypes'
    <3>1. /\ items' \in Seq(Item) /\ Len(items') <= MaxItems
          /\ byIntent' \in [Intents -> 0 .. Len(items')]
      BY <1>3, <1>4, <1>5 DEF ItemsKept
    <3>2. submit'.ref \in 0 .. Len(items') /\ submit'.decision = "none"
      BY <1>5, <1>6 DEF NoSubmit
    <3> QED  BY <2>3, <2>5, <3>1, <3>2 DEF ApprovalTypes, Item, ApprovedCall
  <2>7. \A s \in Sessions, j \in Intents :
          call[s][j].pc # "none" => call[s][j].grant \in DOMAIN grants
    BY DEF ApprovalInv, FoundInv
  <2>8. \A n \in DOMAIN grants : items'[grants'[n]].intent = items[grants[n]].intent
    BY <1>4, <2>3 DEF ItemsKept
  <2>9. FoundInv'
    BY <1>5, <2>3, <2>4, <2>7, <2>8 DEF ApprovalInv, FoundInv
  <2>10. LiveInv'
    <3>1. ASSUME NEW j \in Intents, j # i, approval'[j] = "live"
          PROVE  /\ granted'[j] \in DOMAIN grants'
                 /\ items'[grants'[granted'[j]]].intent = j
                 /\ ~Spent(granted[j])' /\ granted'[j] = granted[j]
      <4>1. approval[j] = "live" /\ granted'[j] = granted[j]
        BY <2>1, <2>2, <3>1
      <4> QED  BY <1>5, <2>4, <2>8, <4>1 DEF ApprovalInv, LiveInv, Spent
    <3>2. /\ granted'[i] = Len(grants) + 1 /\ items'[k].intent = i
          /\ \A s \in Sessions, j \in Intents :
               ~(call'[s][j].pc = "done" /\ call'[s][j].grant = Len(grants) + 1)
      BY <1>4, <1>5, <2>1, <2>2, <2>4, <2>7 DEF ItemsKept, i
    <3> QED  BY <2>3, <2>4, <3>1, <3>2 DEF LiveInv, Spent
  <2>11. SpentOnce'
    BY <1>5 DEF ApprovalInv, SpentOnce
  <2>12. DecidedOnce'
    <3>1. \A n \in DOMAIN grants : grants[n] # k
      BY <1>1 DEF ApprovalInv, DecidedOnce
    <3>2. \A m, n \in DOMAIN grants' : grants'[m] = grants'[n] => m = n
      BY <2>3, <2>4, <3>1 DEF ApprovalInv, DecidedOnce
    <3>3. \A n \in DOMAIN grants' : items'[grants'[n]].status \notin {"pending", "rejected"}
      BY <1>2, <1>4, <1>8, <2>3, <2>4, <3>1 DEF ApprovalInv, DecidedOnce
    <3> QED  BY <3>2, <3>3 DEF DecidedOnce
  <2>13. SubmitInv'
    BY <1>5 DEF SubmitInv
  <2> QED  BY <2>6, <2>9, <2>10, <2>11, <2>12, <2>13 DEF ApprovalInv
<1> QED  BY <1>1, <1>7, <1>8

LEMMA ApprovalStep == ApprovalInv /\ [ApprovalNext]_approvalVars => ApprovalInv'
<1> SUFFICES ASSUME ApprovalInv, [ApprovalNext]_approvalVars PROVE ApprovalInv'
  OBVIOUS
<1>1. ASSUME NEW s \in Sessions, NEW i \in Intents, Propose(s, i)
      PROVE  ApprovalInv'
  BY <1>1, HoldStep, LookUpStep, AnswerStep, FinishStep DEF Propose
<1>2. ASSUME NEW k \in DOMAIN items,
             Overdue(k) \/ \E d \in {"approve", "reject"} : Submit(k, d)
      PROVE  ApprovalInv'
  BY <1>2, OverdueStep, SubmitStep
<1>3. CASE UNCHANGED approvalVars
  BY <1>3 DEF approvalVars, ApprovalInv, ApprovalTypes, SubmitInv, FoundInv, LiveInv,
              SpentOnce, DecidedOnce, Spent
<1> QED  BY <1>1, <1>2, <1>3, ListStep, ResolveStep, LapseStep DEF ApprovalNext

(* However often an intent is proposed, from whichever sessions and        *)
(* threads, an approval lets no call through once an order under it is     *)
(* committed and consume has returned, and a pending item gives at most    *)
(* one approval.                                                           *)
THEOREM ApprovalUsedOnce == ApprovalSpec => []ApprovedOnce
<1>1. ApprovalInv => ApprovedOnce
  BY DEF ApprovalInv, ApprovedOnce
<1> QED  BY <1>1, ApprovalStart, ApprovalStep, PTL DEF ApprovalSpec

-----------------------------------------------------------------------------
(* The daily call budget.  What a run has reserved and neither used nor    *)
(* given back is counted, so that a refund never takes off a call that was *)
(* made.  A day that began with no run under way is counted from its start.*)

RunRecordType ==
  [pc : {"idle", "reserved", "running", "ended"}, asked : 0 .. MaxSteps,
   steps : 0 .. MaxSteps, kept : 0 .. MaxSteps]

Owing(c) == IF c.kept > c.asked THEN c.kept - c.asked ELSE 0

Owed == [r \in Runs |-> Owing(run[r])]

(* A run asks once for each step, and once more at a time.  What has been  *)
(* given back is no more than what `progress' left open.                   *)
Shaped(c) ==
  /\ c.steps <= c.asked /\ c.asked <= c.steps + 1
  /\ c.pc = "idle" => c = NoRun
  /\ c.pc = "reserved" => c.asked = 0 /\ c.kept = MaxSteps

StepsInv == \A r \in Runs : Shaped(run[r])

CountedInv ==
  today \notin crossed =>
    \/ day = today /\ made[today] + Total(Runs, Owed) <= used + beyond[today]
    \/ day # today /\ made[today] = 0 /\ \A r \in Runs : run[r].pc = "idle"

AheadInv ==
  \A d \in 1 .. MaxDay : /\ beyond[d] <= made[d]
                         /\ d > today => made[d] = 0 /\ d \notin crossed

BudgetInv ==
  BudgetTypes /\ StepsInv /\ CountedInv /\ AheadInv /\ QuietDayHeld

LEMMA Bounds ==
  /\ MaxSteps \in Nat /\ Ceiling \in Nat /\ MaxDay \in Nat \ {0} /\ MaxMade \in Nat
  /\ IsFiniteSet(Runs)
BY BudgetAssumption

LEMMA RefundMax ==
  ASSUME NEW a \in Int
  PROVE  Max({0, a}) = IF a > 0 THEN a ELSE 0
<1> DEFINE m == IF a > 0 THEN a ELSE 0
<1>1. m \in {0, a} /\ \A y \in {0, a} : m >= y
  OBVIOUS
<1>2. \A x \in {0, a} : (\A y \in {0, a} : x >= y) => x = m
  OBVIOUS
<1> QED  BY <1>1, <1>2 DEF Max

LEMMA OwingNat ==
  ASSUME NEW c \in RunRecordType
  PROVE  Owing(c) \in Nat
BY Bounds DEF Owing, RunRecordType

LEMMA OwedNat ==
  ASSUME BudgetTypes
  PROVE  /\ \A r \in Runs : Owed[r] = Owing(run[r]) /\ Owed[r] \in Nat
         /\ Total(Runs, Owed) \in Nat
<1>1. \A r \in Runs : run[r] \in RunRecordType
  BY DEF BudgetTypes, RunRecordType
<1>2. \A r \in Runs : Owed[r] = Owing(run[r]) /\ Owed[r] \in Nat
  BY <1>1, OwingNat DEF Owed
<1> QED  BY <1>2, UnitsFinite, Bounds

LEMMA NothingOwed ==
  ASSUME \A r \in Runs : run[r] = NoRun
  PROVE  Total(Runs, Owed) = 0
<1>1. Owing(NoRun) = 0
  BY DEF Owing, NoRun
<1>2. \A r \in Runs : Owed[r] = 0
  BY <1>1 DEF Owed
<1> QED  BY <1>2, TotalNothing

(* The step of one run changes what is owed by what the run owes.          *)
LEMMA OwedStep ==
  ASSUME BudgetTypes, NEW r \in Runs, NEW c \in RunRecordType,
         run' = [run EXCEPT ![r] = c]
  PROVE  /\ Owing(c) \in Nat /\ Owing(run[r]) \in Nat
         /\ Total(Runs, Owed) \in Nat /\ Total(Runs, Owed') \in Nat
         /\ Total(Runs, Owed') + Owing(run[r]) = Total(Runs, Owed) + Owing(c)
<1>1. \A q \in Runs : Owed[q] = Owing(run[q]) /\ Owed[q] \in Nat
  BY OwedNat
<1>2. run \in [Runs -> RunRecordType]
  BY DEF BudgetTypes, RunRecordType
<1>3. run'[r] = c /\ \A q \in Runs : run'[q] = IF q = r THEN c ELSE run[q]
  BY <1>2
<1>4. \A q \in Runs : Owed'[q] = Owing(run'[q])
  BY DEF Owed
<1>5. \A q \in Runs : q # r => Owed'[q] = Owed[q]
  BY <1>1, <1>3, <1>4
<1>6. Owed'[r] = Owing(c) /\ Owing(c) \in Nat
  BY <1>3, <1>4, OwingNat
<1> DEFINE a == Owed
           b == Owed'
<1>7. \A q \in Runs : a[q] \in Nat /\ b[q] \in Nat /\ (q # r => b[q] = a[q])
  BY <1>1, <1>5, <1>6
<1>8. a[r] = Owing(run[r]) /\ b[r] = Owing(c)
  BY <1>1, <1>6
<1> HIDE DEF a, b
<1>9. /\ Total(Runs, a) \in Nat /\ Total(Runs, b) \in Nat
      /\ Total(Runs, b) + a[r] = Total(Runs, a) + b[r]
  BY <1>7, Bounds, TotalUpdate
<1> QED  BY <1>7, <1>8, <1>9 DEF a, b

LEMMA BudgetStart == BudgetInit => BudgetInv
<1> SUFFICES ASSUME BudgetInit PROVE BudgetInv
  OBVIOUS
<1>1. NoRun \in RunRecordType /\ Shaped(NoRun)
  BY Bounds DEF NoRun, RunRecordType, Shaped
<1>2. BudgetTypes
  BY Bounds, <1>1 DEF BudgetInit, BudgetTypes, RunRecordType
<1>3. \A r \in Runs : run[r] = NoRun
  BY DEF BudgetInit
<1>4. Total(Runs, Owed) = 0
  BY <1>3, NothingOwed
<1>5. StepsInv
  BY <1>1, <1>3 DEF StepsInv
<1>6. CountedInv /\ AheadInv /\ QuietDayHeld
  BY Bounds, <1>4 DEF BudgetInit, CountedInv, AheadInv, QuietDayHeld
<1> QED  BY <1>2, <1>5, <1>6 DEF BudgetInv

LEMMA RolledRange ==
  ASSUME BudgetTypes
  PROVE  /\ Rolled \in 0 .. Ceiling /\ used \in 0 .. Ceiling /\ day \in Int
         /\ today \in 1 .. MaxDay /\ day \in 1 .. today /\ today \in 1 .. today
         /\ made[today] \in Nat /\ beyond[today] \in Nat
BY Bounds DEF BudgetTypes, Rolled

(* What is owed on a quiet day is in the rolled count.                     *)
LEMMA QuietCount ==
  ASSUME BudgetInv, today \notin crossed
  PROVE  /\ made[today] + Total(Runs, Owed) <= Rolled + beyond[today]
         /\ (\E r \in Runs : run[r].pc # "idle") => day = today /\ Rolled = used
<1>0. BudgetTypes /\ StepsInv /\ CountedInv
  BY DEF BudgetInv
<1>1. CASE day = today /\ made[today] + Total(Runs, Owed) <= used + beyond[today]
  BY <1>1 DEF Rolled
<1>2. CASE day # today /\ made[today] = 0 /\ \A r \in Runs : run[r].pc = "idle"
  <2>1. \A r \in Runs : run[r] = NoRun
    BY <1>0, <1>2 DEF StepsInv, Shaped
  <2>2. Total(Runs, Owed) = 0
    BY <2>1, NothingOwed
  <2> QED  BY <1>0, <1>2, <2>2, RolledRange
<1> QED  BY <1>0, <1>1, <1>2 DEF CountedInv

(* A step within a day keeps the count, if what it adds to the calls made  *)
(* and to what is owed it adds to the counter or to what goes beyond it.   *)
LEMMA MoveStep ==
  ASSUME BudgetInv, BudgetTypes', StepsInv', UNCHANGED <<today, crossed>>,
         \A d \in 1 .. MaxDay :
           d # today => made'[d] = made[d] /\ beyond'[d] = beyond[d],
         beyond'[today] <= made'[today],
         today \notin crossed =>
           /\ day' = today
           /\ made'[today] + Total(Runs, Owed') <= used' + beyond'[today]
  PROVE  BudgetInv'
<1>0. BudgetTypes /\ AheadInv /\ QuietDayHeld
  BY DEF BudgetInv
<1>1. CountedInv'
  BY DEF CountedInv
<1>2. AheadInv'
  <2>1. today \in 1 .. MaxDay /\ today \in Int /\ \A d \in 1 .. MaxDay : d > today => d # today
    BY <1>0, Bounds DEF BudgetTypes
  <2> QED  BY <1>0, <2>1 DEF AheadInv
<1>3. QuietDayHeld'
  <2> SUFFICES ASSUME NEW d \in 1 .. MaxDay, d \notin crossed
               PROVE  made'[d] <= Ceiling + beyond'[d]
    BY DEF QuietDayHeld
  <2>1. CASE d # today
    BY <2>1, <1>0 DEF QuietDayHeld
  <2>2. CASE d = today
    <3>1. /\ made'[today] \in Nat /\ beyond'[today] \in Nat
          /\ used' \in 0 .. Ceiling /\ Ceiling \in Nat
      BY <2>2, Bounds DEF BudgetTypes
    <3>2. Total(Runs, Owed') \in Nat
      <4>1. \A q \in Runs : run'[q] \in RunRecordType
        BY DEF BudgetTypes, RunRecordType
      <4>2. \A q \in Runs : Owed'[q] \in Nat
        BY <4>1, OwingNat DEF Owed
      <4> QED  BY <4>2, Bounds, UnitsFinite
    <3> QED  BY <2>2, <3>1, <3>2
  <2> QED  BY <2>1, <2>2
<1> QED  BY <1>1, <1>2, <1>3 DEF BudgetInv

(* The same, of a step that makes no call.                                 *)
LEMMA SilentStep ==
  ASSUME BudgetInv, NEW r \in Runs, NEW c \in RunRecordType, Shaped(c),
         run' = [run EXCEPT ![r] = c], UNCHANGED <<today, made, beyond, crossed>>,
         used' \in 0 .. Ceiling, day' \in 1 .. today,
         today \notin crossed =>
           day' = today /\ Owing(c) - Owing(run[r]) <= used' - Rolled
  PROVE  BudgetInv'
<1>0. BudgetTypes /\ StepsInv /\ AheadInv
  BY DEF BudgetInv
<1>1. run \in [Runs -> RunRecordType]
  BY <1>0 DEF BudgetTypes, RunRecordType
<1>2. /\ run' \in [Runs -> RunRecordType]
      /\ \A q \in Runs : run'[q] = IF q = r THEN c ELSE run[q]
  BY <1>1
<1>3. BudgetTypes'
  BY <1>0, <1>2 DEF BudgetTypes, RunRecordType
<1>4. StepsInv'
  BY <1>0, <1>2 DEF StepsInv
<1>5. beyond'[today] <= made'[today]
  BY <1>0, RolledRange DEF AheadInv
<1>6. ASSUME today \notin crossed
      PROVE  /\ day' = today
             /\ made'[today] + Total(Runs, Owed') <= used' + beyond'[today]
  <2>1. made[today] + Total(Runs, Owed) <= Rolled + beyond[today]
    BY <1>6, QuietCount
  <2>2. /\ Owing(c) \in Nat /\ Owing(run[r]) \in Nat
        /\ Total(Runs, Owed) \in Nat /\ Total(Runs, Owed') \in Nat
        /\ Total(Runs, Owed') + Owing(run[r]) = Total(Runs, Owed) + Owing(c)
    BY <1>0, OwedStep
  <2>3. Rolled \in Int /\ used' \in Int /\ made[today] \in Int /\ beyond[today] \in Int
    BY <1>0, RolledRange, Bounds
  <2> QED  BY <1>6, <2>1, <2>2, <2>3
<1> QED  BY <1>3, <1>4, <1>5, <1>6, MoveStep

LEMMA ReserveStep ==
  ASSUME BudgetInv, NEW r \in Runs, Reserve(r)
  PROVE  BudgetInv'
<1> DEFINE c == [pc |-> "reserved", asked |-> 0, steps |-> 0, kept |-> MaxSteps]
<1>0. BudgetTypes /\ StepsInv
  BY DEF BudgetInv
<1>1. c \in RunRecordType /\ Shaped(c) /\ Owing(c) = MaxSteps
  BY Bounds DEF NoRun, RunRecordType, Shaped, Owing
<1>2. run' = [run EXCEPT ![r] = c]
  BY DEF Reserve
<1>3. run[r] = NoRun /\ Owing(NoRun) = 0
  BY <1>0 DEF Reserve, StepsInv, Shaped, NoRun, Owing
<1>4. used' = Rolled + MaxSteps /\ Rolled + MaxSteps <= Ceiling /\ day' = today
      /\ UNCHANGED <<today, made, beyond, crossed>>
  BY DEF Reserve, Room
<1>5. used' \in 0 .. Ceiling /\ day' \in 1 .. today
  BY <1>0, <1>4, RolledRange, Bounds
<1>6. Owing(c) - Owing(run[r]) <= used' - Rolled
  BY <1>0, <1>1, <1>3, <1>4, RolledRange, Bounds
<1> HIDE DEF c
<1> QED  BY <1>1, <1>2, <1>4, <1>5, <1>6, SilentStep

LEMMA RefuseStep ==
  ASSUME BudgetInv, NEW r \in Runs, Refuse(r)
  PROVE  BudgetInv'
<1>0. BudgetTypes /\ StepsInv /\ AheadInv
  BY DEF BudgetInv
<1>1. /\ used' = Rolled /\ day' = today
      /\ UNCHANGED <<today, run, made, beyond, crossed>>
  BY DEF Refuse
<1>2. BudgetTypes'
  BY <1>0, <1>1, RolledRange DEF BudgetTypes
<1>3. StepsInv' /\ Total(Runs, Owed') = Total(Runs, Owed)
  BY <1>0, <1>1 DEF StepsInv, Owed
<1>4. beyond'[today] <= made'[today]
  BY <1>0, <1>1, RolledRange DEF AheadInv
<1>5. ASSUME today \notin crossed
      PROVE  /\ day' = today
             /\ made'[today] + Total(Runs, Owed') <= used' + beyond'[today]
  BY <1>1, <1>3, <1>5, QuietCount
<1> QED  BY <1>1, <1>2, <1>3, <1>4, <1>5, MoveStep

(* What is taken off the counter is no more than what is no longer owed.   *)
LEMMA GiveBack ==
  ASSUME BudgetInv, NEW r \in Runs, NEW c \in RunRecordType, Shaped(c),
         NEW n \in Nat, n <= Owing(run[r]) - Owing(c), run[r].pc # "idle",
         Refund(n), run' = [run EXCEPT ![r] = c],
         UNCHANGED <<today, day, made, beyond, crossed>>
  PROVE  BudgetInv'
<1>0. BudgetTypes
  BY DEF BudgetInv
<1>1. used \in Nat /\ used <= Ceiling /\ Ceiling \in Nat /\ day \in 1 .. today
  BY <1>0, Bounds DEF BudgetTypes
<1>2. used' = IF used - n > 0 THEN used - n ELSE 0
  BY <1>1, RefundMax DEF Refund
<1>3. used' \in 0 .. Ceiling /\ used' >= used - n /\ used' \in Nat
  BY <1>1, <1>2
<1>4. Owing(c) \in Nat /\ Owing(run[r]) \in Nat
  BY <1>0, OwingNat DEF BudgetTypes, RunRecordType
<1>5. ASSUME today \notin crossed
      PROVE  day' = today /\ Owing(c) - Owing(run[r]) <= used' - Rolled
  <2>1. day = today /\ Rolled = used
    BY <1>5, QuietCount
  <2> QED  BY <1>1, <1>3, <1>4, <2>1
<1> QED  BY <1>1, <1>3, <1>5, SilentStep

LEMMA IdleRun == NoRun \in RunRecordType /\ Shaped(NoRun) /\ Owing(NoRun) = 0
BY Bounds DEF NoRun, RunRecordType, Shaped, Owing

LEMMA NoProviderStep ==
  ASSUME BudgetInv, NEW r \in Runs, NoProvider(r)
  PROVE  BudgetInv'
<1>1. run[r].pc = "reserved" /\ run[r].asked = 0 /\ run[r].kept = MaxSteps
  BY DEF NoProvider, BudgetInv, StepsInv, Shaped
<1>2. MaxSteps <= Owing(run[r]) - Owing(NoRun)
  BY <1>1, IdleRun, Bounds DEF Owing
<1>3. /\ Refund(MaxSteps) /\ run' = [run EXCEPT ![r] = NoRun]
      /\ UNCHANGED <<today, day, made, beyond, crossed>>
  BY DEF NoProvider
<1> QED  BY <1>1, <1>2, <1>3, IdleRun, Bounds, GiveBack

(* A run under way moves without touching the counter, and owes no more.   *)
LEMMA KeepStep ==
  ASSUME BudgetInv, NEW r \in Runs, NEW c \in RunRecordType, Shaped(c),
         Owing(c) <= Owing(run[r]), run[r].pc # "idle",
         run' = [run EXCEPT ![r] = c],
         UNCHANGED <<today, day, used, made, beyond, crossed>>
  PROVE  BudgetInv'
<1>0. BudgetTypes
  BY DEF BudgetInv
<1>1. used \in 0 .. Ceiling /\ day \in 1 .. today /\ used \in Nat
  BY <1>0, Bounds, RolledRange
<1>2. Owing(c) \in Nat /\ Owing(run[r]) \in Nat
  BY <1>0, OwingNat DEF BudgetTypes, RunRecordType
<1>3. ASSUME today \notin crossed
      PROVE  day' = today /\ Owing(c) - Owing(run[r]) <= used' - Rolled
  <2>1. day = today /\ Rolled = used
    BY <1>3, QuietCount
  <2> QED  BY <1>1, <1>2, <2>1
<1> QED  BY <1>1, <1>3, SilentStep

LEMMA NeverBegunStep ==
  ASSUME BudgetInv, NEW r \in Runs, NeverBegun(r)
  PROVE  BudgetInv'
<1>1. run[r] \in RunRecordType
  BY DEF BudgetInv, BudgetTypes, RunRecordType
<1>2. Owing(NoRun) <= Owing(run[r])
  BY <1>1, IdleRun, OwingNat
<1> QED  BY <1>2, IdleRun, KeepStep DEF NeverBegun

LEMMA BeginStep ==
  ASSUME BudgetInv, NEW r \in Runs, Begin(r)
  PROVE  BudgetInv'
<1> DEFINE c == [run[r] EXCEPT !.pc = "running"]
<1>1. run[r] \in RunRecordType /\ Shaped(run[r])
  BY DEF BudgetInv, BudgetTypes, RunRecordType, StepsInv
<1>2. c \in RunRecordType /\ Shaped(c)
  BY <1>1 DEF RunRecordType, Shaped
<1>3. Owing(c) <= Owing(run[r])
  <2>1. Owing(c) = Owing(run[r])
    BY <1>1 DEF Owing, RunRecordType
  <2> QED  BY <1>1, <2>1, OwingNat
<1>4. run' = [run EXCEPT ![r] = c]
  BY <1>1 DEF Begin, BudgetInv, BudgetTypes
<1>5. /\ run[r].pc # "idle"
      /\ UNCHANGED <<today, day, used, made, beyond, crossed>>
  BY DEF Begin
<1> HIDE DEF c
<1> QED  BY <1>2, <1>3, <1>4, <1>5, KeepStep

LEMMA AnsweredStep ==
  ASSUME BudgetInv, NEW r \in Runs, NEW wasLast \in BOOLEAN, Answered(r, wasLast)
  PROVE  BudgetInv'
<1> DEFINE c == IF wasLast THEN [run[r] EXCEPT !.pc = "ended"]
                   ELSE [run[r] EXCEPT !.steps = @ + 1]
<1>1. run[r] \in RunRecordType /\ Shaped(run[r])
  BY DEF BudgetInv, BudgetTypes, RunRecordType, StepsInv
<1>2. run[r].pc = "running" /\ run[r].asked = run[r].steps + 1
  BY <1>1, Bounds DEF Answered, RunRecordType, Shaped
<1>3. c \in RunRecordType /\ Shaped(c) /\ Owing(c) = Owing(run[r])
  <2>1. CASE wasLast
    BY <1>1, <1>2, <2>1 DEF RunRecordType, Shaped, Owing
  <2>2. CASE ~wasLast
    BY <1>1, <1>2, <2>2, Bounds DEF RunRecordType, Shaped, Owing
  <2> QED  BY <2>1, <2>2
<1>4. Owing(c) <= Owing(run[r])
  BY <1>1, <1>3, OwingNat
<1>5. run' = [run EXCEPT ![r] = c]
  BY DEF Answered
<1>6. UNCHANGED <<today, day, used, made, beyond, crossed>>
  BY DEF Answered
<1> HIDE DEF c
<1> QED  BY <1>2, <1>3, <1>4, <1>5, <1>6, KeepStep

LEMMA UnusedFits ==
  ASSUME BudgetInv, NEW r \in Runs, Held(r)
  PROVE  /\ run[r] \in RunRecordType /\ Shaped(run[r]) /\ run[r].kept = MaxSteps
         /\ Unused(r) \in 0 .. MaxSteps /\ run[r].asked <= MaxSteps - Unused(r)
         /\ Unused(r) <= Owing(run[r]) /\ run[r].pc \in {"running", "ended"}
<1>1. run[r] \in RunRecordType /\ Shaped(run[r]) /\ run[r].kept = MaxSteps
      /\ run[r].pc \in {"running", "ended"}
  BY DEF Held, BudgetInv, BudgetTypes, RunRecordType, StepsInv
<1>2. /\ run[r].steps \in 0 .. MaxSteps /\ run[r].asked \in 0 .. MaxSteps
      /\ run[r].asked <= run[r].steps + 1
  BY <1>1 DEF RunRecordType, Shaped
<1>3. Unused(r) = IF MaxSteps - (run[r].steps + 1) > 0
                  THEN MaxSteps - (run[r].steps + 1) ELSE 0
  <2>1. MaxSteps - (run[r].steps + 1) \in Int
    BY <1>2, Bounds
  <2>2. Unused(r) = Max({0, MaxSteps - (run[r].steps + 1)})
    BY DEF Unused
  <2> QED  BY <2>1, <2>2, RefundMax
<1> QED  BY <1>1, <1>2, <1>3, Bounds DEF Owing

LEMMA LeaveStep ==
  ASSUME BudgetInv, NEW r \in Runs, Leave(r)
  PROVE  BudgetInv'
<1> DEFINE n == Unused(r)
           c == [run[r] EXCEPT !.kept = MaxSteps - n]
<1>1. /\ run[r] \in RunRecordType /\ Shaped(run[r]) /\ run[r].kept = MaxSteps
      /\ n \in 0 .. MaxSteps /\ run[r].asked <= MaxSteps - n
      /\ run[r].pc \in {"running", "ended"}
  BY UnusedFits DEF Leave
<1>2. /\ Refund(n) /\ run' = [run EXCEPT ![r].kept = MaxSteps - n]
      /\ UNCHANGED <<today, day, made, beyond, crossed>>
  BY DEF Leave
<1> HIDE DEF n
<1>3. run' = [run EXCEPT ![r] = c]
  BY <1>2 DEF BudgetInv, BudgetTypes
<1>4. c \in RunRecordType /\ Shaped(c)
  BY <1>1, Bounds DEF RunRecordType, Shaped
<1>5. Owing(c) = MaxSteps - n - run[r].asked /\ Owing(run[r]) = MaxSteps - run[r].asked
  BY <1>1, Bounds DEF RunRecordType, Owing
<1>6. n \in Nat /\ n <= Owing(run[r]) - Owing(c) /\ run[r].pc # "idle"
  BY <1>1, <1>5, Bounds DEF RunRecordType
<1> HIDE DEF c
<1> QED  BY <1>2, <1>3, <1>4, <1>6, GiveBack

LEMMA EndStep ==
  ASSUME BudgetInv, NEW r \in Runs, End(r)
  PROVE  BudgetInv'
<1>1. /\ run' = [run EXCEPT ![r] = NoRun] /\ run[r].pc # "idle"
      /\ UNCHANGED <<today, day, made, beyond, crossed>>
  BY DEF End
<1>2. CASE Held(r)
  <2>1. Refund(Unused(r))
    BY <1>2 DEF End
  <2>2. Unused(r) \in Nat /\ Unused(r) <= Owing(run[r]) - Owing(NoRun)
    BY <1>2, UnusedFits, OwingNat, IdleRun, Bounds
  <2> QED  BY <1>1, <2>1, <2>2, IdleRun, GiveBack
<1>3. CASE ~Held(r)
  <2>1. UNCHANGED used
    BY <1>3 DEF End
  <2>2. run[r] \in RunRecordType
    BY DEF BudgetInv, BudgetTypes, RunRecordType
  <2>3. Owing(NoRun) <= Owing(run[r])
    BY <2>2, OwingNat, IdleRun
  <2> QED  BY <1>1, <2>1, <2>3, IdleRun, KeepStep
<1> QED  BY <1>2, <1>3

(* A call the run had reserved is no longer owed; any other goes beyond.   *)
LEMMA AskModelStep ==
  ASSUME BudgetInv, NEW r \in Runs, NEW n \in 1 .. Attempts, AskModel(r, n)
  PROVE  BudgetInv'
<1> DEFINE c == [run[r] EXCEPT !.asked = @ + 1]
           more == IF run[r].asked < run[r].kept THEN n - 1 ELSE n
<1>0. BudgetTypes /\ StepsInv /\ AheadInv
  BY DEF BudgetInv
<1>1. /\ run[r] \in RunRecordType /\ Shaped(run[r])
      /\ run[r].asked \in 0 .. MaxSteps /\ run[r].kept \in 0 .. MaxSteps
      /\ run \in [Runs -> RunRecordType]
  BY <1>0 DEF BudgetTypes, RunRecordType, StepsInv
<1>2. run[r].pc = "running" /\ run[r].asked = run[r].steps /\ run[r].asked < MaxSteps
      /\ made[today] + n <= MaxMade /\ run' = [run EXCEPT ![r].asked = @ + 1]
      /\ UNCHANGED <<today, day, used, crossed>>
  BY DEF AskModel
<1>3. n \in Nat /\ n >= 1 /\ more \in Nat /\ more <= n
      /\ more + (IF run[r].asked < run[r].kept THEN 1 ELSE 0) = n
  OBVIOUS
<1>4. run' = [run EXCEPT ![r] = c]
  BY <1>1, <1>2
<1>5. c \in RunRecordType /\ Shaped(c)
  BY <1>1, <1>2, Bounds DEF RunRecordType, Shaped
<1>6. Owing(run[r]) = Owing(c) + (IF run[r].asked < run[r].kept THEN 1 ELSE 0)
  BY <1>1, <1>2, Bounds DEF RunRecordType, Owing
<1>7. /\ made' = [made EXCEPT ![today] = @ + n]
      /\ beyond' = [beyond EXCEPT ![today] = @ + more]
  <2>1. beyond' = [beyond EXCEPT
          ![today] = IF run[r].asked < run[r].kept THEN @ + n - 1 ELSE @ + n]
    BY DEF AskModel
  <2>2. beyond[today] \in Nat
    BY <1>0, RolledRange
  <2>3. beyond[today] + more =
          IF run[r].asked < run[r].kept THEN beyond[today] + n - 1 ELSE beyond[today] + n
    BY <1>3, <2>2
  <2>4. made' = [made EXCEPT ![today] = @ + n]
    BY DEF AskModel
  <2> QED  BY <2>1, <2>3, <2>4
<1> HIDE DEF c, more
<1>8. today \in 1 .. MaxDay /\ made \in [1 .. MaxDay -> 0 .. MaxMade]
      /\ beyond \in [1 .. MaxDay -> 0 .. MaxMade] /\ beyond[today] <= made[today]
      /\ made[today] \in Nat /\ beyond[today] \in Nat
  BY <1>0, RolledRange DEF BudgetTypes, AheadInv
<1>9. made[today] + n \in 0 .. MaxMade /\ beyond[today] + more \in 0 .. MaxMade
      /\ beyond[today] + more <= made[today] + n
  BY <1>2, <1>3, <1>8, Bounds
<1>10. /\ made' \in [1 .. MaxDay -> 0 .. MaxMade]
       /\ beyond' \in [1 .. MaxDay -> 0 .. MaxMade]
       /\ made'[today] = made[today] + n /\ beyond'[today] = beyond[today] + more
       /\ \A d \in 1 .. MaxDay :
            d # today => made'[d] = made[d] /\ beyond'[d] = beyond[d]
  BY <1>7, <1>8, <1>9
<1>11. /\ run' \in [Runs -> RunRecordType]
       /\ \A q \in Runs : run'[q] = IF q = r THEN c ELSE run[q]
  BY <1>1, <1>4, <1>5
<1>12. BudgetTypes'
  BY <1>0, <1>2, <1>10, <1>11 DEF BudgetTypes, RunRecordType
<1>13. StepsInv'
  BY <1>0, <1>5, <1>11 DEF StepsInv
<1>14. ASSUME today \notin crossed
       PROVE  /\ day' = today
              /\ made'[today] + Total(Runs, Owed') <= used' + beyond'[today]
  <2>1. /\ made[today] + Total(Runs, Owed) <= Rolled + beyond[today]
        /\ day = today /\ Rolled = used
    BY <1>2, <1>14, QuietCount
  <2>2. /\ Owing(c) \in Nat /\ Owing(run[r]) \in Nat
        /\ Total(Runs, Owed) \in Nat /\ Total(Runs, Owed') \in Nat
        /\ Total(Runs, Owed') + Owing(run[r]) = Total(Runs, Owed) + Owing(c)
    BY <1>0, <1>4, <1>5, OwedStep
  <2>3. used \in Nat
    BY <1>0, RolledRange, Bounds
  <2>4. Total(Runs, Owed') + n = Total(Runs, Owed) + more
    BY <1>3, <1>6, <2>2
  <2>5. /\ UNCHANGED <<used, day>> /\ made'[today] = made[today] + n
        /\ beyond'[today] = beyond[today] + more
    BY <1>2, <1>10
  <2>6. made[today] + n + Total(Runs, Owed') <= used + (beyond[today] + more)
    <3> DEFINE o == Total(Runs, Owed)
               p == Total(Runs, Owed')
               m == made[today]
               b == beyond[today]
    <3>1. o \in Nat /\ p \in Nat /\ m \in Nat /\ b \in Nat /\ p + n = o + more
          /\ m + o <= used + b /\ n \in Nat /\ more \in Nat
      BY <1>3, <1>8, <2>1, <2>2, <2>4
    <3> HIDE DEF o, p, m, b
    <3>2. m + n + p <= used + (b + more)
      BY <2>3, <3>1
    <3> QED  BY <3>2 DEF o, p, m, b
  <2> QED  BY <2>1, <2>5, <2>6
<1> QED  BY <1>2, <1>9, <1>10, <1>12, <1>13, <1>14, MoveStep

LEMMA MidnightStep ==
  ASSUME BudgetInv, Midnight
  PROVE  BudgetInv'
<1>0. BudgetTypes /\ StepsInv /\ AheadInv /\ QuietDayHeld
  BY DEF BudgetInv
<1>1. /\ today \in 1 .. MaxDay /\ today < MaxDay /\ today' = today + 1
      /\ UNCHANGED <<day, used, run, made, beyond>>
      /\ crossed' = IF \E r \in Runs : run[r].pc # "idle"
                    THEN crossed \cup {today + 1} ELSE crossed
  BY <1>0 DEF Midnight, BudgetTypes
<1>2. today' \in 2 .. MaxDay /\ today \in Nat /\ day \in 1 .. today /\ day # today'
      /\ day \in 1 .. today'
  BY <1>0, <1>1, Bounds DEF BudgetTypes
<1>3. crossed' \subseteq 2 .. MaxDay /\ crossed \subseteq crossed'
  BY <1>0, <1>1, <1>2 DEF BudgetTypes
<1>4. BudgetTypes' /\ StepsInv'
  BY <1>0, <1>1, <1>2, <1>3 DEF BudgetTypes, StepsInv
<1>5. AheadInv'
  <2>1. \A d \in 1 .. MaxDay : d > today' => d > today /\ d # today + 1
    BY <1>1, <1>2
  <2> QED  BY <1>0, <1>1, <2>1 DEF AheadInv
<1>6. CountedInv'
  <2> SUFFICES ASSUME today' \notin crossed'
               PROVE  /\ day' # today' /\ made'[today'] = 0
                      /\ \A r \in Runs : run'[r].pc = "idle"
    BY DEF CountedInv
  <2>1. made[today'] = 0
    BY <1>0, <1>1, <1>2 DEF AheadInv
  <2>2. \A r \in Runs : run[r].pc = "idle"
    BY <1>1
  <2> QED  BY <1>1, <1>2, <2>1, <2>2
<1>7. QuietDayHeld'
  BY <1>0, <1>1, <1>3 DEF QuietDayHeld
<1> QED  BY <1>4, <1>5, <1>6, <1>7 DEF BudgetInv

LEMMA BudgetStep ==
  ASSUME BudgetInv, [BudgetNext]_budgetVars
  PROVE  BudgetInv'
<1>1. CASE UNCHANGED budgetVars
  BY <1>1 DEF budgetVars, BudgetInv, BudgetTypes, StepsInv, CountedInv, AheadInv,
              QuietDayHeld, Owed
<1> QED  BY <1>1, ReserveStep, RefuseStep, NoProviderStep, NeverBegunStep, BeginStep,
            AskModelStep, AnsweredStep, LeaveStep, EndStep, MidnightStep DEF BudgetNext

LEMMA CountCovered ==
  ASSUME BudgetInv
  PROVE  CallsCounted
<1>0. BudgetTypes /\ CountedInv /\ QuietDayHeld
  BY DEF BudgetInv
<1> SUFFICES ASSUME today = 1
             PROVE  made[1] + Total(Runs, [r \in Runs |-> Ahead(r)]) <= used + beyond[1]
  BY <1>0 DEF CallsCounted, CountCovers
<1>1. 1 \notin crossed /\ day = today
  BY <1>0 DEF BudgetTypes
<1>2. made[1] + Total(Runs, Owed) <= used + beyond[1]
  BY <1>0, <1>1 DEF CountedInv
<1>3. \A r \in Runs : Ahead(r) = Owing(run[r])
  <2> SUFFICES ASSUME NEW r \in Runs PROVE Ahead(r) = Owing(run[r])
    OBVIOUS
  <2>1. run[r].kept - run[r].asked \in Int
        /\ (run[r].kept - run[r].asked > 0 <=> run[r].kept > run[r].asked)
    BY <1>0, Bounds DEF BudgetTypes
  <2>2. Ahead(r) = Max({0, run[r].kept - run[r].asked})
    BY DEF Ahead
  <2> QED  BY <2>1, <2>2, RefundMax DEF Owing
<1>4. [r \in Runs |-> Ahead(r)] = Owed
  BY <1>3 DEF Owed
<1> QED  BY <1>2, <1>4

(* With any number of runs, any step limit and any number of repeated      *)
(* requests, the calls of a day that began without a run under way exceed  *)
(* the ceiling by no more than those that nothing was reserved for, and on *)
(* the first day the counter covers the calls made and those to come.      *)
THEOREM CallsAreCounted == BudgetSpec => []CallsCounted
<1> QED  BY BudgetStep, BudgetStart, CountCovered, PTL DEF BudgetSpec

-----------------------------------------------------------------------------
(* The file of the ledger.  The lines before an open one are settled: only *)
(* appends come after them.  Each write cut short pays for an open line,   *)
(* for a key whose settled entry is not the one last returned, or for a    *)
(* key reserved again.                                                     *)

ReadLines(f, k) == {n \in DOMAIN f : f[n] # Torn /\ f[n].key = k}

EntryIn(f, k) ==
  IF ReadLines(f, k) = {} THEN "none"
  ELSE f[CHOOSE n \in ReadLines(f, k) : \A m \in ReadLines(f, k) : m <= n].state

HasLast(f) ==
  \A k \in Keys : ReadLines(f, k) # {} =>
    \E n \in ReadLines(f, k) : \A m \in ReadLines(f, k) : m <= n

Text == Line \cup {Torn}

Settled == IF open THEN SubSeq(lines, 1, Len(lines) - 1) ELSE lines

Lost(f, ret) == {k \in Keys : EntryIn(f, k) # ret[k]}

TornPays ==
  Cardinality(Lost(Settled, returned)) + again + (IF open THEN 1 ELSE 0) <= tears

OpenLine == open => \E l \in Text : lines = Append(Settled, l)

FileInv ==
  FileTypes /\ Settled \in Seq(Text) /\ HasLast(Settled) /\ OpenLine /\ TornPays

LEMMA EntryIs ==
  ASSUME NEW k
  PROVE  Entry(k) = EntryIn(lines, k)
<1>1. {n \in Readable : lines[n].key = k} = ReadLines(lines, k)
  BY DEF Readable, ReadLines
<1> DEFINE a == {n \in Readable : lines[n].key = k}
           b == ReadLines(lines, k)
<1>2. Entry(k) = IF a = {} THEN "none"
                 ELSE lines[CHOOSE n \in a : \A m \in a : m <= n].state
  BY DEF Entry
<1>3. EntryIn(lines, k) = IF b = {} THEN "none"
                          ELSE lines[CHOOSE n \in b : \A m \in b : m <= n].state
  BY DEF EntryIn
<1>4. a = b
  BY <1>1
<1> HIDE DEF a, b
<1> QED  BY <1>2, <1>3, <1>4

LEMMA FrontOfAppend ==
  ASSUME NEW S, NEW f \in Seq(S), NEW l \in S
  PROVE  SubSeq(Append(f, l), 1, Len(Append(f, l)) - 1) = f
<1> DEFINE g == Append(f, l)
           h == SubSeq(g, 1, Len(g) - 1)
<1>1. g \in Seq(S) /\ Len(g) = Len(f) + 1 /\ \A i \in 1 .. Len(f) : g[i] = f[i]
  BY AppendProperties
<1>2. Len(f) \in Nat /\ Len(g) - 1 = Len(f)
  BY <1>1
<1>3. Len(h) = Len(f) /\ \A i \in 1 .. Len(f) : h[i] = g[i]
  BY <1>1, <1>2
<1>4. h \in Seq(S)
  BY <1>1, <1>2
<1> QED  BY <1>1, <1>3, <1>4

LEMMA TextFacts ==
  /\ Torn \notin Line
  /\ \A l \in Line : l # Torn /\ l.key \in Keys /\ l.state \in States
  /\ \A k \in Keys, s \in States : [key |-> k, state |-> s] \in Line
<1>1. \A l \in Line : l.key \in Keys /\ l.state \in States
  BY DEF Line
<1>2. Torn.state = "" /\ "" \notin States
  BY DEF Torn, States
<1>3. \A k \in Keys, s \in States : [key |-> k, state |-> s] \in Line
  BY DEF Line
<1> QED  BY <1>1, <1>2, <1>3

(* An appended line is the entry of its key and of no other; one that      *)
(* cannot be read is nobody's.                                             *)
LEMMA AppendedLines ==
  ASSUME NEW f \in Seq(Text), NEW l \in Text, NEW k \in Keys
  PROVE  ReadLines(Append(f, l), k) =
           IF l # Torn /\ l.key = k THEN ReadLines(f, k) \cup {Len(f) + 1}
           ELSE ReadLines(f, k)
<1> DEFINE g == Append(f, l)
<1>1. /\ DOMAIN f = 1 .. Len(f) /\ Len(f) \in Nat /\ DOMAIN g = 1 .. (Len(f) + 1)
      /\ \A i \in 1 .. Len(f) : g[i] = f[i]
      /\ g[Len(f) + 1] = l
  BY AppendProperties
<1> HIDE DEF g
<1>2. \A n : n \in ReadLines(g, k) <=>
        \/ n \in ReadLines(f, k)
        \/ n = Len(f) + 1 /\ l # Torn /\ l.key = k
  BY <1>1 DEF ReadLines
<1> QED  BY <1>2 DEF g

LEMMA AppendedLast ==
  ASSUME NEW f \in Seq(Text), NEW l \in Text, HasLast(f)
  PROVE  HasLast(Append(f, l))
<1> SUFFICES ASSUME NEW k \in Keys, ReadLines(Append(f, l), k) # {}
             PROVE  \E n \in ReadLines(Append(f, l), k) :
                      \A m \in ReadLines(Append(f, l), k) : m <= n
  BY DEF HasLast
<1>1. ReadLines(f, k) \subseteq 1 .. Len(f) /\ Len(f) \in Nat
  BY DEF ReadLines
<1>2. CASE l # Torn /\ l.key = k
  <2>1. ReadLines(Append(f, l), k) = ReadLines(f, k) \cup {Len(f) + 1}
    BY <1>2, AppendedLines
  <2>2. \A m \in ReadLines(f, k) \cup {Len(f) + 1} : m <= Len(f) + 1
    BY <1>1
  <2> QED  BY <2>1, <2>2
<1>3. CASE ~(l # Torn /\ l.key = k)
  <2>1. ReadLines(Append(f, l), k) = ReadLines(f, k)
    BY <1>3, AppendedLines
  <2> QED  BY <2>1 DEF HasLast
<1> QED  BY <1>2, <1>3

LEMMA AppendedEntry ==
  ASSUME NEW f \in Seq(Text), NEW l \in Text, HasLast(f), NEW k \in Keys
  PROVE  EntryIn(Append(f, l), k) =
           IF l # Torn /\ l.key = k THEN l.state ELSE EntryIn(f, k)
<1> DEFINE g == Append(f, l)
           N == Len(f) + 1
<1>1. /\ Len(f) \in Nat /\ g[N] = l /\ \A i \in 1 .. Len(f) : g[i] = f[i]
  BY AppendProperties
<1>2. ReadLines(f, k) \subseteq 1 .. Len(f)
  BY DEF ReadLines
<1>3. CASE l # Torn /\ l.key = k
  <2>1. ReadLines(g, k) = ReadLines(f, k) \cup {N}
    BY <1>3, AppendedLines
  <2> DEFINE R == ReadLines(g, k)
             c == CHOOSE n \in R : \A m \in R : m <= n
  <2>2. N \in R /\ \A m \in R : m <= N
    BY <2>1, <1>1, <1>2
  <2>3. c \in R /\ \A m \in R : m <= c
    BY <2>2
  <2>4. c \in Int
    BY <2>1, <2>3, <1>1, <1>2
  <2>5. c = N
    BY <2>2, <2>3, <2>4, <1>1
  <2>6. EntryIn(g, k) = g[c].state
    BY <2>2 DEF EntryIn
  <2> HIDE DEF c
  <2> QED  BY <1>1, <1>3, <2>5, <2>6
<1>4. CASE ~(l # Torn /\ l.key = k)
  <2>1. ReadLines(g, k) = ReadLines(f, k)
    BY <1>4, AppendedLines
  <2>2. CASE ReadLines(f, k) = {}
    BY <1>4, <2>1, <2>2 DEF EntryIn
  <2>3. CASE ReadLines(f, k) # {}
    <3> DEFINE R == ReadLines(f, k)
               c == CHOOSE n \in R : \A m \in R : m <= n
    <3>1. \E n \in R : \A m \in R : m <= n
      BY <2>3 DEF HasLast
    <3>2. c \in R
      BY <3>1
    <3>3. EntryIn(g, k) = g[c].state /\ EntryIn(f, k) = f[c].state
      BY <2>1, <2>3 DEF EntryIn
    <3> HIDE DEF c
    <3>4. g[c] = f[c]
      BY <1>1, <1>2, <3>2
    <3> QED  BY <1>4, <3>3, <3>4
  <2> QED  BY <2>2, <2>3
<1> HIDE DEF g
<1> QED  BY <1>3, <1>4 DEF g

LEMMA LostSets ==
  ASSUME NEW A \in SUBSET Keys, NEW B \in SUBSET Keys, NEW k
  PROVE  /\ Cardinality(A) \in Nat /\ Cardinality(B) \in Nat
         /\ B \subseteq A => Cardinality(B) <= Cardinality(A)
         /\ B \subseteq A \cup {k} => Cardinality(B) <= Cardinality(A) + 1
         /\ B \subseteq A \ {k} /\ k \in A => Cardinality(B) + 1 <= Cardinality(A)
<1>1. IsFiniteSet(A) /\ IsFiniteSet(B)
  BY FileAssumption, FS_Subset
<1>2. Cardinality(A) \in Nat /\ Cardinality(B) \in Nat
  BY <1>1, FS_CardinalityType
<1>3. B \subseteq A => Cardinality(B) <= Cardinality(A)
  BY <1>1, FS_Subset
<1>4. /\ IsFiniteSet(A \cup {k}) /\ Cardinality(A \cup {k}) \in Nat
      /\ Cardinality(A \cup {k}) <= Cardinality(A) + 1
  <2>1. /\ IsFiniteSet(A \cup {k})
        /\ Cardinality(A \cup {k})
             = (IF k \in A THEN Cardinality(A) ELSE Cardinality(A) + 1)
    BY <1>1, FS_AddElement
  <2> QED  BY <1>2, <2>1
<1>5. B \subseteq A \cup {k} => Cardinality(B) <= Cardinality(A) + 1
  BY <1>2, <1>4, FS_Subset
<1>6. /\ IsFiniteSet(A \ {k}) /\ (k \in A => Cardinality(A \ {k}) = Cardinality(A) - 1)
  BY <1>1, FS_RemoveElement
<1>7. B \subseteq A \ {k} => Cardinality(B) <= Cardinality(A \ {k})
  BY <1>6, FS_Subset
<1> QED  BY <1>2, <1>3, <1>5, <1>6, <1>7

LEMMA FileStart == FileInit => FileInv
<1> SUFFICES ASSUME FileInit PROVE FileInv
  OBVIOUS
<1>1. Settled = <<>> /\ Settled \in Seq(Text)
  BY DEF FileInit, Settled
<1>2. FileTypes
  <2>1. lines \in Seq(Line \cup {Torn}) /\ open \in BOOLEAN
    BY EmptySeq DEF FileInit
  <2>2. /\ returned \in [Keys -> States \cup {"none"}]
        /\ again \in Nat /\ tears \in 0 .. MaxTears
    BY FileAssumption DEF FileInit
  <2> QED  BY <2>1, <2>2 DEF FileTypes
<1>3. \A k : ReadLines(<<>>, k) = {}
  BY DEF ReadLines
<1>4. HasLast(Settled) /\ OpenLine
  BY <1>1, <1>3 DEF HasLast, OpenLine, FileInit
<1>5. \A k \in Keys : EntryIn(Settled, k) = returned[k]
  BY <1>1, <1>3 DEF EntryIn, FileInit
<1>6. Lost(Settled, returned) = {}
  BY <1>5 DEF Lost
<1>7. TornPays
  BY <1>6, FS_EmptySet DEF TornPays, FileInit
<1> QED  BY <1>1, <1>2, <1>4, <1>7 DEF FileInv

(* a: the reservation was of a key that had an entry before.               *)
LEMMA WriteStep ==
  ASSUME FileInv, NEW k \in Keys, NEW s \in States,
         NEW how \in {"whole", "unended", "part"}, Write(k, s, how),
         NEW a \in {0, 1}, again' = again + a,
         a = 1 => how = "whole" /\ Entry(k) = "none" /\ returned[k] # "none"
  PROVE  FileInv'
<1> DEFINE l == IF open \/ how = "part" THEN Torn ELSE [key |-> k, state |-> s]
           f == Settled
           bad == Lost(Settled, returned)
           bads == Lost(Settled', returned')
<1>0. /\ FileTypes /\ f \in Seq(Text) /\ HasLast(f) /\ OpenLine /\ TornPays
      /\ again \in Nat /\ tears \in Nat /\ again' \in Nat
      /\ returned \in [Keys -> States \cup {"none"}]
  BY FileAssumption DEF FileInv, FileTypes
<1>1. l \in Text /\ l = (IF open \/ how = "part" THEN Torn ELSE [key |-> k, state |-> s])
  BY TextFacts DEF Text
<1>2. /\ lines' = Append(f, l) /\ open' = (how # "whole")
      /\ tears' = (IF how = "whole" THEN tears ELSE tears + 1)
      /\ returned' = (IF how = "whole" THEN [returned EXCEPT ![k] = s] ELSE returned)
  BY DEF Write, Settled
<1>3. how # "whole" => tears < MaxTears
  BY DEF Write
<1> HIDE DEF l
<1>4. Settled' = IF how = "whole" THEN Append(f, l) ELSE f
  <2>1. SubSeq(Append(f, l), 1, Len(Append(f, l)) - 1) = f
    <3> HIDE DEF f
    <3> QED  BY <1>0, <1>1, FrontOfAppend
  <2>2. Settled' = IF open' THEN SubSeq(lines', 1, Len(lines') - 1) ELSE lines'
    BY DEF Settled
  <2> HIDE DEF f
  <2> QED  BY <1>2, <2>1, <2>2
<1> HIDE DEF f
<1>5. Append(f, l) \in Seq(Text) /\ HasLast(Append(f, l))
  BY <1>0, <1>1, AppendProperties, AppendedLast
<1>6. Settled' \in Seq(Text) /\ HasLast(Settled')
  BY <1>0, <1>4, <1>5
<1>7. FileTypes'
  <2>1. lines' \in Seq(Text) /\ open' \in BOOLEAN
    BY <1>2, <1>5
  <2>2. returned' \in [Keys -> States \cup {"none"}]
    BY <1>0, <1>2
  <2>3. tears' \in 0 .. MaxTears
    BY <1>0, <1>2, <1>3, FileAssumption DEF FileTypes
  <2> QED  BY <1>0, <2>1, <2>2, <2>3 DEF FileTypes, Text
<1>8. OpenLine'
  <2> SUFFICES ASSUME open' PROVE \E x \in Text : lines' = Append(Settled', x)
    BY DEF OpenLine
  <2> QED  BY <1>1, <1>2, <1>4
<1>9. /\ bad = {q \in Keys : EntryIn(f, q) # returned[q]}
      /\ bads = {q \in Keys : EntryIn(Settled', q) # returned'[q]}
  BY DEF Lost, f
<1>10. /\ Cardinality(bad) + again + (IF open THEN 1 ELSE 0) <= tears
       /\ TornPays' <=>
            Cardinality(bads) + again' + (IF open' THEN 1 ELSE 0) <= tears'
  BY <1>0 DEF TornPays, Lost
<1> DEFINE b == Cardinality(bad)
           c == Cardinality(bads)
<1>11. b \in Nat /\ c \in Nat
  BY LostSets DEF Lost
<1> HIDE DEF bad, bads
<1>12. bad \in SUBSET Keys /\ bads \in SUBSET Keys
  BY <1>9
<1>13. \A q \in Keys : EntryIn(Append(f, l), q) =
                         IF l # Torn /\ l.key = q THEN l.state ELSE EntryIn(f, q)
  BY <1>0, <1>1, AppendedEntry
<1>14. ASSUME how # "whole" PROVE TornPays'
  <2>1. bads = bad
    BY <1>2, <1>4, <1>9, <1>14
  <2>2. a = 0 /\ tears' = tears + 1 /\ open'
    BY <1>2, <1>14
  <2>3. Cardinality(bads) + again' + 1 <= tears'
    <3>1. b + again <= tears /\ b = c /\ again' = again
      <4>1. b + again + 0 <= tears \/ b + again + 1 <= tears
        BY <1>10
      <4> QED  BY <1>0, <1>11, <2>1, <2>2, <4>1
    <3> QED  BY <1>0, <1>11, <2>2, <3>1
  <2> QED  BY <1>10, <2>2, <2>3
<1>15. ASSUME how = "whole", open PROVE TornPays'
  <2>1. l = Torn
    BY <1>1, <1>15
  <2>2. \A q \in Keys : EntryIn(Settled', q) = EntryIn(f, q)
    BY <1>4, <1>13, <1>15, <2>1
  <2>3. \A q \in Keys : q # k => returned'[q] = returned[q]
    BY <1>0, <1>2, <1>15
  <2>4. bads \subseteq bad \cup {k}
    BY <1>9, <2>2, <2>3
  <2>5. ASSUME a = 1 PROVE k \in bad
    <3>1. PICK x \in Text : lines = Append(f, x)
      BY <1>0, <1>15 DEF OpenLine, f
    <3>2. Entry(k) = EntryIn(Append(f, x), k)
      BY <3>1, EntryIs
    <3>3. EntryIn(Append(f, x), k) =
            IF x # Torn /\ x.key = k THEN x.state ELSE EntryIn(f, k)
      BY <1>0, AppendedEntry
    <3>4. x # Torn => x.state # "none"
      BY TextFacts DEF Text, States
    <3>5. Entry(k) = "none" /\ returned[k] # "none"
      BY <2>5
    <3>6. EntryIn(f, k) = "none"
      BY <3>2, <3>3, <3>4, <3>5
    <3> QED  BY <1>9, <3>5, <3>6
  <2>6. /\ Cardinality(bad) \in Nat /\ Cardinality(bads) \in Nat
        /\ Cardinality(bads) <= Cardinality(bad) + 1
        /\ a = 1 => Cardinality(bads) <= Cardinality(bad)
    <3>1. a = 1 => bads \subseteq bad
      BY <2>4, <2>5
    <3> QED  BY <1>12, <2>4, <3>1, LostSets
  <2>7. b + again + 1 <= tears /\ tears' = tears /\ ~open'
    BY <1>2, <1>10, <1>15
  <2>8. Cardinality(bads) + again' + 0 <= tears'
    BY <1>0, <1>11, <2>6, <2>7
  <2> QED  BY <1>10, <2>7, <2>8
<1>16. ASSUME how = "whole", ~open PROVE TornPays'
  <2>1. l = [key |-> k, state |-> s] /\ l # Torn /\ l.key = k /\ l.state = s
    BY <1>1, <1>16, TextFacts
  <2>2. EntryIn(Settled', k) = s
        /\ \A q \in Keys : q # k => EntryIn(Settled', q) = EntryIn(f, q)
    BY <1>4, <1>13, <1>16, <2>1
  <2>3. returned'[k] = s /\ \A q \in Keys : q # k => returned'[q] = returned[q]
    BY <1>0, <1>2, <1>16
  <2>4. bads \subseteq bad \ {k}
    BY <1>9, <2>2, <2>3
  <2>5. ASSUME a = 1 PROVE k \in bad
    <3>1. f = lines
      BY <1>16 DEF f, Settled
    <3>2. EntryIn(f, k) = "none" /\ returned[k] # "none"
      BY <2>5, <3>1, EntryIs
    <3> QED  BY <1>9, <3>2
  <2>6. /\ Cardinality(bad) \in Nat /\ Cardinality(bads) \in Nat
        /\ Cardinality(bads) <= Cardinality(bad)
        /\ a = 1 => Cardinality(bads) + 1 <= Cardinality(bad)
    <3>1. bads \subseteq bad
      BY <2>4
    <3> QED  BY <1>12, <2>4, <2>5, <3>1, LostSets
  <2>7. b + again + 0 <= tears /\ tears' = tears /\ ~open'
    BY <1>2, <1>10, <1>16
  <2>8. Cardinality(bads) + again' + 0 <= tears'
    BY <1>0, <1>11, <2>6, <2>7
  <2> QED  BY <1>10, <2>7, <2>8
<1>17. TornPays'
  BY <1>14, <1>15, <1>16
<1> QED  BY <1>6, <1>7, <1>8, <1>17 DEF FileInv

LEMMA FileStep ==
  ASSUME FileInv, [FileNext]_fileVars
  PROVE  FileInv'
<1>0. again \in Nat
  BY DEF FileInv, FileTypes
<1>1. ASSUME NEW k \in Keys, NEW how \in {"whole", "unended", "part"},
             OpenPending(k, how)
      PROVE  FileInv'
  <2> DEFINE a == IF how = "whole" /\ returned[k] # "none" THEN 1 ELSE 0
  <2>1. a \in {0, 1} /\ again' = again + a
        /\ (a = 1 => how = "whole" /\ Entry(k) = "none" /\ returned[k] # "none")
    BY <1>0, <1>1 DEF OpenPending
  <2>2. Write(k, "PENDING", how) /\ "PENDING" \in States
    BY <1>1 DEF OpenPending, States
  <2> HIDE DEF a
  <2> QED  BY <2>1, <2>2, WriteStep
<1>2. ASSUME NEW k \in Keys, NEW how \in {"whole", "unended", "part"},
             NEW s \in {"COMMITTED", "FAILED"}, Transition(k, s, how)
      PROVE  FileInv'
  <2>1. Write(k, s, how) /\ s \in States /\ again' = again + 0
    BY <1>0, <1>2 DEF Transition, States
  <2> QED  BY <2>1, WriteStep
<1>3. CASE UNCHANGED fileVars
  BY <1>3 DEF fileVars, FileInv, FileTypes, Settled, HasLast, OpenLine, TornPays
<1> QED  BY <1>1, <1>2, <1>3 DEF FileNext

(* However long the file grows and whichever writes are cut short, the     *)
(* entries lost and the keys reserved again are no more than those writes. *)
THEOREM TornWritesCostOne == FileSpec => []TearsAreLocal
<1>1. ASSUME FileInv PROVE TearsAreLocal
  <2> DEFINE bad == Lost(Settled, returned)
             all == {k \in Keys : Entry(k) # returned[k]}
  <2>0. /\ Settled \in Seq(Text) /\ HasLast(Settled) /\ OpenLine
        /\ again \in Nat /\ tears \in Nat
    BY <1>1, FileAssumption DEF FileInv, FileTypes
  <2>1. Cardinality(bad) + again + (IF open THEN 1 ELSE 0) <= tears
    BY <1>1 DEF FileInv, TornPays
  <2>2. bad \in SUBSET Keys /\ all \in SUBSET Keys
    BY DEF Lost
  <2>3. CASE ~open
    <3>1. all = bad
      BY <2>3, EntryIs DEF Lost, Settled
    <3>2. Cardinality(bad) \in Nat
      BY <2>2, LostSets
    <3> HIDE DEF bad
    <3> DEFINE b == Cardinality(bad)
    <3>3. b + again + 0 <= tears
      BY <2>1, <2>3
    <3>4. b \in Nat /\ Cardinality(all) = b
      BY <3>1, <3>2
    <3> HIDE DEF b
    <3>5. b <= tears /\ again <= tears
      BY <2>0, <3>3, <3>4
    <3> QED  BY <3>4, <3>5 DEF TearsAreLocal, all
  <2>4. CASE open
    <3>1. PICK l \in Text : lines = Append(Settled, l)
      BY <2>0, <2>4 DEF OpenLine
    <3>2. \A k \in Keys : l.key # k => Entry(k) = EntryIn(Settled, k)
      <4> SUFFICES ASSUME NEW k \in Keys, l.key # k
                   PROVE  Entry(k) = EntryIn(Settled, k)
        OBVIOUS
      <4>1. Entry(k) = EntryIn(Append(Settled, l), k)
        BY <3>1, EntryIs
      <4> QED  BY <2>0, <4>1, AppendedEntry
    <3>3. all \subseteq bad \cup {l.key}
      BY <3>2 DEF Lost
    <3> HIDE DEF bad, all
    <3>4. /\ Cardinality(bad) \in Nat /\ Cardinality(all) \in Nat
          /\ Cardinality(all) <= Cardinality(bad) + 1
      BY <2>2, <3>3, LostSets
    <3>5. Cardinality(all) <= tears /\ again <= tears
      BY <2>0, <2>1, <2>4, <3>4
    <3> QED  BY <3>5 DEF TearsAreLocal, all
  <2> QED  BY <2>3, <2>4
<1>2. FileInv /\ [FileNext]_fileVars => FileInv'
  BY FileStep
<1> QED  BY <1>1, <1>2, FileStart, PTL DEF FileSpec

-----------------------------------------------------------------------------
(* The held order.  An approval in the store is never taken back, and every *)
(* answer that says `approved' was given for an item that had one: what    *)
(* arrives late is still true of the item it is about.                     *)

Answers == Statuses \cup {"none"}

HeldTyped ==
  /\ Len(queue) \in Nat /\ DOMAIN queue = 1 .. Len(queue)
  /\ released \subseteq DOMAIN queue
  /\ held \in DOMAIN queue \cup {None}
  /\ \A p \in polls : p.ref \in DOMAIN queue
  /\ post # NoPost => post.ref \in DOMAIN queue

(* What is known to be approved, on the service, on the wire and on the    *)
(* page.                                                                   *)
GrantKept == \A k \in DOMAIN queue : queue[k].status = "approved" => k \in released

AnswersTrue ==
  /\ \A p \in polls : p.answer = "approved" => p.ref \in released
  /\ post.answer = "ok" => post.ref \in released

PanelTrue ==
  panel.status = "approved" /\ ~panel.swapped => held \in released \cup {None}

HeldInv == HeldTyped /\ GrantKept /\ AnswersTrue /\ PanelTrue

(* Steps of the page alone.                                                *)
LEMMA PageStep ==
  ASSUME HeldInv, UNCHANGED <<queue, released>>,
         held' \in DOMAIN queue \cup {None}, polls' \subseteq polls, post' \in {post, NoPost},
         PanelTrue'
  PROVE  HeldInv'
<1>1. HeldTyped'
  BY DEF HeldInv, HeldTyped
<1>2. GrantKept' /\ AnswersTrue'
  BY DEF HeldInv, GrantKept, AnswersTrue, NoPost
<1> QED  BY <1>1, <1>2 DEF HeldInv

LEMMA UnmountTrue ==
  ASSUME Unmount
  PROVE  PanelTrue' /\ held' = None
<1>1. panel' = [NoPanel EXCEPT !.at = panel.at]
  BY DEF Unmount
<1>2. panel'.status = "pending"
  BY <1>1 DEF NoPanel
<1> QED  BY <1>2 DEF Unmount, PanelTrue

LEMMA ApprovedTrue ==
  ASSUME NEW k \in released, NEW at, OnApproved(k, at), UNCHANGED released
  PROVE  PanelTrue' /\ held' = k
BY DEF OnApproved, PanelTrue

LEMMA NewestIsOne ==
  ASSUME NEW n \in Nat, NEW T \in SUBSET (1 .. n), T # {}
  PROVE  Max(T) \in T
<1> DEFINE R == OpToRel(<, Nat)
           D == {n - x : x \in T}
<1>1. D \subseteq Nat /\ D # {}
  <2>1. \A x \in T : x \in Int /\ n - x \in Nat
    OBVIOUS
  <2>2. PICK x \in T : TRUE
    OBVIOUS
  <2>3. n - x \in D
    BY <2>2
  <2>4. \A y \in D : y \in Nat
    BY <2>1
  <2> QED  BY <2>3, <2>4
<1>2. \A x, y \in Nat : <<x, y>> \in R <=> x < y
  BY DEF OpToRel
<1>3. PICK x \in D : \A y \in D : ~(<<y, x>> \in R)
  <2> HIDE DEF R, D
  <2>1. IsWellFoundedOn(OpToRel(<, Nat), Nat)
    BY NatLessThanWellFounded
  <2> QED  BY <1>1, <2>1, WFMin DEF R
<1>4. PICK z \in T : x = n - z
  BY <1>3
<1>5. ASSUME NEW w \in T PROVE w <= z
  <2>1. n - w \in D /\ n - w \in Nat /\ x \in Nat
    BY <1>1, <1>3
  <2>2. ~(n - w < x)
    BY <1>2, <1>3, <2>1
  <2> QED  BY <1>4, <2>2
<1>6. \A w \in T : z >= w
  BY <1>5
<1> QED  BY <1>6 DEF Max

LEMMA HeldStart == HeldInit => HeldInv
BY DEF HeldInit, HeldInv, HeldTyped, GrantKept, AnswersTrue, PanelTrue, NoPanel, NoPost,
       None

LEMMA ItemsGrow ==
  ASSUME HeldInv, NEW s, NEW b, Open(s, b), UNCHANGED <<released, held, panel, polls, post>>
  PROVE  HeldInv'
<1>1. CASE UNCHANGED queue
  BY <1>1 DEF HeldInv, HeldTyped, GrantKept, AnswersTrue, PanelTrue
<1> DEFINE it == [jti |-> s, basket |-> b, status |-> "pending", overdue |-> FALSE]
<1>2. CASE queue' = Append(queue, it)
  <2>1. /\ Len(queue) \in Nat /\ DOMAIN queue = 1 .. Len(queue)
    BY DEF HeldInv, HeldTyped
  <2>2. /\ Len(queue') = Len(queue) + 1 /\ DOMAIN queue' = 1 .. Len(queue')
        /\ \A k \in DOMAIN queue : queue'[k] = queue[k]
        /\ queue'[Len(queue) + 1] = it /\ it.status = "pending"
    BY <1>2, <2>1
  <2> HIDE DEF it
  <2>3. HeldTyped'
    BY <2>1, <2>2 DEF HeldInv, HeldTyped
  <2>4. GrantKept'
    BY <2>1, <2>2 DEF HeldInv, GrantKept
  <2>5. AnswersTrue' /\ PanelTrue'
    BY DEF HeldInv, AnswersTrue, PanelTrue
  <2> QED  BY <2>3, <2>4, <2>5 DEF HeldInv
<1> QED  BY <1>1, <1>2 DEF Open

(* A decision, and what looking at an item does to it.                     *)
Written(k) ==
  /\ k \in DOMAIN queue
  /\ \E s : queue' = [queue EXCEPT ![k].status = s] /\ (s = "approved" => k \in released')
  /\ released \subseteq released' /\ released' \subseteq DOMAIN queue

LEMMA WrittenKept ==
  ASSUME HeldInv, NEW k, Written(k)
  PROVE  /\ GrantKept' /\ DOMAIN queue' = DOMAIN queue /\ Len(queue') = Len(queue)
<1>1. PICK s : queue' = [queue EXCEPT ![k].status = s] /\ (s = "approved" => k \in released')
  BY DEF Written
<1>2. k \in DOMAIN queue /\ DOMAIN queue = 1 .. Len(queue) /\ Len(queue) \in Nat
  BY DEF Written, HeldInv, HeldTyped
<1>3. DOMAIN queue' = DOMAIN queue /\ Len(queue') = Len(queue)
  BY <1>1, <1>2
<1>4. \A j \in DOMAIN queue : j # k => queue'[j] = queue[j]
  BY <1>1, <1>2
<1>5. queue'[k].status = s \/ queue'[k].status = queue[k].status
  BY <1>1, <1>2
<1>6. \A j \in DOMAIN queue : queue'[j].status = "approved" => j \in released'
  BY <1>1, <1>4, <1>5 DEF HeldInv, GrantKept, Written
<1> QED  BY <1>3, <1>6 DEF GrantKept

LEMMA LookedWritten ==
  ASSUME HeldInv, NEW k \in DOMAIN queue, queue' = [queue EXCEPT ![k].status = Looked(k)],
         UNCHANGED released
  PROVE  Written(k) /\ (Looked(k) = "approved" => k \in released)
<1>1. Looked(k) = "approved" => k \in released
  BY DEF Looked, HeldInv, GrantKept
<1> QED  BY <1>1 DEF Written, HeldInv, HeldTyped

LEMMA DecideWritten ==
  ASSUME HeldInv, NEW k \in DOMAIN queue, NEW d, Decide(k, d)
  PROVE  Written(k) /\ (Pending(k) /\ d = "approved" => k \in released')
<1>1. queue' = [queue EXCEPT ![k].status = IF Pending(k) THEN d ELSE Looked(k)]
      /\ released' = IF Pending(k) /\ d = "approved" THEN released \cup {k} ELSE released
  BY DEF Decide
<1>2. Looked(k) = "approved" => k \in released
  BY DEF Looked, HeldInv, GrantKept
<1>3. released \subseteq released' /\ released' \subseteq DOMAIN queue
  BY <1>1 DEF HeldInv, HeldTyped
<1>4. (IF Pending(k) THEN d ELSE Looked(k)) = "approved" => k \in released'
  BY <1>1, <1>2
<1> QED  BY <1>1, <1>3, <1>4 DEF Written

(* The item of the page stays approved when another is written.            *)
LEMMA PageUnderWrite ==
  ASSUME HeldInv, NEW k, Written(k), UNCHANGED <<held, panel>>, HeldTyped', AnswersTrue'
  PROVE  HeldInv'
<1>1. GrantKept'
  BY WrittenKept
<1>2. released \subseteq released'
  BY DEF Written
<1>3. PanelTrue'
  BY <1>2 DEF HeldInv, PanelTrue
<1> QED  BY <1>1, <1>3 DEF HeldInv

LEMMA TabSteps ==
  ASSUME HeldInv,
         \/ Compile \/ Compiled \/ (\E b \in Baskets : RunProbe(b))
         \/ ServeProbe \/ ProbeAnswered
  PROVE  HeldInv'
<1>0. held \in DOMAIN queue \cup {None} /\ PanelTrue
  BY DEF HeldInv, HeldTyped
<1>1. CASE Compile
  <2>1. PanelTrue' /\ held' = None
    BY <1>1, UnmountTrue DEF Compile
  <2> QED  BY <1>1, <2>1, PageStep DEF Compile, Requests, Service
<1>2. CASE Compiled
  BY <1>0, <1>2, PageStep DEF Compiled, Requests, Service, PanelTrue
<1>3. ASSUME NEW b \in Baskets, RunProbe(b) PROVE HeldInv'
  <2>1. PanelTrue' /\ held' = None
    BY <1>3, UnmountTrue DEF RunProbe
  <2> QED  BY <1>3, <2>1, PageStep DEF RunProbe, Requests, Service
<1>4. CASE ServeProbe
  <2>1. /\ \/ Open(probing.sandbox, probing.basket)
           \/ UNCHANGED queue
        /\ UNCHANGED <<released, held, panel, polls, post>>
    BY <1>4 DEF ServeProbe, Requests
  <2>2. CASE UNCHANGED queue
    BY <1>0, <2>1, <2>2, PageStep DEF PanelTrue
  <2> QED  BY <2>1, <2>2, ItemsGrow
<1>5. CASE ProbeAnswered
  BY <1>0, <1>5, PageStep DEF ProbeAnswered, Requests, Service, PanelTrue
<1> QED  BY <1>1, <1>2, <1>3, <1>4, <1>5

LEMMA FindStep ==
  ASSUME HeldInv, FindHeldOrder
  PROVE  HeldInv'
<1> DEFINE mine == {k \in DOMAIN queue : queue[k].jti = probing.sandbox /\ Pending(k)}
<1>1. /\ \/ mine # {} /\ Mount(Max(mine))
         \/ UNCHANGED <<held, panel>>
      /\ UNCHANGED <<polls, post, queue, released>>
  BY DEF FindHeldOrder, Requests, Service
<1>2. CASE mine # {} /\ Mount(Max(mine))
  <2>1. mine \in SUBSET (1 .. Len(queue)) /\ Len(queue) \in Nat
    BY DEF HeldInv, HeldTyped
  <2>2. Max(mine) \in mine
    <3> HIDE DEF mine
    <3> QED  BY <1>2, <2>1, NewestIsOne
  <2>3. Max(mine) \in DOMAIN queue
    BY <2>2
  <2> HIDE DEF mine
  <2>4. held' \in DOMAIN queue
    BY <1>2, <2>3 DEF Mount
  <2>5. PanelTrue'
    <3>1. CASE Mounted
      <4>1. panel' = [panel EXCEPT !.swapped = TRUE]
        BY <1>2, <3>1 DEF Mount
      <4> QED  BY <1>2, <3>1, <4>1 DEF PanelTrue, HeldInv, Mounted
    <3>2. CASE ~Mounted
      BY <1>2, <3>2 DEF Mount, NewPanel, PanelTrue
    <3> QED  BY <3>1, <3>2
  <2> QED  BY <1>1, <2>4, <2>5, PageStep
<1>3. CASE UNCHANGED <<held, panel>>
  <2>1. held \in DOMAIN queue \cup {None} /\ PanelTrue'
    BY <1>1, <1>3 DEF HeldInv, HeldTyped, PanelTrue
  <2> QED  BY <1>1, <1>3, <2>1, PageStep
<1> QED  BY <1>1, <1>2, <1>3

LEMMA PollSteps ==
  ASSUME HeldInv,
         \/ Poll \/ ApproveHere
         \/ \E p \in polls : LosePoll(p) \/ Polled(p)
         \/ Posted
  PROVE  HeldInv'
<1>0. held \in DOMAIN queue \cup {None} /\ released \subseteq DOMAIN queue /\ PanelTrue
  BY DEF HeldInv, HeldTyped
<1>1. CASE Poll
  <2>1. held \in DOMAIN queue
    BY <1>0, <1>1 DEF Poll, Mounted
  <2> DEFINE new == [ref |-> held, at |-> panel.at, answer |-> "none"]
  <2>2. new.ref = held /\ new.answer # "approved"
    OBVIOUS
  <2>3. polls' = polls \cup {new} /\ UNCHANGED <<held, panel, post, queue, released>>
    BY <1>1 DEF Poll, Service
  <2> HIDE DEF new
  <2>4. HeldTyped' /\ GrantKept' /\ PanelTrue'
    BY <2>1, <2>2, <2>3 DEF HeldInv, HeldTyped, GrantKept, PanelTrue
  <2>5. AnswersTrue'
    BY <2>2, <2>3 DEF HeldInv, AnswersTrue
  <2> QED  BY <2>4, <2>5 DEF HeldInv
<1>2. CASE ApproveHere
  <2>1. held \in DOMAIN queue
    BY <1>0, <1>2 DEF ApproveHere, OffersApproval, Mounted
  <2>2. post' = [ref |-> held, at |-> panel.at, answer |-> "none"]
        /\ UNCHANGED <<held, panel, polls, queue, released>>
    BY <1>2 DEF ApproveHere, Service
  <2>3. post'.ref = held /\ post'.answer # "ok"
    BY <2>2
  <2>4. HeldTyped' /\ GrantKept' /\ PanelTrue'
    BY <2>1, <2>2, <2>3 DEF HeldInv, HeldTyped, GrantKept, PanelTrue
  <2>5. AnswersTrue'
    BY <2>2, <2>3 DEF HeldInv, AnswersTrue
  <2> QED  BY <2>4, <2>5 DEF HeldInv
<1>3. ASSUME NEW p \in polls, LosePoll(p) PROVE HeldInv'
  BY <1>0, <1>3, PageStep DEF LosePoll, Service, PanelTrue
<1>4. ASSUME NEW p \in polls, Polled(p) PROVE HeldInv'
  <2>1. /\ polls' \subseteq polls /\ UNCHANGED <<post, queue, released>>
        /\ IF p.answer = "approved" THEN OnApproved(p.ref, p.at)
           ELSE /\ panel' = IF Mounted /\ panel.at = p.at /\ p.answer # "pending"
                            THEN [panel EXCEPT !.status = p.answer] ELSE panel
                /\ UNCHANGED held
    BY <1>4 DEF Polled, Service
  <2>2. CASE p.answer = "approved"
    <3>1. p.ref \in released
      BY <2>2 DEF HeldInv, AnswersTrue
    <3>2. PanelTrue' /\ held' = p.ref
      BY <2>1, <2>2, <3>1, ApprovedTrue
    <3> QED  BY <1>0, <2>1, <3>1, <3>2, PageStep
  <2>3. CASE p.answer # "approved"
    <3>1. /\ held' = held
          /\ panel' = panel \/ panel' = [panel EXCEPT !.status = p.answer]
      BY <2>1, <2>3
    <3>2. PanelTrue'
      <4>1. CASE panel' = panel
        BY <1>0, <2>1, <3>1, <4>1 DEF PanelTrue
      <4>2. CASE panel' = [panel EXCEPT !.status = p.answer]
        <5>1. panel'.status = p.answer \/ panel' = panel
          BY <4>2
        <5> QED  BY <1>0, <2>1, <2>3, <3>1, <5>1 DEF PanelTrue
      <4> QED  BY <3>1, <4>1, <4>2
    <3> QED  BY <1>0, <2>1, <3>1, <3>2, PageStep
  <2> QED  BY <2>2, <2>3
<1>5. CASE Posted
  <2>1. /\ post' = NoPost /\ UNCHANGED <<polls, queue, released>>
        /\ IF post.answer = "ok" THEN OnApproved(post.ref, post.at)
           ELSE UNCHANGED <<held, panel>>
    BY <1>5 DEF Posted, Service
  <2>2. CASE post.answer = "ok"
    <3>1. post.ref \in released
      BY <2>2 DEF HeldInv, AnswersTrue
    <3>2. PanelTrue' /\ held' = post.ref
      BY <2>1, <2>2, <3>1, ApprovedTrue
    <3> QED  BY <1>0, <2>1, <3>1, <3>2, PageStep
  <2>3. CASE post.answer # "ok"
    <3>1. UNCHANGED <<held, panel>> /\ PanelTrue'
      BY <1>0, <2>1, <2>3 DEF PanelTrue
    <3> QED  BY <1>0, <2>1, <3>1, PageStep
  <2> QED  BY <2>2, <2>3
<1> QED  BY <1>1, <1>2, <1>3, <1>4, <1>5

LEMMA ServiceSteps ==
  ASSUME HeldInv,
         \/ \E p \in polls : ServePoll(p)
         \/ ServePost
         \/ \E k \in DOMAIN queue : Elsewhere(k)
  PROVE  HeldInv'
<1>0. /\ held \in DOMAIN queue \cup {None}
      /\ \A q \in polls : /\ q.ref \in DOMAIN queue
                          /\ q.answer = "approved" => q.ref \in released
      /\ post # NoPost => post.ref \in DOMAIN queue
      /\ post.answer = "ok" => post.ref \in released
  BY DEF HeldInv, HeldTyped, AnswersTrue
<1>1. ASSUME NEW p \in polls, ServePoll(p) PROVE HeldInv'
  <2> DEFINE new == [p EXCEPT !.answer = Looked(p.ref)]
  <2>1. /\ queue' = [queue EXCEPT ![p.ref].status = Looked(p.ref)]
        /\ polls' = (polls \ {p}) \cup {new}
        /\ UNCHANGED <<held, panel, post, released>>
    BY <1>1 DEF ServePoll
  <2>2. /\ Written(p.ref)
        /\ Looked(p.ref) = "approved" => p.ref \in released
    BY <1>0, <2>1, LookedWritten
  <2>3. /\ new.ref = p.ref
        /\ new.answer = Looked(p.ref) \/ new.answer = p.answer
    OBVIOUS
  <2> HIDE DEF new
  <2>4. DOMAIN queue' = DOMAIN queue /\ Len(queue') = Len(queue)
    BY <2>2, WrittenKept
  <2>5. HeldTyped'
    BY <1>0, <2>1, <2>3, <2>4 DEF HeldInv, HeldTyped
  <2>6. AnswersTrue'
    BY <1>0, <2>1, <2>2, <2>3 DEF AnswersTrue
  <2> QED  BY <2>1, <2>2, <2>5, <2>6, PageUnderWrite
<1>2. CASE ServePost
  <2>1. /\ post # NoPost /\ Decide(post.ref, "approved")
        /\ \E a \in {IF Pending(post.ref) THEN "ok" ELSE "refused", "lost"} :
             post' = [post EXCEPT !.answer = a]
        /\ UNCHANGED <<held, panel, polls>>
    BY <1>2 DEF ServePost
  <2>2. /\ Written(post.ref)
        /\ Pending(post.ref) => post.ref \in released'
    BY <1>0, <2>1, DecideWritten
  <2>3. /\ post'.ref = post.ref
        /\ post'.answer = "ok" => Pending(post.ref) \/ post.answer = "ok"
    BY <2>1
  <2>4. /\ DOMAIN queue' = DOMAIN queue /\ Len(queue') = Len(queue)
        /\ released \subseteq released' /\ released' \subseteq DOMAIN queue
    BY <2>2, WrittenKept DEF Written
  <2>5. HeldTyped'
    BY <1>0, <2>1, <2>3, <2>4 DEF HeldInv, HeldTyped
  <2>6. AnswersTrue'
    BY <1>0, <2>1, <2>2, <2>3, <2>4 DEF AnswersTrue
  <2> QED  BY <2>1, <2>2, <2>5, <2>6, PageUnderWrite
<1>3. ASSUME NEW k \in DOMAIN queue, Elsewhere(k) PROVE HeldInv'
  <2>1. PICK d \in {"approved", "rejected"} : Decide(k, d)
    BY <1>3 DEF Elsewhere
  <2>2. UNCHANGED <<held, panel, polls, post>>
    BY <1>3 DEF Elsewhere, Requests
  <2>3. Written(k)
    BY <2>1, DecideWritten
  <2>4. /\ DOMAIN queue' = DOMAIN queue /\ Len(queue') = Len(queue)
        /\ released \subseteq released' /\ released' \subseteq DOMAIN queue
    BY <2>3, WrittenKept DEF Written
  <2>5. HeldTyped'
    BY <1>0, <2>2, <2>4 DEF HeldInv, HeldTyped
  <2>6. AnswersTrue'
    BY <1>0, <2>2, <2>4 DEF AnswersTrue
  <2> QED  BY <2>2, <2>3, <2>5, <2>6, PageUnderWrite
<1> QED  BY <1>1, <1>2, <1>3

LEMMA DeadlineStep ==
  ASSUME HeldInv, NEW k \in DOMAIN queue, PassDeadline(k)
  PROVE  HeldInv'
<1>1. queue' = [queue EXCEPT ![k].overdue = TRUE]
      /\ UNCHANGED <<held, panel, polls, post, released>>
  BY DEF PassDeadline, Requests
<1>2. DOMAIN queue = 1 .. Len(queue) /\ Len(queue) \in Nat
  BY DEF HeldInv, HeldTyped
<1>3. DOMAIN queue' = DOMAIN queue /\ Len(queue') = Len(queue)
  BY <1>1, <1>2
<1>4. \A j \in DOMAIN queue : queue'[j].status = queue[j].status
  BY <1>1, <1>2
<1>5. HeldTyped'
  BY <1>1, <1>3 DEF HeldInv, HeldTyped
<1>6. GrantKept'
  BY <1>1, <1>3, <1>4 DEF HeldInv, GrantKept
<1>7. AnswersTrue' /\ PanelTrue'
  BY <1>1 DEF HeldInv, AnswersTrue, PanelTrue
<1> QED  BY <1>5, <1>6, <1>7 DEF HeldInv

(* The page says an order is approved only when the approval store holds   *)
(* an approval of that order: whatever answers late, is lost or is decided *)
(* elsewhere, for any number of mandates and orders.  `~swapped' is part   *)
(* of the statement: findHeldOrder may put another order under a mounted   *)
(* panel (the run Held_swapped).                                           *)
THEOREM ReleasedInStore == HeldSpec => []ApprovedIsGranted
<1>1. HeldInv /\ [HeldNext]_heldVars => HeldInv'
  <2> SUFFICES ASSUME HeldInv, [HeldNext]_heldVars PROVE HeldInv'
    OBVIOUS
  <2>1. CASE UNCHANGED heldVars
    BY <2>1 DEF heldVars, HeldInv, HeldTyped, GrantKept, AnswersTrue, PanelTrue
  <2>2. CASE HeldNext
    BY <2>2, TabSteps, FindStep, PollSteps, ServiceSteps, DeadlineStep DEF HeldNext
  <2> QED  BY <2>1, <2>2
<1>2. HeldInv => ApprovedIsGranted
  BY DEF HeldInv, PanelTrue, ApprovedIsGranted, ReleasedIsThisOne, SaysApproved, Mounted
<1> QED  BY <1>1, <1>2, HeldStart, PTL DEF HeldSpec

-----------------------------------------------------------------------------
(* The record of a run.                                                    *)
Results == [Parts -> {"ALLOW", "DENY", "UNKNOWN"}]

(* The reason of a decision that is not ALLOW all over is a part that did  *)
(* not allow the order.                                                    *)
LEMMA ReasonIs ==
  ASSUME NEW results \in Results
  PROVE  /\ Reason(results) \in Parts \cup {NoPart}
         /\ Reason(results) \in Parts => results[Reason(results)] # "ALLOW"
         /\ Judged(results) \in {"allow", "deny", "unknown"}
         /\ Judged(results) = "deny" => Reason(results) \in Parts
<1> DEFINE T == {p \in Parts : results[p] # "ALLOW"}
<1>0. Parts \subseteq Nat /\ NoPart \notin Parts
  BY RecordAssumption DEF Parts, NoPart
<1>1. Judged(results) \in {"allow", "deny", "unknown"}
  BY DEF Judged
<1>2. Judged(results) = "deny" => T # {}
  BY DEF Judged
<1>3. CASE T = {}
  <2>1. Reason(results) = NoPart
    BY <1>3 DEF Reason
  <2> QED  BY <1>0, <1>1, <1>2, <1>3, <2>1
<1>4. CASE T # {}
  <2>1. PICK n \in T : \A m \in T : n <= m
    BY <1>0, <1>4, LeastNat
  <2>2. /\ n \in Parts /\ results[n] # "ALLOW"
        /\ \A q \in 1..(n - 1) : results[q] = "ALLOW"
    <3>1. n \in Parts /\ results[n] # "ALLOW"
      OBVIOUS
    <3>2. ASSUME NEW q \in 1..(n - 1) PROVE results[q] = "ALLOW"
      <4>1. q \in Parts /\ ~(n <= q)
        BY <3>1, RecordAssumption DEF Parts
      <4> QED  BY <2>1, <4>1
    <3> QED  BY <3>1, <3>2
  <2>3. Reason(results) =
          CHOOSE p \in Parts : /\ results[p] # "ALLOW"
                               /\ \A q \in 1..(p - 1) : results[q] = "ALLOW"
    BY <1>4 DEF Reason
  <2>4. Reason(results) \in Parts /\ results[Reason(results)] # "ALLOW"
    BY <2>2, <2>3
  <2> QED  BY <1>1, <2>4
<1> QED  BY <1>3, <1>4

Decision ==
  [seq : 1..MaxAttempts, amount : Amounts, verdict : {"allow", "deny", "unknown"},
   results : Results, reason : Parts \cup {NoPart} \cup {OtherAmount(a) : a \in Amounts},
   executed : BOOLEAN]

LEMMA NoPartIsThat ==
  NoPart \notin Parts /\ \A a \in Amounts : OtherAmount(a) \notin Parts
BY RecordAssumption DEF Parts, NoPart, OtherAmount

LEMMA RunBounded == MaxAttempts \in Nat
BY RecordAssumption

(* The entry of decision m is live: the order was placed, or unanswered.   *)
TookPlace(s, m) ==
  s[m].verdict = "allow" \/ (s[m].verdict = "unknown" /\ s[m].reason = NoPart)

(* A decision and those before it: the part that is cited for it is set    *)
(* and did not allow it, and the velocity is cited only once so many       *)
(* entries were live; money moved only for what was allowed, or at another *)
(* amount.                                                                 *)
DecisionHolds(s, n) ==
  /\ s[n].seq = n
  /\ s[n].executed => s[n].verdict = "allow" \/ s[n].reason = OtherAmount(s[n].amount)
  /\ s[n].verdict = "deny" => s[n].reason \in Parts \cup {NoPart}
  /\ s[n].reason \in Parts =>
       s[n].reason \notin UnsetParts /\ s[n].results[s[n].reason] # "ALLOW"
  /\ s[n].reason = VelocityPart /\ VelocityPart \in Parts =>
       VelocityCap <= Cardinality({m \in 1..(n - 1) : TookPlace(s, m)})

RecordInv ==
  /\ log \in Seq(Decision) /\ Len(log) <= MaxAttempts
  /\ \A n \in DOMAIN log : DecisionHolds(log, n)

LEMMA LiveIs ==
  ASSUME RecordInv
  PROVE  /\ Live = {m \in 1..Len(log) : TookPlace(log, m)}
         /\ IsFiniteSet(Live) /\ Cardinality(Live) \in Nat
<1>0. Len(log) \in Nat /\ DOMAIN log = 1..Len(log)
  BY DEF RecordInv
<1>1. Live = {m \in 1..Len(log) : TookPlace(log, m)}
  BY <1>0 DEF Live, Unanswered, With, TookPlace
<1>2. IsFiniteSet(1..Len(log))
  BY <1>0, FS_Interval
<1>3. Live \subseteq 1..Len(log)
  BY <1>1
<1> HIDE DEF Live
<1> QED  BY <1>1, <1>2, <1>3, FS_Subset, FS_CardinalityType

(* What the rail answers leaves the record as it must be.                  *)
RecordFits(r, results) ==
  /\ r \in Decision /\ r.seq = Len(log) + 1 /\ r.results = results
  /\ r.executed => r.verdict = "allow" \/ r.reason = OtherAmount(r.amount)
  /\ r.verdict = "deny" => r.reason \in Parts \cup {NoPart}
  /\ r.reason \in Parts => r.reason = Reason(results)

LEMMA RecordIs ==
  ASSUME NEW amount \in Amounts, NEW results \in Results,
         NEW rail \in {"placed", "unanswered", "failed", "diverged", "not asked"},
         rail = "not asked" \/ Judged(results) = "allow",
         Len(log) + 1 \in 1..MaxAttempts
  PROVE  RecordFits(NewRecord(amount, results, rail), results)
<1> DEFINE r == NewRecord(amount, results, rail)
<1>1. /\ r.seq = Len(log) + 1 /\ r.amount = amount /\ r.results = results
      /\ r.executed = (rail = "placed" \/ rail = "diverged")
      /\ r.reason = IF rail = "diverged" THEN OtherAmount(amount) ELSE Reason(results)
  BY DEF NewRecord, Final
<1>2. /\ rail = "failed" => r.verdict = "deny"
      /\ rail \in {"unanswered", "diverged"} => r.verdict = "unknown"
      /\ rail \in {"placed", "not asked"} => r.verdict = Judged(results)
  BY DEF NewRecord, Final
<1>3. /\ Judged(results) \in {"allow", "deny", "unknown"}
      /\ Reason(results) \in Parts \cup {NoPart}
  BY ReasonIs
<1>5. r \in Decision
  <2>1. r.verdict \in {"allow", "deny", "unknown"}
    BY <1>2, <1>3
  <2>2. r.reason \in Parts \cup {NoPart} \cup {OtherAmount(a) : a \in Amounts}
    BY <1>1, <1>3
  <2>3. r = [seq |-> r.seq, amount |-> r.amount, results |-> r.results,
             verdict |-> r.verdict, reason |-> r.reason, executed |-> r.executed]
    BY DEF NewRecord, Final
  <2>4. r.executed \in BOOLEAN
    BY DEF NewRecord
  <2> HIDE DEF r
  <2> QED  BY <1>1, <2>1, <2>2, <2>3, <2>4 DEF Decision
<1> HIDE DEF r
<1>6. r.executed => r.verdict = "allow" \/ r.reason = OtherAmount(r.amount)
  BY <1>1, <1>2
<1>7. r.verdict = "deny" => r.reason \in Parts \cup {NoPart}
  BY <1>1, <1>2, <1>3
<1>8. r.reason \in Parts => r.reason = Reason(results)
  BY <1>1, NoPartIsThat
<1>9. RecordFits(r, results)
  BY <1>1, <1>5, <1>6, <1>7, <1>8 DEF RecordFits
<1> QED  BY <1>9 DEF r

LEMMA AttemptHolds ==
  ASSUME RecordInv, Attempt
  PROVE  RecordInv'
<1>0. log \in Seq(Decision) /\ DOMAIN log = 1..Len(log) /\ Len(log) \in Nat
  BY DEF RecordInv
<1>1. PICK amount \in Amounts, unclear \in SUBSET Unclear, refusing \in SUBSET Rules :
    LET results == [p \in Parts |->
          IF \/ p = Single /\ amount > SingleCap
             \/ p = VelocityPart /\ Cardinality(Live) >= VelocityCap
             \/ p \in refusing
          THEN "DENY" ELSE IF p \in unclear THEN "UNKNOWN" ELSE "ALLOW"]
    IN  /\ Len(log) < MaxAttempts
        /\ \E rail \in IF Judged(results) = "allow"
                       THEN {"placed", "unanswered", "failed", "diverged"}
                       ELSE {"not asked"} :
             log' = Append(log, NewRecord(amount, results, rail))
  BY DEF Attempt
<1>2. PICK results \in Results :
        /\ \A p \in Parts : results[p] # "ALLOW" =>
             \/ p = Single \/ p \in refusing \/ p \in unclear
             \/ p = VelocityPart /\ Cardinality(Live) >= VelocityCap
        /\ Len(log) < MaxAttempts
        /\ \E rail \in IF Judged(results) = "allow"
                       THEN {"placed", "unanswered", "failed", "diverged"}
                       ELSE {"not asked"} :
             log' = Append(log, NewRecord(amount, results, rail))
  <2> DEFINE given == [p \in Parts |->
          IF \/ p = Single /\ amount > SingleCap
             \/ p = VelocityPart /\ Cardinality(Live) >= VelocityCap
             \/ p \in refusing
          THEN "DENY" ELSE IF p \in unclear THEN "UNKNOWN" ELSE "ALLOW"]
  <2>1. given \in Results
    BY DEF Results
  <2>2. \A p \in Parts : given[p] # "ALLOW" =>
             \/ p = Single \/ p \in refusing \/ p \in unclear
             \/ p = VelocityPart /\ Cardinality(Live) >= VelocityCap
    OBVIOUS
  <2>3. /\ Len(log) < MaxAttempts
        /\ \E rail \in IF Judged(given) = "allow"
                       THEN {"placed", "unanswered", "failed", "diverged"}
                       ELSE {"not asked"} :
             log' = Append(log, NewRecord(amount, given, rail))
    BY <1>1
  <2> HIDE DEF given
  <2> QED  BY <2>1, <2>2, <2>3
<1>3. PICK r : RecordFits(r, results) /\ log' = Append(log, r)
  <2>0. Len(log) + 1 \in 1..MaxAttempts
    <3>1. Len(log) < MaxAttempts
      BY <1>2
    <3> QED  BY <1>0, <3>1, RunBounded
  <2>1. PICK rail \in {"placed", "unanswered", "failed", "diverged", "not asked"} :
          /\ rail = "not asked" \/ Judged(results) = "allow"
          /\ log' = Append(log, NewRecord(amount, results, rail))
    BY <1>2
  <2>2. RecordFits(NewRecord(amount, results, rail), results)
    BY <2>0, <2>1, RecordIs
  <2> QED  BY <2>1, <2>2
<1>4. \A p \in Parts : results[p] # "ALLOW" =>
        p \notin UnsetParts /\ (p = VelocityPart => Cardinality(Live) >= VelocityCap)
  BY <1>2, RecordAssumption
<1>6. /\ log' \in Seq(Decision) /\ Len(log') = Len(log) + 1
      /\ DOMAIN log' = 1..(Len(log) + 1)
      /\ log'[Len(log) + 1] = r /\ \A n \in DOMAIN log : log'[n] = log[n]
  BY <1>0, <1>3 DEF RecordFits
<1>7. ASSUME NEW n \in 1..(Len(log) + 1)
      PROVE  {m \in 1..(n - 1) : TookPlace(log', m)} = {m \in 1..(n - 1) : TookPlace(log, m)}
  BY <1>0, <1>6 DEF TookPlace
<1>8. ASSUME NEW n \in DOMAIN log PROVE DecisionHolds(log', n)
  <2>1. DecisionHolds(log, n) /\ log'[n] = log[n] /\ n \in 1..(Len(log) + 1)
    BY <1>0, <1>6 DEF RecordInv
  <2> QED  BY <1>7, <2>1 DEF DecisionHolds
<1>9. DecisionHolds(log', Len(log) + 1)
  <2>1. PICK n \in 1..(Len(log) + 1) : n = Len(log) + 1
    BY <1>0
  <2>2. {m \in 1..(n - 1) : TookPlace(log', m)} = Live
    <3>1. n - 1 = Len(log)
      BY <1>0, <2>1
    <3> QED  BY <1>7, <2>1, <3>1, LiveIs
  <2>3. r.reason \in Parts =>
          /\ r.reason \notin UnsetParts /\ results[r.reason] # "ALLOW"
          /\ r.reason = VelocityPart => Cardinality(Live) >= VelocityCap
    BY <1>3, <1>4, ReasonIs DEF RecordFits
  <2>4. r.reason = VelocityPart /\ VelocityPart \in Parts => VelocityCap <= Cardinality(Live)
    BY <2>3, LiveIs, RecordAssumption
  <2>5. log'[n] = r
    BY <1>6, <2>1
  <2>6. DecisionHolds(log', n)
    BY <1>3, <2>1, <2>2, <2>3, <2>4, <2>5 DEF RecordFits, DecisionHolds
  <2> QED  BY <2>1, <2>6
<1>10. Len(log') <= MaxAttempts
  <2>1. Len(log) < MaxAttempts
    BY <1>2
  <2> QED  BY <1>0, <2>1, <1>6, RunBounded
<1>11. \A n \in DOMAIN log' : DecisionHolds(log', n)
  BY <1>0, <1>6, <1>8, <1>9
<1> QED  BY <1>6, <1>10, <1>11 DEF RecordInv

-----------------------------------------------------------------------------
(* The chain of decisions, newest first.                                   *)
LEMMA DecisionsAre ==
  ASSUME RecordInv
  PROVE  /\ Len(log) \in Nat /\ DOMAIN log = 1..Len(log)
         /\ DOMAIN Decisions = 1..Len(log) /\ Len(Decisions) = Len(log)
         /\ \A i \in 1..Len(log) :
              /\ Decisions[i] = log[Len(log) + 1 - i] /\ Len(log) + 1 - i \in DOMAIN log
              /\ Decisions[i].seq = Len(log) + 1 - i
<1>1. log \in Seq(Decision) /\ Len(log) \in Nat /\ DOMAIN log = 1..Len(log)
  BY DEF RecordInv
<1>2. \A i \in 1..Len(log) : Len(log) + 1 - i \in DOMAIN log
  BY <1>1
<1>3. /\ DOMAIN Decisions = 1..Len(log)
      /\ \A i \in 1..Len(log) : Decisions[i] = log[Len(log) + 1 - i]
  BY <1>1 DEF Decisions
<1>4. Decisions \in [1..Len(log) -> Decision]
  BY <1>1, <1>2 DEF Decisions
<1>5. Decisions \in Seq(Decision)
  BY <1>1, <1>4, SeqDef
<1>6. Len(Decisions) = Len(log)
  BY <1>1, <1>3, <1>5, LenProperties
<1>7. \A n \in DOMAIN log : log[n].seq = n
  BY DEF RecordInv, DecisionHolds
<1> QED  BY <1>1, <1>2, <1>3, <1>6, <1>7

(* A stretch goes from its head to the last decision that is like it.      *)
LEMMA LastIs ==
  ASSUME RecordInv, NEW i \in 1..Len(log)
  PROVE  /\ LastOf(i) \in i..Len(log)
         /\ \A k \in i..LastOf(i) : Alike(i, k)
         /\ LastOf(i) < Len(log) => ~Alike(i, LastOf(i) + 1)
<1>0. Len(log) \in Nat /\ Len(Decisions) = Len(log) /\ i \in Nat
  BY DecisionsAre
<1> DEFINE T == {j \in (i + 1)..Len(log) : ~Alike(i, j)}
           P(j) == /\ \A k \in i..j : Alike(i, k)
                   /\ j < Len(Decisions) => ~Alike(i, j + 1)
<1>1. Alike(i, i)
  BY DEF Alike
<1>2. \E j \in i..Len(log) : P(j)
  <2>1. CASE T = {}
    <3>1. \A k \in i..Len(log) : Alike(i, k)
      <4> SUFFICES ASSUME NEW k \in i..Len(log) PROVE Alike(i, k)
        OBVIOUS
      <4>1. CASE k = i
        BY <1>1, <4>1
      <4>2. CASE k # i
        BY <1>0, <2>1, <4>2
      <4> QED  BY <4>1, <4>2
    <3>2. P(Len(log))
      BY <1>0, <3>1
    <3> QED  BY <1>0, <3>2
  <2>2. CASE T # {}
    <3>1. PICK m \in T : \A j \in T : m <= j
      <4>1. T \in SUBSET Nat
        BY <1>0
      <4> QED  BY <2>2, <4>1, LeastNat
    <3>2. m \in (i + 1)..Len(log) /\ ~Alike(i, m)
      OBVIOUS
    <3>3. ASSUME NEW k \in i..(m - 1) PROVE Alike(i, k)
      <4>1. CASE k = i
        BY <1>1, <4>1
      <4>2. CASE k # i
        <5>1. k \in (i + 1)..Len(log) /\ ~(m <= k)
          BY <1>0, <3>2, <4>2
        <5> QED  BY <3>1, <5>1
      <4> QED  BY <4>1, <4>2
    <3>4. m - 1 \in i..Len(log) /\ (m - 1) + 1 = m
      BY <1>0, <3>2
    <3>5. P(m - 1)
      BY <3>2, <3>3, <3>4
    <3> QED  BY <3>4, <3>5
  <2> QED  BY <2>1, <2>2
<1>3. LastOf(i) = CHOOSE j \in i..Len(log) : P(j)
  BY <1>0 DEF LastOf
<1>4. LastOf(i) \in i..Len(log) /\ P(LastOf(i))
  <2> HIDE DEF P
  <2> QED  BY <1>2, <1>3
<1> QED  BY <1>0, <1>4

LEMMA AlikeSame ==
  /\ \A i, j, k : Alike(i, j) /\ Alike(i, k) => Alike(j, k)
  /\ \A i, j, k : Alike(i, j) /\ Alike(j, k) => Alike(i, k)
BY DEF Alike

LEMMA HeadsAre ==
  ASSUME RecordInv
  PROVE  /\ Heads \subseteq 1..Len(log)
         /\ \A i \in 1..Len(log) : i \in Heads <=> i = 1 \/ ~Alike(i - 1, i)
BY DecisionsAre DEF Heads

(* Every decision is in one stretch.                                       *)
LEMMA HeadOf ==
  ASSUME RecordInv, NEW i \in 1..Len(log)
  PROVE  \E h \in Heads : i \in h..LastOf(h)
<1>0. Len(log) \in Nat /\ i \in Nat
  BY DecisionsAre
<1> DEFINE T == {i - h : h \in {g \in Heads : g <= i}}
<1>1. 1 \in Heads
  BY <1>0, HeadsAre
<1>2. T \in SUBSET Nat /\ i - 1 \in T
  BY <1>0, <1>1, HeadsAre
<1>3. PICK n \in T : \A m \in T : n <= m
  BY <1>2, LeastNat
<1>4. PICK h \in Heads : h <= i /\ n = i - h
  OBVIOUS
<1>5. h \in 1..Len(log)
  BY HeadsAre
<1>6. \A g \in Heads : g <= i => g <= h
  <2> SUFFICES ASSUME NEW g \in Heads, g <= i PROVE g <= h
    OBVIOUS
  <2>1. i - g \in T /\ g \in Int
    BY HeadsAre
  <2>2. n <= i - g
    BY <1>3, <2>1
  <2> QED  BY <1>0, <1>4, <1>5, <2>1, <2>2
<1>7. ASSUME LastOf(h) < i PROVE FALSE
  <2> DEFINE m == LastOf(h) + 1
  <2>1. /\ LastOf(h) \in h..Len(log) /\ ~Alike(h, m) /\ Alike(h, LastOf(h))
    BY <1>0, <1>5, <1>7, LastIs
  <2>2. m \in 1..Len(log) /\ m - 1 = LastOf(h) /\ h < m /\ m <= i
    BY <1>0, <1>5, <1>7, <2>1
  <2>3. ~Alike(m - 1, m)
    BY <2>1, <2>2, AlikeSame
  <2>4. m \in Heads
    BY <2>2, <2>3, HeadsAre
  <2> HIDE DEF m
  <2> QED  BY <1>0, <1>5, <1>6, <2>2, <2>4
<1>8. LastOf(h) \in Int
  BY <1>0, <1>5, LastIs
<1> QED  BY <1>0, <1>4, <1>5, <1>7, <1>8

LEMMA StretchesApart ==
  ASSUME RecordInv, NEW g \in Heads, NEW h \in Heads, NEW i,
         i \in g..LastOf(g), i \in h..LastOf(h)
  PROVE  g = h
<1>0. Len(log) \in Nat /\ g \in 1..Len(log) /\ h \in 1..Len(log)
  BY DecisionsAre, HeadsAre
<1>1. ASSUME NEW a \in Heads, NEW b \in Heads, a \in Int, b \in Int, a < b,
             i \in a..LastOf(a), i \in b..LastOf(b)
      PROVE  FALSE
  <2>1. /\ a \in 1..Len(log) /\ b \in 1..Len(log)
        /\ LastOf(a) \in a..Len(log)
        /\ \A k \in a..LastOf(a) : Alike(a, k)
    BY <1>0, HeadsAre, LastIs
  <2>2. b \in a..LastOf(a) /\ b - 1 \in a..LastOf(a) /\ b # 1
    BY <1>0, <1>1, <2>1
  <2>3. Alike(b - 1, b)
    BY <2>1, <2>2, AlikeSame
  <2> QED  BY <2>1, <2>2, <2>3, HeadsAre
<1> QED  BY <1>0, <1>1

(* The line that stands for the rest of a stretch, and the decisions under *)
(* it.                                                                     *)
LineOf(h) ==
  [fromSeq |-> Decisions[h + 1].seq, toSeq |-> Decisions[LastOf(h)].seq,
   count |-> LastOf(h) - h, reason |-> Decisions[h].reason,
   verdict |-> Decisions[h].verdict]

LEMMA LineIs ==
  ASSUME RecordInv, NEW h \in Heads, Collapses(h)
  PROVE  /\ h + 1 \in 1..Len(log) /\ LastOf(h) \in (h + 1)..Len(log)
         /\ LineOf(h).fromSeq = Len(log) - h
         /\ LineOf(h).toSeq = Len(log) + 1 - LastOf(h)
         /\ \A i \in 1..Len(log) :
              Decisions[i] \in Under(LineOf(h)) <=> i \in (h + 1)..LastOf(h)
<1>0. Len(log) \in Nat /\ h \in 1..Len(log) /\ MinRun \in Nat \ {0}
  BY DecisionsAre, HeadsAre, RecordAssumption
<1>1. LastOf(h) \in h..Len(log)
  BY <1>0, LastIs
<1>2. h + 1 \in 1..Len(log) /\ LastOf(h) \in (h + 1)..Len(log)
  BY <1>0, <1>1 DEF Collapses
<1>3. /\ Decisions[h + 1].seq = Len(log) + 1 - (h + 1)
      /\ Decisions[LastOf(h)].seq = Len(log) + 1 - LastOf(h)
  BY <1>0, <1>2, DecisionsAre
<1>4. /\ LineOf(h).fromSeq = Len(log) - h
      /\ LineOf(h).toSeq = Len(log) + 1 - LastOf(h)
  BY <1>0, <1>3 DEF LineOf
<1>5. ASSUME NEW i \in 1..Len(log)
      PROVE  Decisions[i] \in Under(LineOf(h)) <=> i \in (h + 1)..LastOf(h)
  <2>1. /\ Decisions[i].seq = Len(log) + 1 - i
        /\ Decisions[i] \in {log[n] : n \in DOMAIN log}
    BY DecisionsAre
  <2>2. Decisions[i] \in Under(LineOf(h)) <=>
          Len(log) + 1 - LastOf(h) <= Len(log) + 1 - i /\ Len(log) + 1 - i <= Len(log) - h
    BY <1>4, <2>1 DEF Under
  <2>3. i \in Int /\ h \in Int /\ LastOf(h) \in Int
    BY <1>0, <1>1
  <2> QED  BY <1>0, <2>2, <2>3
<1> QED  BY <1>2, <1>4, <1>5

LEMMA ElidedAre ==
  /\ Elided = {LineOf(h) : h \in {g \in Heads : Collapses(g)}}
  /\ Drawn = UNION {IF Collapses(h) THEN {h} ELSE h..LastOf(h) : h \in Heads}
BY DEF Elided, Drawn, LineOf

LEMMA DrawnAre == RecordInv => Drawn \subseteq 1..Len(log)
<1> SUFFICES ASSUME RecordInv, NEW i \in Drawn PROVE i \in 1..Len(log)
  OBVIOUS
<1>1. PICK h \in Heads : i \in (IF Collapses(h) THEN {h} ELSE h..LastOf(h))
  BY ElidedAre
<1>2. h \in 1..Len(log) /\ LastOf(h) \in h..Len(log) /\ Len(log) \in Nat
  BY HeadsAre, LastIs, DecisionsAre
<1> QED  BY <1>1, <1>2

(* Decisions that a line stands for are like the row above it.             *)
LEMMA UnderAlike ==
  ASSUME RecordInv, NEW h \in Heads, Collapses(h), NEW r \in Under(LineOf(h))
  PROVE  r.verdict = LineOf(h).verdict /\ r.reason = LineOf(h).reason
<1>0. Len(log) \in Nat /\ h \in 1..Len(log) /\ DOMAIN log = 1..Len(log)
  BY DecisionsAre, HeadsAre
<1>1. PICK n \in 1..Len(log) : r = log[n]
  BY <1>0 DEF Under
<1> DEFINE i == Len(log) + 1 - n
<1>2. i \in 1..Len(log) /\ n = Len(log) + 1 - i
  BY <1>0
<1>3. r = Decisions[i]
  <2>1. Decisions[i] = log[Len(log) + 1 - i]
    BY <1>2, DecisionsAre
  <2> QED  BY <1>1, <1>2, <2>1
<1> HIDE DEF i
<1>4. i \in (h + 1)..LastOf(h)
  BY <1>2, <1>3, LineIs
<1>5. LastOf(h) \in Int
  BY <1>0, LastIs
<1>6. i \in h..LastOf(h)
  BY <1>0, <1>2, <1>4, <1>5
<1>7. Alike(h, i)
  BY <1>0, <1>6, LastIs
<1> QED  BY <1>3, <1>7 DEF Alike, LineOf

(* Each decision is drawn, or under one line, which says what it says.     *)
LEMMA ChainWhole == RecordInv => ChainIsWhole
<1> SUFFICES ASSUME RecordInv PROVE ChainIsWhole
  OBVIOUS
<1>0. Len(log) \in Nat /\ DOMAIN Decisions = 1..Len(log)
  BY DecisionsAre
<1>1. ASSUME NEW i \in 1..Len(log)
      PROVE  LET over == {e \in Elided : Decisions[i] \in Under(e)} IN
             IF i \in Drawn THEN over = {} ELSE \E e \in over : over = {e}
  <2> DEFINE over == {e \in Elided : Decisions[i] \in Under(e)}
  <2>1. PICK h \in Heads : i \in h..LastOf(h)
    BY HeadOf
  <2>2. h \in 1..Len(log) /\ LastOf(h) \in Int /\ i \in Int
    BY <1>0, HeadsAre, LastIs
  <2>3. ASSUME NEW g \in Heads, Collapses(g), Decisions[i] \in Under(LineOf(g))
        PROVE  g = h /\ i # h
    <3>1. i \in (g + 1)..LastOf(g)
      BY <2>3, LineIs
    <3>2. g \in Int /\ LastOf(g) \in Int
      BY <1>0, HeadsAre, LastIs
    <3>3. i \in g..LastOf(g)
      BY <2>2, <3>1, <3>2
    <3>4. g = h
      BY <2>1, <3>3, StretchesApart
    <3> QED  BY <2>2, <3>1, <3>4
  <2>4. ASSUME NEW g \in Heads, i \in (IF Collapses(g) THEN {g} ELSE g..LastOf(g))
        PROVE  g = h
    <3>1. g \in 1..Len(log) /\ LastOf(g) \in g..Len(log)
      BY HeadsAre, LastIs
    <3>2. i \in g..LastOf(g)
      BY <1>0, <2>4, <3>1
    <3> QED  BY <2>1, <3>2, StretchesApart
  <2>5. i \in Drawn <=> i \in (IF Collapses(h) THEN {h} ELSE h..LastOf(h))
    BY <2>4, ElidedAre
  <2>6. \A e \in over : e = LineOf(h) /\ Collapses(h) /\ i # h
    BY <2>3, ElidedAre
  <2>7. CASE i \in Drawn
    BY <2>5, <2>6, <2>7
  <2>8. CASE i \notin Drawn
    <3>1. Collapses(h) /\ i # h
      BY <2>1, <2>5, <2>8
    <3>2. i \in (h + 1)..LastOf(h)
      BY <2>1, <2>2, <3>1
    <3>3. Decisions[i] \in Under(LineOf(h))
      BY <3>1, <3>2, LineIs
    <3>4. LineOf(h) \in over
      BY <3>1, <3>3, ElidedAre
    <3>5. over = {LineOf(h)}
      BY <2>6, <3>4
    <3> QED  BY <2>8, <3>4, <3>5
  <2> QED  BY <2>7, <2>8
<1>2. ASSUME NEW h \in Heads, Collapses(h)
      PROVE  LineOf(h).count = LineOf(h).fromSeq - LineOf(h).toSeq + 1
  <2>1. h \in 1..Len(log) /\ LastOf(h) \in h..Len(log)
    BY HeadsAre, LastIs
  <2>2. LineOf(h).count = LastOf(h) - h
    BY DEF LineOf
  <2> QED  BY <1>0, <1>2, <2>1, <2>2, LineIs
<1>3. ASSUME NEW h \in Heads, Collapses(h), NEW r \in Under(LineOf(h))
      PROVE  /\ (LineSays(LineOf(h)) = "refused") = (r.verdict = "deny")
             /\ r.reason = LineOf(h).reason
  <2>1. r.verdict = LineOf(h).verdict /\ r.reason = LineOf(h).reason
    BY <1>3, UnderAlike
  <2> QED  BY <2>1 DEF LineSays
<1>4. ASSUME NEW e \in Elided
      PROVE  /\ e.count = e.fromSeq - e.toSeq + 1
             /\ \A r \in Under(e) : /\ (LineSays(e) = "refused") = (r.verdict = "deny")
                                    /\ r.reason = e.reason
  BY <1>2, <1>3, ElidedAre
<1> QED  BY <1>0, <1>1, <1>4 DEF ChainIsWhole

LEMMA RowsTrue == RecordInv => RowsAreTrue
<1> SUFFICES ASSUME RecordInv PROVE RowsAreTrue
  OBVIOUS
<1>0. Len(log) \in Nat /\ DOMAIN log = 1..Len(log)
  BY DecisionsAre
<1>1. ASSUME log # <<>> PROVE 1 \in Drawn
  <2>1. log \in Seq(Decision)
    BY DEF RecordInv
  <2>2. 1 \in 1..Len(log)
    BY <1>0, <1>1, <2>1
  <2>3. 1 \in Heads /\ LastOf(1) \in 1..Len(log)
    BY <2>2, HeadsAre, LastIs
  <2>4. 1 \in (IF Collapses(1) THEN {1} ELSE 1..LastOf(1))
    BY <1>0, <2>3
  <2> QED  BY <2>3, <2>4, ElidedAre
<1>2. ASSUME NEW i \in Drawn, RowSays(i).part # NoPart
      PROVE  Decisions[i].results[RowSays(i).part] # "ALLOW"
  <2>1. i \in 1..Len(log)
    BY DrawnAre
  <2>2. DecisionHolds(log, Len(log) + 1 - i) /\ Decisions[i] = log[Len(log) + 1 - i]
    BY <2>1, DecisionsAre DEF RecordInv
  <2>3. Decisions[i].verdict = "deny" /\ RowSays(i).part = Decisions[i].reason
    BY <1>2 DEF RowSays
  <2>4. Decisions[i].reason \in Parts
    BY <1>2, <2>2, <2>3 DEF DecisionHolds
  <2> QED  BY <2>2, <2>3, <2>4 DEF DecisionHolds
<1> QED  BY <1>1, <1>2 DEF RowsAreTrue

(* The figures.                                                            *)
LEMMA FirstN ==
  ASSUME NEW n \in Nat
  PROVE  IsFiniteSet(1..n) /\ Cardinality(1..n) = n
<1>1. /\ IsFiniteSet(1..n)
      /\ Cardinality(1..n) = IF 1 > n THEN 0 ELSE n - 1 + 1
  BY FS_Interval
<1> QED  BY <1>1

LEMMA CountsAre ==
  ASSUME RecordInv
  PROVE  /\ With("allow") \cap With("deny") = {}
         /\ IsFiniteSet(With("allow")) /\ IsFiniteSet(With("deny"))
         /\ Allowed \in Nat /\ Refused \in Nat /\ Allowed + Refused <= Len(log)
         /\ Refused = 0 <=> With("deny") = {}
<1>0. Len(log) \in Nat /\ DOMAIN log = 1..Len(log)
  BY DecisionsAre
<1> DEFINE D == 1..Len(log)
<1>1. IsFiniteSet(D) /\ Cardinality(D) = Len(log)
  BY <1>0, FirstN
<1>2. /\ With("allow") \cap With("deny") = {}
      /\ With("allow") \subseteq D /\ With("deny") \subseteq D
  BY <1>0 DEF With
<1> DEFINE a == With("allow")
           b == With("deny")
<1> HIDE DEF D, a, b
<1>3. a \cap b = {} /\ a \subseteq D /\ b \subseteq D
  BY <1>2 DEF a, b
<1>4. /\ IsFiniteSet(a) /\ Cardinality(a) \in Nat
      /\ IsFiniteSet(b) /\ Cardinality(b) \in Nat
  BY <1>1, <1>3, FS_Subset, FS_CardinalityType
<1>5. /\ IsFiniteSet(a \cup b)
      /\ Cardinality(a \cup b) = Cardinality(a) + Cardinality(b) - Cardinality(a \cap b)
  BY <1>4, FS_Union
<1>6. Cardinality(a \cap b) = 0
  BY <1>3, FS_EmptySet
<1>7. Cardinality(a \cup b) <= Len(log)
  BY <1>1, <1>3, FS_Subset
<1>8. Cardinality(a) + Cardinality(b) <= Len(log)
  BY <1>0, <1>4, <1>5, <1>6, <1>7
<1>9. Cardinality(b) = 0 <=> b = {}
  BY <1>4, FS_EmptySet
<1> QED  BY <1>2, <1>4, <1>8, <1>9 DEF a, b, Allowed, Refused

(* None were refused just when no row that is drawn is a refusal.          *)
LEMMA HeadlineAgrees ==
  ASSUME RecordInv
  PROVE  With("deny") = {} <=> \A i \in Drawn : RowSays(i).says = "allowed"
<1>0. Len(log) \in Nat /\ DOMAIN log = 1..Len(log)
  BY DecisionsAre
<1>1. ASSUME With("deny") = {}, NEW i \in Drawn PROVE RowSays(i).says = "allowed"
  <2>1. i \in 1..Len(log)
    BY DrawnAre
  <2>2. Decisions[i].verdict # "deny"
    BY <1>1, <2>1, DecisionsAre DEF With
  <2> QED  BY <2>2 DEF RowSays
<1>2. ASSUME \A i \in Drawn : RowSays(i).says = "allowed", NEW n \in With("deny")
      PROVE  FALSE
  <2>1. n \in 1..Len(log) /\ log[n].verdict = "deny"
    BY <1>0 DEF With
  <2> DEFINE i == Len(log) + 1 - n
  <2>2. i \in 1..Len(log) /\ Len(log) + 1 - i = n
    BY <1>0, <2>1
  <2> HIDE DEF i
  <2>3. Decisions[i].verdict = "deny"
    BY <2>1, <2>2, DecisionsAre
  <2>4. PICK h \in Heads : i \in h..LastOf(h)
    BY <2>2, HeadOf
  <2>5. h \in 1..Len(log) /\ LastOf(h) \in h..Len(log) /\ Alike(h, i)
    BY <2>4, HeadsAre, LastIs
  <2>6. Decisions[h].verdict = "deny"
    BY <2>3, <2>5 DEF Alike
  <2>7. h \in (IF Collapses(h) THEN {h} ELSE h..LastOf(h))
    BY <1>0, <2>5
  <2>8. h \in Drawn
    BY <2>7, ElidedAre
  <2>9. RowSays(h).says = "refused"
    BY <2>6 DEF RowSays
  <2> QED  BY <1>2, <2>8, <2>9
<1> QED  BY <1>1, <1>2

LEMMA StripWhole == RecordInv => StripAddsUp
<1> SUFFICES ASSUME RecordInv PROVE StripAddsUp
  OBVIOUS
<1>0. Len(log) \in Nat /\ DOMAIN log = 1..Len(log) /\ log \in Seq(Decision)
  BY DecisionsAre DEF RecordInv
<1>1. ASSUME NEW i \in 1..Len(log)
      PROVE  Strip[i].side = (IF log[i].executed THEN "above" ELSE "below")
             /\ Strip[i].running = Running(i)
  BY <1>0 DEF Strip
<1>2. ASSUME log # <<>> PROVE Strip[Len(log)].running = Figures.moved
  <2>1. Len(log) \in 1..Len(log)
    BY <1>0, <1>2
  <2>2. Moved \cap (1..Len(log)) = Moved
    BY <1>0 DEF Moved
  <2> QED  BY <1>1, <2>1, <2>2 DEF Running, Figures, Committed
<1>3. ASSUME NEW i \in 2..Len(log), Strip[i].side = "below"
      PROVE  Strip[i].running = Strip[i - 1].running
  <2>1. i \in 1..Len(log) /\ i - 1 \in 1..Len(log)
    BY <1>0
  <2>2. ~log[i].executed
    BY <1>1, <1>3, <2>1
  <2>3. Moved \cap (1..i) = Moved \cap (1..(i - 1))
    BY <1>0, <2>1, <2>2 DEF Moved
  <2>4. Running(i) = Running(i - 1)
    BY <2>3 DEF Running
  <2> QED  BY <1>1, <2>1, <2>4
<1>4. ASSUME NEW i \in DOMAIN Strip, Strip[i].side = "above"
      PROVE  log[i].verdict = "allow" \/ log[i].reason = OtherAmount(log[i].amount)
  <2>1. i \in 1..Len(log)
    BY <1>0 DEF Strip
  <2>2. log[i].executed /\ DecisionHolds(log, i)
    BY <1>0, <1>1, <1>4, <2>1 DEF RecordInv
  <2> QED  BY <2>2 DEF DecisionHolds
<1>5. Headline.turn = "none refused" <=> \A i \in Drawn : RowSays(i).says = "allowed"
  <2>1. Headline.turn = "none refused" <=> Refused = 0
    BY DEF Headline
  <2> QED  BY <2>1, CountsAre, HeadlineAgrees
<1>6. Figures.allowed + Figures.refused <= Figures.chain
  BY CountsAre DEF Figures
<1> QED  BY <1>2, <1>3, <1>4, <1>5, <1>6 DEF StripAddsUp

(* A part that is cited says that it refuses; the velocity too, if every   *)
(* entry that counted against it was placed.                               *)
LEMMA CitedRefuses ==
  ASSUME RecordInv, NEW n \in DOMAIN log, log[n].reason \in Parts
  PROVE  /\ Cited(log[n].reason) > 0
         /\ Badge(log[n].reason) = "refuses" \/ (log[n].reason = VelocityPart /\ Unanswered # {})
<1>0. Len(log) \in Nat /\ DOMAIN log = 1..Len(log) /\ log[n].reason \notin UnsetParts
  BY DecisionsAre DEF RecordInv, DecisionHolds
<1>1. Cited(log[n].reason) > 0
  <2> DEFINE C == {m \in DOMAIN log : log[m].reason = log[n].reason}
  <2>1. n \in C /\ C \subseteq 1..Len(log)
    BY <1>0
  <2> HIDE DEF C
  <2>2. IsFiniteSet(C) /\ Cardinality(C) \in Nat
    <3>1. IsFiniteSet(1..Len(log))
      BY <1>0, FirstN
    <3> QED  BY <2>1, <3>1, FS_Subset, FS_CardinalityType
  <2>3. Cardinality(C) # 0
    BY <2>1, <2>2, FS_EmptySet
  <2> QED  BY <2>2, <2>3 DEF Cited, C
<1>2. ASSUME log[n].reason = VelocityPart, Unanswered = {}
      PROVE  Badge(log[n].reason) = "refuses"
  <2> DEFINE B == {m \in 1..(n - 1) : TookPlace(log, m)}
  <2>1. VelocityCap <= Cardinality(B)
    BY <1>2 DEF RecordInv, DecisionHolds
  <2>2. B \subseteq Live
    BY <1>0, LiveIs
  <2>3. Live = With("allow")
    BY <1>2 DEF Live
  <2> HIDE DEF B
  <2>4. Cardinality(B) \in Nat /\ Cardinality(B) <= Allowed /\ Allowed \in Nat
    BY <2>2, <2>3, CountsAre, FS_Subset, FS_CardinalityType DEF Allowed
  <2>5. Allowed >= VelocityCap
    BY <2>1, <2>4, RecordAssumption
  <2> QED  BY <1>0, <1>2, <2>5 DEF Badge
<1>3. log[n].reason # VelocityPart => Badge(log[n].reason) = "refuses"
  BY <1>0, <1>1 DEF Badge
<1> QED  BY <1>1, <1>2, <1>3

LEMMA ClaimTrue == RecordInv => ClaimIsTrue
<1> SUFFICES ASSUME RecordInv PROVE ClaimIsTrue
  OBVIOUS
<1> DEFINE reasons == {log[n].reason : n \in With("deny")}
<1>1. ASSUME Claim.part # NoPart
      PROVE  /\ \A n \in With("deny") : log[n].reason = Claim.part
             /\ Inked(Claim.part) /\ Cited(Claim.part) > 0
  <2>1. Claim.part = BindingPart /\ BindingPart # NoPart
    BY <1>1 DEF Claim
  <2>2. \E p \in Parts : reasons = {p}
    BY <2>1 DEF BindingPart
  <2>3. BindingPart = CHOOSE p \in Parts : reasons = {p}
    BY <2>2 DEF BindingPart
  <2>4. BindingPart \in Parts /\ reasons = {BindingPart}
    <3> HIDE DEF reasons
    <3> QED  BY <2>2, <2>3
  <2>5. PICK n \in With("deny") : log[n].reason = BindingPart
    BY <2>4
  <2>6. n \in DOMAIN log
    BY DEF With
  <2>7. Cited(BindingPart) > 0
    BY <2>4, <2>5, <2>6, CitedRefuses
  <2> QED  BY <2>1, <2>4, <2>7 DEF Inked
<1>2. ASSUME NEW p \in Parts \ UnsetParts, Cited(p) > 0
      PROVE  Badge(p) = "refuses" \/ (p = VelocityPart /\ Unanswered # {})
  <2>1. {n \in DOMAIN log : log[n].reason = p} # {}
    BY <1>2, FS_EmptySet DEF Cited
  <2>2. PICK n \in DOMAIN log : log[n].reason = p
    BY <2>1
  <2> QED  BY <2>2, CitedRefuses
<1> QED  BY <1>1, <1>2 DEF ClaimIsTrue

(* For any parts, limits, amounts and length of a run: the chain has every *)
(* decision once, the strip and the headline add up to the figures, and    *)
(* the part that is said to have refused did.                              *)
THEOREM RunIsWhole == RecordSpec => []RecordIsWhole
<1>1. RecordInit => RecordInv
  <2> SUFFICES ASSUME RecordInit PROVE RecordInv
    OBVIOUS
  <2>1. log = <<>> /\ log \in Seq(Decision) /\ Len(log) = 0 /\ DOMAIN log = {}
    BY DEF RecordInit
  <2> QED  BY <2>1, RecordAssumption DEF RecordInv
<1>2. RecordInv /\ [RecordNext]_log => RecordInv'
  <2> SUFFICES ASSUME RecordInv, [RecordNext]_log PROVE RecordInv'
    OBVIOUS
  <2>1. CASE UNCHANGED log
    BY <2>1 DEF RecordInv, DecisionHolds, TookPlace
  <2>2. CASE RecordNext
    BY <2>2, AttemptHolds DEF RecordNext
  <2> QED  BY <2>1, <2>2
<1>3. RecordInv => RecordIsWhole
  BY ChainWhole, RowsTrue, StripWhole, ClaimTrue DEF RecordIsWhole
<1> QED  BY <1>1, <1>2, <1>3, PTL DEF RecordSpec

=============================================================================
