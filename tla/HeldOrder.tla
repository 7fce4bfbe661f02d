------------------------------ MODULE HeldOrder ------------------------------
(***************************************************************************)
(* An order held for approval, as the browser shows it: the sandbox tab    *)
(* (web/src/components/v2/SandboxPanel.tsx) compiles a mandate, proposes   *)
(* baskets under it and, when one is held, mounts HeldForApproval, which   *)
(* polls the item and can approve it.  The service is the pending queue    *)
(* and the approval store (service/pending.py, service/server.py), their   *)
(* handlers taken whole here and step by step in Approvals.                *)
(*                                                                         *)
(* No answer is cancelled: one that comes after the tab has moved on is    *)
(* still applied, and a late approval puts its order back on the page.     *)
(***************************************************************************)
EXTENDS Integers, Sequences, FiniteSets, FiniteSetsExt

CONSTANTS
  Baskets,       \* what the visitor proposes; each is above the threshold
  MaxSandboxes,  \* bound: mandates compiled
  MaxProbes      \* bound: orders proposed

VARIABLES
  sandbox, busy, probe, held,     \* React state of the tab
  panel,                          \* React state of the mounted HeldForApproval
  probing,                        \* the runProbe under way
  polls, post,                    \* requests of HeldForApproval, answered or not
  queue, released,                 \* pending queue and approval store
  compiled, probed                \* how many of each so far

heldVars == <<sandbox, busy, probe, held, panel, probing, polls, post,
              queue, released, compiled, probed>>

None == 0
Statuses == {"pending", "approved", "rejected", "expired"}
NoProbe == [verdict |-> "none", sandbox |-> None]
NotProbing == [pc |-> "idle", sandbox |-> None, basket |-> None, verdict |-> "none"]
\* The component, or what it would be mounted with: `at' tells one mounting from
\* another, `swapped' says that findHeldOrder put another order under it.
NoPanel == [at |-> 0, status |-> "pending", swapped |-> FALSE]
NoPost == [ref |-> None, at |-> 0, answer |-> "none"]

HeldInit ==
  /\ sandbox = None /\ busy = FALSE /\ probe = NoProbe /\ held = None
  /\ panel = NoPanel /\ probing = NotProbing /\ polls = {} /\ post = NoPost
  /\ queue = <<>> /\ released = {} /\ compiled = 0 /\ probed = 0

Tab == <<sandbox, busy, probe, probing, compiled, probed>>
Service == <<queue, released>>
Requests == <<polls, post>>
-----------------------------------------------------------------------------
(* The tab.                                                                *)

\* The buttons of the tab: one is off while a mandate is read, the other while an
\* order is out, and neither looks at the other.
CanCompile == ~busy
CanProbe == sandbox # None /\ probing = NotProbing

\* What the tab says of the last order: an error is said to be refused.
ProbeSays ==
  CASE probe.verdict = "none" -> "nothing"
    [] probe.verdict = "ALLOW" -> "went through"
    [] probe.verdict = "UNKNOWN" -> "held for you"
    [] probe.verdict \in {"DENY", "ERROR"} -> "refused"

Mounted == held # None /\ sandbox # None
NewPanel(s) == [at |-> panel.at + 1, status |-> s, swapped |-> FALSE]
Unmount == held' = None /\ panel' = [NoPanel EXCEPT !.at = panel.at]

Compile ==
  /\ CanCompile /\ compiled < MaxSandboxes
  /\ compiled' = compiled + 1
  /\ busy' = TRUE /\ sandbox' = None /\ probe' = NoProbe /\ Unmount
  /\ UNCHANGED <<probing, Requests, Service, probed>>

\* A mandate, or a refusal, a timeout, an error.
Compiled ==
  /\ busy /\ busy' = FALSE
  /\ sandbox' \in {sandbox, compiled}
  /\ UNCHANGED <<probe, held, panel, probing, Requests, Service, compiled, probed>>

\* runProbe keeps the token of the sandbox it started under.
RunProbe(b) ==
  /\ CanProbe /\ probed < MaxProbes
  /\ probed' = probed + 1
  /\ probing' = [NotProbing EXCEPT !.pc = "order", !.sandbox = sandbox, !.basket = b]
  /\ Unmount
  /\ UNCHANGED <<sandbox, busy, probe, Requests, Service, compiled>>

Pending(k) == queue[k].status = "pending" /\ ~queue[k].overdue

\* PendingApprovals.open: an item that is still pending is found by its basket,
\* whichever sandbox it was opened for.
Open(s, b) ==
  IF \E k \in DOMAIN queue : Pending(k) /\ queue[k].basket = b THEN UNCHANGED queue
  ELSE queue' = Append(queue, [jti |-> s, basket |-> b, status |-> "pending",
                               overdue |-> FALSE])

\* The gateway holds the basket, lets it through under an approval, or refuses
\* it on a limit of the visitor's own; or its answer never comes.
ServeProbe ==
  /\ probing.pc = "order"
  /\ \E v \in {"UNKNOWN", "ALLOW", "DENY", "ERROR"} :
       /\ v = "ALLOW" => \E k \in released : queue[k].basket = probing.basket
       /\ \/ v \in {"UNKNOWN", "ERROR"} /\ Open(probing.sandbox, probing.basket)
          \/ v # "UNKNOWN" /\ UNCHANGED queue
       /\ probing' = [probing EXCEPT !.pc = "answer", !.verdict = v]
  /\ UNCHANGED <<sandbox, busy, probe, held, panel, Requests, released, compiled, probed>>

ProbeAnswered ==
  /\ probing.pc = "answer"
  /\ probe' = [verdict |-> probing.verdict, sandbox |-> probing.sandbox]
  /\ probing' = IF probing.verdict = "UNKNOWN" THEN [probing EXCEPT !.pc = "find"]
                ELSE NotProbing
  /\ UNCHANGED <<sandbox, busy, held, panel, Requests, Service, compiled, probed>>

\* The component has no key: mounted already, it keeps its status and gets
\* another item.
Mount(k) ==
  /\ held' = k
  /\ panel' = IF Mounted THEN [panel EXCEPT !.swapped = TRUE] ELSE NewPanel("pending")

\* findHeldOrder shows the newest item of that principal that is still pending.
FindHeldOrder ==
  LET mine == {k \in DOMAIN queue : queue[k].jti = probing.sandbox /\ Pending(k)} IN
  /\ probing.pc = "find"
  /\ probing' = NotProbing
  /\ \/ mine # {} /\ Mount(Max(mine))
     \/ UNCHANGED <<held, panel>>       \* none, or no answer
  /\ UNCHANGED <<sandbox, busy, probe, Requests, Service, compiled, probed>>
-----------------------------------------------------------------------------
(* HeldForApproval.                                                        *)

\* What the component shows: that the order is approved, or a code for the phone
\* and a button, for an order that is rejected or expired too.
OffersApproval == Mounted /\ panel.status # "approved"
SaysApproved == Mounted /\ panel.status = "approved"

\* setStatus reaches the component only while it is mounted; onApproved reaches
\* the tab whatever it shows by then, and remounts an order that is gone.
OnApproved(k, at) ==
  /\ held' = k
  /\ panel' = IF ~Mounted THEN NewPanel("approved")
              ELSE IF panel.at = at THEN [panel EXCEPT !.status = "approved"] ELSE panel

Poll ==
  /\ Mounted /\ panel.status = "pending"
  /\ ~\E p \in polls : p.ref = held /\ p.at = panel.at
  /\ polls' = polls \cup {[ref |-> held, at |-> panel.at, answer |-> "none"]}
  /\ UNCHANGED <<Tab, held, panel, post, Service>>

\* GET /v1/approve/{ref}: get, which marks an overdue item expired.
Looked(k) == IF queue[k].status = "pending" /\ queue[k].overdue
             THEN "expired" ELSE queue[k].status

ServePoll(p) ==
  /\ p.answer = "none"
  /\ queue' = [queue EXCEPT ![p.ref].status = Looked(p.ref)]
  /\ polls' = (polls \ {p}) \cup {[p EXCEPT !.answer = Looked(p.ref)]}
  /\ UNCHANGED <<Tab, held, panel, post, released>>

LosePoll(p) ==
  /\ polls' = polls \ {p}
  /\ UNCHANGED <<Tab, held, panel, post, Service>>

\* Mutant: any answer but `pending' is taken for an approval.
Polled_AnyAnswer(p) ==
  /\ p.answer # "none" /\ polls' = polls \ {p}
  /\ IF p.answer = "pending" THEN UNCHANGED <<held, panel>> ELSE OnApproved(p.ref, p.at)
  /\ UNCHANGED <<Tab, post, Service>>

\* Mutant: only a refusal ends the wait.
Polled_NotApproved(p) ==
  /\ p.answer # "none" /\ polls' = polls \ {p}
  /\ panel' = IF Mounted /\ panel.at = p.at /\ p.answer \notin {"pending", "approved"}
              THEN [panel EXCEPT !.status = p.answer] ELSE panel
  /\ UNCHANGED <<Tab, held, post, Service>>

Polled(p) ==
  /\ p.answer # "none" /\ polls' = polls \ {p}
  /\ IF p.answer = "approved" THEN OnApproved(p.ref, p.at)
     ELSE /\ panel' = IF Mounted /\ panel.at = p.at /\ p.answer # "pending"
                      THEN [panel EXCEPT !.status = p.answer] ELSE panel
          /\ UNCHANGED held
  /\ UNCHANGED <<Tab, post, Service>>

ApproveHere ==
  /\ OffersApproval /\ post = NoPost
  /\ post' = [ref |-> held, at |-> panel.at, answer |-> "none"]
  /\ UNCHANGED <<Tab, held, panel, polls, Service>>

\* POST /v1/approve, from this page or another holder of the reference.
Decide(k, decision) ==
  /\ queue' = [queue EXCEPT ![k].status =
       IF Pending(k) THEN decision ELSE Looked(k)]
  /\ released' = IF Pending(k) /\ decision = "approved" THEN released \cup {k} ELSE released

ServePost ==
  /\ post # NoPost /\ post.answer = "none"
  /\ Decide(post.ref, "approved")
  /\ \E a \in {IF Pending(post.ref) THEN "ok" ELSE "refused", "lost"} :
       post' = [post EXCEPT !.answer = a]
  /\ UNCHANGED <<Tab, held, panel, polls>>

Posted ==
  /\ post.answer # "none" /\ post' = NoPost
  /\ IF post.answer = "ok" THEN OnApproved(post.ref, post.at) ELSE UNCHANGED <<held, panel>>
  /\ UNCHANGED <<Tab, polls, Service>>

Elsewhere(k) ==
  /\ Pending(k) /\ \E d \in {"approved", "rejected"} : Decide(k, d)
  /\ UNCHANGED <<Tab, held, panel, Requests>>

PassDeadline(k) ==
  /\ Pending(k) /\ queue' = [queue EXCEPT ![k].overdue = TRUE]
  /\ UNCHANGED <<Tab, held, panel, Requests, released>>

HeldNext ==
  \/ Compile \/ Compiled \/ (\E b \in Baskets : RunProbe(b))
  \/ ServeProbe \/ ProbeAnswered \/ FindHeldOrder
  \/ Poll \/ (\E p \in polls : ServePoll(p) \/ LosePoll(p) \/ Polled(p))
  \/ ApproveHere \/ ServePost \/ Posted
  \/ \E k \in DOMAIN queue : Elsewhere(k) \/ PassDeadline(k)

HeldSpec == HeldInit /\ [][HeldNext]_heldVars

\* setInterval fires, a request is served, and polls are not lost for ever.
HeldFairness ==
  /\ WF_heldVars(Poll)
  /\ SF_heldVars(\E p \in polls : ServePoll(p))
  /\ SF_heldVars(\E p \in polls : Polled(p))
-----------------------------------------------------------------------------
HeldTypes ==
  /\ sandbox \in 0..MaxSandboxes /\ busy \in BOOLEAN /\ held \in 0..Len(queue)
  /\ panel.status \in Statuses /\ released \subseteq DOMAIN queue
  /\ \A p \in polls : p.ref \in DOMAIN queue
  /\ probing.pc \in {"idle", "order", "answer", "find"}

\* "You released this one basket. A different basket of the same value still
\* stops here": the page says an order is approved only when the approval store
\* holds an approval given for that very order.
ReleasedIsThisOne ==
  SaysApproved => held \in released

\* So it does, whatever was answered late, lost, decided elsewhere or compiled
\* anew, unless another order was put under a panel mounted by a late approval.
ApprovedIsGranted == ~panel.swapped => ReleasedIsThisOne

\* "Calling a held order refused would say the gateway decided when it did not":
\* so it does when the answer to a held order is lost.
RefusedIsRefused == ProbeSays = "refused" => probe.verdict = "DENY"

\* The panel does not wait for ever for an order that was decided.
DecisionReachesPage ==
  \A k \in 1..MaxProbes :
    (Mounted /\ held = k /\ queue[k].status = "approved")
      ~> (~Mounted \/ held # k \/ panel.status # "pending")
=============================================================================
