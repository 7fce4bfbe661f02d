------------------------------ MODULE Console -------------------------------
(***************************************************************************)
(* The judge console (web/src/pages/JudgeConsole.tsx) and the part of the  *)
(* service it talks to.  Every click starts a flow: an asynchronous        *)
(* function that waits for the network several times and keeps, between    *)
(* waits, the token and the preset it started with.  Nothing cancels a     *)
(* flow, and the timers that paint the limits are never cleared.           *)
(***************************************************************************)
EXTENDS Integers, Sequences

CONSTANTS
  MaxFlows,     \* bound: asynchronous calls that may be under way at once
  MaxTokens,    \* tokens the service's pool can still hand out
  MaxClicks, MaxResets,   \* bounds: runs and cut-offs, and `Start over', a visitor asks for
  Orders,       \* Orders[p]: baskets preset p sends, one after the other
  RevokeFirst, QuoteFirst,   \* presets that revoke, or ask for a quote, first
  Expected,     \* Expected[p]: outcome the preset falls back to offline
  NParts, Unset \* the limits in order, and those the mandate leaves off

ASSUME ConsoleAssumption ==
  /\ MaxFlows \in Nat \ {0} /\ MaxTokens \in Nat /\ MaxClicks \in Nat
  /\ MaxResets \in Nat /\ NParts \in Nat
  /\ Orders \in [DOMAIN Orders -> Nat \ {0}]
  /\ Expected \in [DOMAIN Orders ->
       [verdict : {"ALLOW", "DENY", "IDEMPOTENT", "REVOKED"}, executed : BOOLEAN,
        stopped : 0..NParts]]
  /\ \A p \in DOMAIN Orders : /\ Expected[p].executed <=> Expected[p].verdict = "ALLOW"
                             /\ Expected[p].stopped \notin Unset
  /\ RevokeFirst \subseteq DOMAIN Orders /\ QuoteFirst \subseteq DOMAIN Orders
  /\ Unset \subseteq 1..NParts

VARIABLES
  session, isRevoked, loading,      \* React state of the page
  decisions, results, currentDisplay, clauseRowStates,
  timers,                           \* timers[i]: colours still to be painted on limit i
  flow, clicks, resets,
  issued, revoked,                  \* the service: tokens, revocation list,
  placed, uncommitted               \* orders on the rail, entries not COMMITTED

consoleVars == <<session, isRevoked, loading, decisions, results, currentDisplay,
  clauseRowStates, timers, flow, clicks, resets, issued, revoked, placed, uncommitted>>

Flows == 1..MaxFlows
Presets == DOMAIN Orders
Parts == 1..NParts
None == 0
Sim == -1                            \* the token 'sim_token'
Tokens == 1..MaxTokens
RowState == {"idle", "allow", "deny", "skip"}

\* What a row of the page's ledger keeps of an outcome.  `from' and `basket'
\* stand for the record hash: whose gateway answered, and for which order.
Rec(v, ex, lv, stop, tok, p, k) ==
  [verdict |-> v, executed |-> ex, live |-> lv, stopped |-> stop,
   from |-> tok, preset |-> p, basket |-> k]

Blank == [verdict |-> "none", executed |-> FALSE, live |-> TRUE, stopped |-> 0,
          from |-> None, preset |-> "none", basket |-> 0]

\* An order's answer: the verdict in its body ("none" in an error's), whether
\* it executed, the limit it names; status 403 is "cut".  The page tells UNKNOWN from
\* DENY nowhere: both are "DENY".
Answer(v, ex, stop) == [verdict |-> v, executed |-> ex, stopped |-> stop]
NoAnswer == Answer("none", FALSE, 0)

Idle == [kind |-> "none", pc |-> "idle", net |-> "sent", token |-> None,
         preset |-> "none", left |-> 0, ans |-> NoAnswer]
-----------------------------------------------------------------------------
\* Which buttons the page offers, and what it says of an outcome.

CanRun == ~loading /\ session # None
CanCut == ~isRevoked /\ session # None

Says(d) == IF d.executed THEN "through"
           ELSE IF d.verdict = "IDEMPOTENT" THEN "already" ELSE "refused"

\* A row of the ledger, and the chip beside a preset that was run.
RowSays(i) == Says(decisions[i])

OutcomeChip(d) == IF d.executed THEN "through"
                  ELSE IF d.verdict = "REVOKED" THEN "cut"
                  ELSE IF d.verdict = "IDEMPOTENT" THEN "already" ELSE "refused"

ListChip(p) == IF results[p] = Blank THEN "none" ELSE OutcomeChip(results[p])

AnySimulated == \E i \in DOMAIN decisions : ~decisions[i].live

\* The colour `finish' gives limit i for an outcome.  A repeat of a placed order
\* passed every limit only if the gateway said so.
Colour(d, i) ==
  IF d.verdict = "ALLOW" \/ (d.live /\ d.verdict = "IDEMPOTENT") THEN "allow"
  ELSE IF d.stopped = 0 \/ i > d.stopped THEN "skip"
  ELSE IF i = d.stopped THEN "deny" ELSE "allow"

RowIs(c) == {i \in Parts \ Unset : clauseRowStates[i] = c}
AllIdle == [i \in Parts |-> "idle"]
-----------------------------------------------------------------------------
ConsoleInit ==
  /\ session = None /\ isRevoked = FALSE /\ loading = TRUE
  /\ decisions = <<>> /\ results = [p \in Presets |-> Blank]
  /\ currentDisplay = Blank /\ clauseRowStates = AllIdle
  /\ timers = [i \in Parts |-> <<>>]
  /\ flow = [f \in Flows |->          \* the effect that runs on mounting
       IF f = 1 THEN [Idle EXCEPT !.kind = "open", !.pc = "open"] ELSE Idle]
  /\ clicks = 0 /\ resets = 0 /\ issued = 0 /\ revoked = {}
  /\ placed = {} /\ uncommitted = {}

\* A flow that has ended gives its slot to the next one.
FreeSlot(f) == flow[f] = Idle /\ \A g \in 1..(f - 1) : flow[g] # Idle

Ledger == <<placed, uncommitted>>
Server == <<issued, revoked, Ledger>>
Shown == <<decisions, results, currentDisplay, clauseRowStates>>

\* initSession, called again by `Start over' while older flows go on.
Reset(f) ==
  /\ resets < MaxResets /\ FreeSlot(f)
  /\ resets' = resets + 1
  /\ decisions' = <<>> /\ results' = [p \in Presets |-> Blank]
  /\ currentDisplay' = Blank /\ clauseRowStates' = AllIdle
  /\ loading' = TRUE /\ isRevoked' = FALSE
  /\ flow' = [flow EXCEPT ![f] = [Idle EXCEPT !.kind = "open", !.pc = "open"]]
  /\ UNCHANGED <<session, timers, clicks, Server>>

\* The head of runEvaluationPipeline: the panel is cleared before anything is sent.
Clear == loading' = TRUE /\ currentDisplay' = Blank /\ clauseRowStates' = AllIdle
Ask(p) == IF p \in QuoteFirst THEN "quote" ELSE "order"

RunPreset(f, p) ==
  LET cut == p \in RevokeFirst /\ ~isRevoked IN
  /\ CanRun /\ clicks < MaxClicks /\ FreeSlot(f)
  /\ clicks' = clicks + 1
  /\ flow' = [flow EXCEPT ![f] =
       [Idle EXCEPT !.kind = "run", !.pc = IF cut THEN "cut" ELSE Ask(p),
                    !.token = session, !.preset = p, !.left = Orders[p]]]
  /\ IF cut THEN UNCHANGED <<loading, currentDisplay, clauseRowStates>> ELSE Clear
  /\ UNCHANGED <<session, isRevoked, decisions, results, timers, resets, Server>>

CutOff(f) ==
  /\ CanCut /\ clicks < MaxClicks /\ FreeSlot(f)
  /\ clicks' = clicks + 1
  /\ flow' = [flow EXCEPT ![f] =
       [Idle EXCEPT !.kind = "revoke", !.pc = "cut", !.token = session]]
  /\ UNCHANGED <<session, isRevoked, loading, Shown, timers, resets, Server>>
-----------------------------------------------------------------------------
\* The service.  A request is served once; its answer may then be lost.

OrderOf(f) == <<flow[f].token, flow[f].preset, flow[f].left>>

\* What propose answers before it asks the rail for a new order.  A token that
\* was cut off since the request came in is refused by the gateway itself, and an
\* order whose entry is still PENDING, or FAILED, is not sent again.
Verdicts(f) ==
  IF flow[f].token = Sim THEN {NoAnswer}
  ELSE IF flow[f].token \in revoked \/ OrderOf(f) \in uncommitted THEN {Answer("DENY", FALSE, 0)}
  ELSE IF OrderOf(f) \in placed THEN {Answer("ALLOW", FALSE, 0)}
  ELSE {Answer("ALLOW", TRUE, 0)}
       \cup {Answer("DENY", FALSE, i) : i \in {0} \cup (Parts \ Unset)}

\* create_order looks at the token and then waits for the body.
Hear(f) ==
  LET r == flow[f]
      cut == r.token \in revoked
  IN
  /\ r.pc = "order" /\ r.net = "sent"
  /\ flow' = [flow EXCEPT ![f].net = IF cut THEN "answered" ELSE "heard",
                          ![f].ans = IF cut THEN Answer("cut", FALSE, 0) ELSE @]
  /\ UNCHANGED <<session, isRevoked, loading, Shown, timers, clicks, resets, Server>>

\* The flow is sent answer a, or the answer is lost.
Sends(f, a) ==
  flow' \in {[flow EXCEPT ![f].net = "answered", ![f].ans = a], [flow EXCEPT ![f].net = "lost"]}

Place(f) ==
  /\ \E a \in Verdicts(f) :
       /\ Sends(f, a)
       /\ placed' = IF a.executed THEN placed \cup {OrderOf(f)} ELSE placed
  /\ UNCHANGED uncommitted

\* A new order passed every limit and the rail gave none back: no answer in time,
\* an error, or another amount and a void that may fail.  The order may stand.
RailFails(f) ==
  /\ flow[f].token \notin revoked \cup {Sim} /\ OrderOf(f) \notin placed \cup uncommitted
  /\ Sends(f, Answer("DENY", FALSE, 0))
  /\ uncommitted' = uncommitted \cup {OrderOf(f)}
  /\ placed' \in {placed, placed \cup {OrderOf(f)}}

CutToken(f) ==
  /\ revoked' = revoked \cup ({flow[f].token} \ {Sim})
  /\ Sends(f, NoAnswer)

Serve(f) ==
  /\ \/ /\ flow[f].pc = "order" /\ flow[f].net = "heard"
        /\ Place(f) \/ RailFails(f)
        /\ UNCHANGED revoked
     \/ flow[f].pc = "cut" /\ flow[f].net = "sent" /\ CutToken(f) /\ UNCHANGED Ledger
  /\ UNCHANGED <<session, isRevoked, loading, Shown, timers, clicks, resets, issued>>

\* The request does not reach the service.
Lose(f) ==
  /\ flow[f].pc \in {"order", "cut"} /\ flow[f].net = "sent"
  /\ flow' = [flow EXCEPT ![f].net = "lost"]
  /\ UNCHANGED <<session, isRevoked, loading, Shown, timers, clicks, resets, Server>>
-----------------------------------------------------------------------------
\* The page goes on with an answer, or in its catch block.

Arrived(f, pc) == flow[f].pc = pc /\ flow[f].net \in {"answered", "lost"}
Lost(f) == flow[f].net = "lost"

Listed(d) == <<d>> \o decisions

\* POST /v1/session, or initFallbackData when it is refused or unreachable.
Opened(f) ==
  /\ flow[f].pc = "open"
  /\ \/ issued < MaxTokens /\ issued' = issued + 1 /\ session' = issued + 1
     \/ session' = Sim /\ UNCHANGED issued
  /\ loading' = FALSE /\ flow' = [flow EXCEPT ![f] = Idle]
  /\ UNCHANGED <<isRevoked, Shown, timers, clicks, resets, revoked, Ledger>>

\* handleRevoke: the answer's status is not looked at.
Revoked(f) ==
  LET r == flow[f]
      d == Rec("REVOKED", FALSE, ~Lost(f), 0, r.token, "none", 0)
  IN
  /\ Arrived(f, "cut")
  /\ isRevoked' = TRUE /\ decisions' = Listed(d)
  /\ IF r.kind = "run"
     THEN /\ Clear
          /\ flow' = [flow EXCEPT ![f].pc = Ask(r.preset), ![f].net = "sent"]
     ELSE /\ currentDisplay' = d /\ clauseRowStates' = [i \in Parts |-> "skip"]
          /\ flow' = [flow EXCEPT ![f] = Idle] /\ UNCHANGED loading
  /\ UNCHANGED <<session, results, timers, clicks, resets, Server>>

\* An unsigned, late or missing quote only loses the comparison.
Quoted(f) ==
  /\ flow[f].pc = "quote"
  /\ flow' = [flow EXCEPT ![f].pc = "order", ![f].net = "sent"]
  /\ UNCHANGED <<session, isRevoked, loading, Shown, timers, clicks, resets, Server>>

\* Mutant: `executed' is read off the verdict.
Outcome_ByVerdict(f) ==
  LET r == flow[f]
      a == IF Lost(f) THEN Expected[r.preset] ELSE r.ans
      v == IF a.verdict = "cut" THEN "REVOKED" ELSE a.verdict
  IN  Rec(v, a.verdict = "ALLOW", ~Lost(f), a.stopped, r.token, r.preset, r.left)

\* What a preset's run makes of an answer; a repeat of a placed order is told
\* from the order itself by `executed'.
Outcome(f) ==
  LET r == flow[f]
      a == IF Lost(f) THEN Expected[r.preset] ELSE r.ans
      v == IF a.verdict = "cut" THEN "REVOKED"
           ELSE IF ~Lost(f) /\ a.verdict = "ALLOW" /\ ~a.executed THEN "IDEMPOTENT"
           ELSE a.verdict
  IN  Rec(v, a.executed, ~Lost(f), a.stopped, r.token, r.preset, r.left)

\* `finish' and the `finally' after it.  A sequence goes straight on to its next
\* order, and the panel is cleared again before anything else can run.
Finish(f) ==
  LET r == flow[f]
      d == Outcome(f)
  IN
  /\ Arrived(f, "order")
  /\ decisions' = Listed(d)
  /\ results' = [results EXCEPT ![r.preset] = d]
  /\ timers' = [i \in Parts |-> Append(timers[i], Colour(d, i))]
  /\ IF r.left > 1
     THEN /\ loading' = TRUE /\ currentDisplay' = Blank /\ clauseRowStates' = AllIdle
          /\ flow' = [flow EXCEPT ![f].pc = Ask(r.preset), ![f].net = "sent",
                                  ![f].left = @ - 1, ![f].ans = NoAnswer]
     ELSE /\ loading' = FALSE /\ currentDisplay' = d
          /\ flow' = [flow EXCEPT ![f] = Idle] /\ UNCHANGED clauseRowStates
  /\ UNCHANGED <<session, isRevoked, clicks, resets, Server>>

\* Limit i of a run is painted 45*i ms after it; earlier runs' timers come first.
Paint(i) ==
  /\ timers[i] # <<>>
  /\ i > 1 => Len(timers[i - 1]) < Len(timers[i])
  /\ clauseRowStates' = [clauseRowStates EXCEPT ![i] = Head(timers[i])]
  /\ timers' = [timers EXCEPT ![i] = Tail(@)]
  /\ UNCHANGED <<session, isRevoked, loading, decisions, results, currentDisplay,
                 flow, clicks, resets, Server>>

Click(f) == Reset(f) \/ CutOff(f) \/ \E p \in Presets : RunPreset(f, p)
Continue(f) == Opened(f) \/ Revoked(f) \/ Quoted(f) \/ Finish(f)

ConsoleNext ==
  \/ \E f \in Flows : Click(f) \/ Hear(f) \/ Serve(f) \/ Lose(f) \/ Continue(f)
  \/ \E i \in Parts : Paint(i)

\* A fetch is answered or fails, its continuation runs, and timers fire.
ConsoleFairness ==
  /\ \A f \in Flows : WF_consoleVars(Hear(f) \/ Serve(f) \/ Lose(f)) /\ WF_consoleVars(Continue(f))
  /\ \A i \in Parts : WF_consoleVars(Paint(i))

ConsoleSpec == ConsoleInit /\ [][ConsoleNext]_consoleVars /\ ConsoleFairness
-----------------------------------------------------------------------------
RecType ==
  [verdict : {"ALLOW", "DENY", "REVOKED", "IDEMPOTENT", "none"},
   executed : BOOLEAN, live : BOOLEAN, stopped : 0..NParts,
   from : Tokens \cup {None, Sim}, preset : Presets \cup {"none"}, basket : Nat]

FlowType ==
  [kind : {"none", "open", "run", "revoke"},
   pc : {"idle", "open", "cut", "quote", "order"},
   net : {"sent", "heard", "answered", "lost"},
   token : Tokens \cup {None, Sim}, preset : Presets \cup {"none"}, left : Nat,
   ans : [verdict : {"ALLOW", "DENY", "cut", "none"},
          executed : BOOLEAN, stopped : 0..NParts]]

\* The types of the page's state, of its flows and of the service.
ConsoleTypes ==
  /\ session \in Tokens \cup {None, Sim}
  /\ isRevoked \in BOOLEAN /\ loading \in BOOLEAN
  /\ decisions \in Seq(RecType) /\ results \in [Presets -> RecType]
  /\ currentDisplay \in RecType /\ clauseRowStates \in [Parts -> RowState]
  /\ timers \in [Parts -> Seq(RowState)] /\ flow \in [Flows -> FlowType]
  /\ clicks \in 0..MaxClicks /\ resets \in 0..MaxResets /\ issued \in 0..MaxTokens
  /\ revoked \subseteq Tokens
  /\ placed \cup uncommitted \subseteq Tokens \X Presets \X (Nat \ {0})

\* Each live outcome that says an order went through, or already had, in the
\* ledger, in the panel or on a chip, stands for an order the rail holds for the
\* token it was sent with, and no two rows say `went through' of the same one,
\* whatever was lost, repeated, reset or revoked meanwhile.
LiveIsProduced ==
  LET order(d) == <<d.from, d.preset, d.basket>>
      went == {i \in DOMAIN decisions : decisions[i].live /\ RowSays(i) = "through"}
      bought == {"through", "already"}
  IN  /\ \A i \in DOMAIN decisions :
           decisions[i].live /\ RowSays(i) \in bought => order(decisions[i]) \in placed
      /\ \A i, j \in went : order(decisions[i]) = order(decisions[j]) => i = j
      /\ \A p \in Presets :
           results[p].live /\ ListChip(p) \in bought => order(results[p]) \in placed
      /\ currentDisplay.live /\ Says(currentDisplay) \in bought =>
           order(currentDisplay) \in placed

\* JudgeConsole.tsx:23 "nothing on screen may state an outcome the session has
\* not produced", of the panel's `Refused. Nothing was charged.'  Not so: it is
\* said of an order that stands although its answer was late, or its void failed.
RefusedIsUncharged ==
  LET d == currentDisplay IN
  d.live /\ d.preset # "none" /\ Says(d) = "refused" =>
    <<d.from, d.preset, d.basket>> \notin placed

\* Any outcome on screen that the gateway did not give, in the panel or on a
\* preset's chip, has the banner of simulated outcomes above it.
SimulatedSaid ==
  (~currentDisplay.live \/ \E p \in Presets : ~results[p].live) => AnySimulated

\* Once the timers have fired, the limits beside the verdict of an order are
\* those of that order, whichever runs were started, reset or late before it:
\* all set limits passed for one that went through, one refusal otherwise.
RowsMatchVerdict ==
  LET d == currentDisplay IN
  (\A i \in Parts : timers[i] = <<>>) /\ d.preset # "none" =>
    /\ d.executed \/ (d.live /\ Says(d) = "already") => RowIs("allow") = Parts \ Unset
    /\ Says(d) = "refused" => RowIs("deny") = {d.stopped} \cap Parts

\* What the page says was bought is on the rail, or stands under the banner of
\* simulated outcomes, and the limits beside a verdict are that order's.
ScreenIsTrue == LiveIsProduced /\ SimulatedSaid /\ RowsMatchVerdict
=============================================================================
