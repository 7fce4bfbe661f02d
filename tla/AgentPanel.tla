----------------------------- MODULE AgentPanel -----------------------------
(***************************************************************************)
(* The live agent panel (web/src/components/v2/LiveAgentPanel.tsx).  One   *)
(* click runs the same instruction twice, with the gateway enforcing and   *)
(* then without; each arm reads a stream of events.  A second click aborts *)
(* the fetch of the first, whose asynchronous function goes on all the     *)
(* same: an aborted read is caught inside runArm, and runBoth proceeds to  *)
(* its second arm with a signal that is already aborted.                   *)
(***************************************************************************)
EXTENDS Integers, Sequences, FiniteSets

CONSTANTS
  MaxRuns,      \* bound: clicks on `Run both sides'
  MaxProposals  \* bound: orders an agent proposes in one arm

ASSUME AgentAssumption == MaxRuns \in Nat /\ MaxProposals \in Nat

Modes == {"enforce", "observe"}
Runs == 1..MaxRuns

VARIABLES
  arms,      \* what the two panes show
  aborted,   \* runs whose AbortController was aborted
  proc,      \* proc[k]: the arm the asynchronous function of run k is in
  wire,      \* wire[k]: events of that arm sent and not yet read
  last,      \* last[k]: the last event sent for that arm
  clicked    \* clicks so far

agentVars == <<arms, aborted, proc, wire, last, clicked>>

Empty == [events |-> <<>>, running |-> FALSE, queued |-> FALSE, stopped |-> FALSE,
          error |-> FALSE, steps |-> 0]

\* Beside what the service puts in an event, `run' and `seq' tell which stream
\* it was in and where.
Event(k, kind, n, ex, seq) ==
  [run |-> k, event |-> kind, n |-> n, executed |-> ex, seq |-> seq]
NoEvent(k) == Event(k, "none", 0, FALSE, 0)
Over(k) == last[k].event \in {"done", "error", "cut"}

AgentInit ==
  /\ arms = [m \in Modes |-> Empty] /\ aborted = {} /\ clicked = 0
  /\ proc = [k \in Runs |-> "none"] /\ wire = [k \in Runs |-> <<>>]
  /\ last = [k \in Runs |-> NoEvent(k)]
-----------------------------------------------------------------------------
Busy == \E m \in Modes : arms[m].running

\* An abort is felt at once: before anything else the network brings.
Quiet == \A k \in aborted : proc[k] \notin Modes

\* The second arm begins with an empty pane.
Begin(as) == [as EXCEPT !["observe"] = [Empty EXCEPT !.running = TRUE]]

\* Mutant: the run before is not aborted.
AbortPrevious_Never(k) == UNCHANGED aborted
AbortPrevious(k) == aborted' = aborted \cup {k - 1}

\* runBoth, up to the fetch of the first arm.
RunBoth ==
  LET k == clicked + 1 IN
  /\ Quiet /\ ~Busy /\ clicked < MaxRuns
  /\ clicked' = k
  /\ IF clicked = 0 THEN UNCHANGED aborted ELSE AbortPrevious(k)
  /\ arms' = [m \in Modes |-> IF m = "enforce" THEN [Empty EXCEPT !.running = TRUE]
                              ELSE [Empty EXCEPT !.queued = TRUE]]
  /\ proc' = [proc EXCEPT ![k] = "enforce"]
  /\ UNCHANGED <<wire, last>>

\* runArm returns; the function of run k goes to its second arm, or ends.
ReturnArm(k, as) ==
  /\ wire' = [wire EXCEPT ![k] = <<>>] /\ last' = [last EXCEPT ![k] = NoEvent(k)]
  /\ UNCHANGED <<aborted, clicked>>
  /\ IF proc[k] = "enforce"
     THEN /\ arms' = Begin(as) /\ proc' = [proc EXCEPT ![k] = "observe"]
     ELSE /\ arms' = as /\ proc' = [proc EXCEPT ![k] = "end"]
-----------------------------------------------------------------------------
\* The service streams an arm: a start, a step and the verdict on it again and
\* again, then how it stopped; or its thread dies, or the connection drops.
Follows(d, e) ==
  /\ e.n = IF e.event = "step" THEN d.n + 1 ELSE d.n
  /\ e.executed => e.event = "verdict"
  /\ CASE e.event = "start" -> d.event = "none"
       [] e.event \in {"step", "done"} -> d.event \in {"start", "verdict"}
       [] e.event = "verdict" -> d.event = "step"
       [] e.event \in {"error", "cut"} -> d.event # "none"

Send(k) ==
  /\ proc[k] \in Modes /\ ~Over(k)
  /\ \E kind \in {"start", "step", "verdict", "done", "error", "cut"},
        n \in 0..MaxProposals, ex \in BOOLEAN :
       LET e == Event(k, kind, n, ex, last[k].seq + 1) IN
       /\ Follows(last[k], e)
       /\ wire' = [wire EXCEPT ![k] = Append(@, e)]
       /\ last' = [last EXCEPT ![k] = e]
  /\ UNCHANGED <<arms, aborted, proc, clicked>>

\* onEvent: what one event makes of an arm.
OnEvent(cur, e) ==
  [cur EXCEPT !.events = Append(@, e),
              !.steps = IF e.event \in {"step", "verdict", "done"} THEN e.n ELSE @,
              !.stopped = @ \/ e.event = "done",
              !.error = @ \/ e.event = "error",
              !.running = e.event \notin {"done", "error"}]

\* readStream hands one event over.
ReadEvent(k) ==
  /\ Quiet /\ proc[k] \in Modes /\ wire[k] # <<>> /\ Head(wire[k]).event # "cut"
  /\ arms' = [arms EXCEPT ![proc[k]] = OnEvent(arms[proc[k]], Head(wire[k]))]
  /\ wire' = [wire EXCEPT ![k] = Tail(@)]
  /\ UNCHANGED <<aborted, proc, last, clicked>>

Failed(as, m) == [as EXCEPT ![m].running = FALSE, ![m].error = TRUE]

\* The stream ends; a dropped connection reads as its end, or throws.
Close(k) ==
  /\ Quiet /\ proc[k] \in Modes /\ Over(k)
  /\ \/ wire[k] = <<>> /\ ReturnArm(k, arms)
     \/ /\ wire[k] = <<last[k]>> /\ last[k].event = "cut"
        /\ ReturnArm(k, arms) \/ ReturnArm(k, Failed(arms, proc[k]))

\* The answer is not a stream (429, an error), or there is none.
Refused(k) ==
  /\ Quiet /\ proc[k] \in Modes /\ last[k].event = "none"
  /\ ReturnArm(k, Failed(arms, proc[k]))

\* AbortError: runArm returns without a word.
Aborted(k) == k \in aborted /\ proc[k] \in Modes /\ ReturnArm(k, arms)

AgentNext ==
  RunBoth \/ \E k \in Runs : Send(k) \/ ReadEvent(k) \/ Close(k) \/ Refused(k) \/ Aborted(k)

AgentSpec == AgentInit /\ [][AgentNext]_agentVars
-----------------------------------------------------------------------------
\* The panes.

\* Which of the events of a pane are verdicts on an order, by what they say.
VerdictsAt(m, ex) ==
  LET es == arms[m].events IN
  {i \in DOMAIN es : es[i].event = "verdict" /\ es[i].executed = ex}
Executed(m) == Cardinality(VerdictsAt(m, TRUE))
RefusedCount(m) == Cardinality(VerdictsAt(m, FALSE))

AgentTypes ==
  /\ \A m \in Modes : arms[m].running \in BOOLEAN /\ arms[m].steps \in 0..MaxProposals
  /\ aborted \subseteq Runs /\ clicked \in 0..MaxRuns
  /\ proc \in [Runs -> Modes \cup {"none", "end"}]

\* What a pane shows comes from one run, whole from its beginning: events of two
\* runs never mix, and a run that a later click aborted leaves nothing behind.
\* The closing line counts every order of that run.
PaneIsOneRun ==
  \A m \in Modes :
    LET es == arms[m].events IN
    /\ \A i \in DOMAIN es : es[i].run = clicked /\ es[i].seq = i
    /\ arms[m].stopped => Executed(m) + RefusedCount(m) = arms[m].steps
=============================================================================
