----------------------------- MODULE CallBudget -----------------------------
(***************************************************************************)
(* The ceiling on model calls per UTC day (DailyCallBudget in              *)
(* service/agent_runner.py) and the agent runs that draw on it (run_agent  *)
(* in service/server.py).  A run reserves its worst case before it starts  *)
(* and gives back what it has not used when its stream ends.               *)
(*                                                                         *)
(* Every step of a run asks the model once, and a run that stops before    *)
(* its limit has asked once more; a request that fails in a transient way  *)
(* is repeated by the agent's model (harness/agent_model.py).  A browser   *)
(* that closes the stream cancels it: what is unused is given back on the  *)
(* spot, and the thread, which is not told, goes on asking.                *)
(***************************************************************************)
EXTENDS Integers, FiniteSets, FiniteSetsExt, Money

CONSTANTS
  Runs,      \* threads that execute a run
  MaxSteps,  \* max_steps of a run
  Ceiling,   \* model calls allowed in a day
  Attempts,  \* requests the model may be sent for one answer
  MaxDay,    \* bound on the number of days
  MaxMade    \* bound on the requests of one day

ASSUME BudgetAssumption ==
  /\ IsFiniteSet(Runs) /\ MaxSteps \in Nat /\ Ceiling \in Nat
  /\ MaxDay \in Nat \ {0} /\ MaxMade \in Nat

VARIABLES
  today,   \* the UTC day
  day,     \* _day
  used,    \* _used
  run,     \* run[r]: what the thread has asked, what `progress' says of it
           \* (steps), and the calls that stay reserved for it (kept)
  made,    \* made[d]: requests sent to the model on day d
  beyond,  \* beyond[d]: those among them that no reservation was made for
  crossed  \* days that began with a run under way

budgetVars == <<today, day, used, run, made, beyond, crossed>>

NoRun == [pc |-> "idle", asked |-> 0, steps |-> 0, kept |-> 0]

BudgetInit ==
  /\ today = 1 /\ day = 1 /\ used = 0
  /\ run = [r \in Runs |-> NoRun]
  /\ made = [d \in 1 .. MaxDay |-> 0]
  /\ beyond = [d \in 1 .. MaxDay |-> 0]
  /\ crossed = {}

(* _roll: the count starts again on the first use of a new day.            *)
Rolled == IF today # day THEN 0 ELSE used

Room(n) == Rolled + n <= Ceiling

(* reserve(max_steps).                                                     *)
Reserve(r) ==
  /\ run[r].pc = "idle" /\ Room(MaxSteps)
  /\ day' = today
  /\ used' = Rolled + MaxSteps
  /\ run' = [run EXCEPT
       ![r] = [pc |-> "reserved", asked |-> 0, steps |-> 0, kept |-> MaxSteps]]
  /\ UNCHANGED <<today, made, beyond, crossed>>

(* A reservation that is refused has rolled the day.                       *)
Refuse(r) ==
  /\ run[r].pc = "idle" /\ ~Room(MaxSteps)
  /\ day' = today /\ used' = Rolled
  /\ UNCHANGED <<today, run, made, beyond, crossed>>

(* refund: what was reserved is taken off, whatever the day.               *)
Refund(n) == used' = Max({0, used - n})

(* No provider can be built: everything is given back.                     *)
NoProvider(r) ==
  /\ run[r].pc = "reserved"
  /\ Refund(MaxSteps)
  /\ run' = [run EXCEPT ![r] = NoRun]
  /\ UNCHANGED <<today, day, made, beyond, crossed>>

(* The browser is gone before the stream was begun: nothing is given back. *)
NeverBegun(r) ==
  /\ run[r].pc = "reserved"
  /\ run' = [run EXCEPT ![r] = NoRun]
  /\ UNCHANGED <<today, day, used, made, beyond, crossed>>

(* The stream is begun, and with it the thread.                            *)
Begin(r) ==
  /\ run[r].pc = "reserved"
  /\ run' = [run EXCEPT ![r].pc = "running"]
  /\ UNCHANGED <<today, day, used, made, beyond, crossed>>

(* The model is asked, with n requests for one answer.                     *)
AskModel(r, n) ==
  /\ run[r].pc = "running" /\ run[r].asked = run[r].steps
  /\ run[r].steps < MaxSteps /\ made[today] + n <= MaxMade
  /\ made' = [made EXCEPT ![today] = @ + n]
  /\ beyond' = [beyond EXCEPT
       ![today] = IF run[r].asked < run[r].kept THEN @ + n - 1 ELSE @ + n]
  /\ run' = [run EXCEPT ![r].asked = @ + 1]
  /\ UNCHANGED <<today, day, used, crossed>>

(* The answer is a step, which `progress' counts, or the last word.        *)
Answered(r, wasLast) ==
  /\ run[r].pc = "running" /\ run[r].asked # run[r].steps
  /\ run' = [run EXCEPT ![r] = IF wasLast THEN [run[r] EXCEPT !.pc = "ended"]
                                  ELSE [run[r] EXCEPT !.steps = @ + 1]]
  /\ UNCHANGED <<today, day, used, made, beyond, crossed>>

(* Mutant: the answer that ended the run is not counted.                   *)
Unused_StepsOnly(r) == MaxSteps - run[r].steps

Unused(r) == Max({0, MaxSteps - (run[r].steps + 1)})

(* Nothing has been given back yet.                                        *)
Held(r) == run[r].pc \in {"running", "ended"} /\ run[r].kept = MaxSteps

(* The browser closes the stream: await task is cancelled with the rest of *)
(* the request, the refund is made, and the thread goes on.                *)
Leave(r) ==
  /\ Held(r)
  /\ Refund(Unused(r))
  /\ run' = [run EXCEPT ![r].kept = MaxSteps - Unused(r)]
  /\ UNCHANGED <<today, day, made, beyond, crossed>>

(* The thread has ended, by its own word or by an error.  A stream that    *)
(* waited for it ends with it and gives back what is unused.               *)
End(r) ==
  /\ run[r].pc \in {"running", "ended"}
  /\ IF Held(r) THEN Refund(Unused(r)) ELSE UNCHANGED used
  /\ run' = [run EXCEPT ![r] = NoRun]
  /\ UNCHANGED <<today, day, made, beyond, crossed>>

Midnight ==
  /\ today < MaxDay
  /\ today' = today + 1
  /\ crossed' = IF \E r \in Runs : run[r].pc # "idle"
                THEN crossed \cup {today + 1} ELSE crossed
  /\ UNCHANGED <<day, used, run, made, beyond>>

BudgetNext ==
  \/ \E r \in Runs :
       \/ Reserve(r) \/ Refuse(r) \/ NoProvider(r) \/ NeverBegun(r) \/ Begin(r)
       \/ \E n \in 1 .. Attempts : AskModel(r, n)
       \/ \E wasLast \in BOOLEAN : Answered(r, wasLast)
       \/ Leave(r) \/ End(r)
  \/ Midnight

BudgetSpec == BudgetInit /\ [][BudgetNext]_budgetVars
-----------------------------------------------------------------------------
BudgetTypes ==
  /\ today \in 1 .. MaxDay /\ day \in 1 .. today
  /\ used \in 0 .. Ceiling
  /\ run \in [Runs -> [pc : {"idle", "reserved", "running", "ended"}, asked : 0 .. MaxSteps,
                       steps : 0 .. MaxSteps, kept : 0 .. MaxSteps]]
  /\ made \in [1 .. MaxDay -> 0 .. MaxMade]
  /\ beyond \in [1 .. MaxDay -> 0 .. MaxMade]
  /\ crossed \subseteq 2 .. MaxDay

(* On a day that no run carried over into, what goes beyond the ceiling is *)
(* no more than the repeated requests and the calls made by threads whose  *)
(* browser had left.                                                       *)
QuietDayHeld == \A d \in (1 .. MaxDay) \ crossed : made[d] <= Ceiling + beyond[d]

(* The calls still reserved that the run has not made.                     *)
Ahead(r) == Max({0, run[r].kept - run[r].asked})

(* Within a day the counter covers every call that was reserved: a refund  *)
(* never gives back one that was made, or was being made, before it.       *)
CountCovers ==
  today = 1 =>
    made[1] + Total(Runs, [r \in Runs |-> Ahead(r)]) <= used + beyond[1]

CallsCounted == QuietDayHeld /\ CountCovers

(* What the ceiling is for: no day sees more model calls than the ceiling. *)
(* A thread whose browser has left, a request that is repeated and a run   *)
(* that crosses midnight exceed it.                                        *)
CeilingHeld == \A d \in 1 .. MaxDay : made[d] <= Ceiling
=============================================================================
