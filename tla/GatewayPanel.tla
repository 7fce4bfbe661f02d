---------------------------- MODULE GatewayPanel ----------------------------
(***************************************************************************)
(* The evaluation shown on the home page                                   *)
(* (web/src/components/v2/GatewayPanel.tsx): a scenario is played part by  *)
(* part by timers and then settles on its verdict.  It starts by itself    *)
(* when the panel is first seen, and a visitor may play any scenario, or   *)
(* change the motion preference, at any moment.  A scenario is data        *)
(* (web/src/data/scenarios.ts): how much of each limit the order uses, and *)
(* which part stops it.  What a row reads is computed from the first       *)
(* (lib/headroom.ts), its colour and the verdict come from the second.     *)
(***************************************************************************)
EXTENDS Integers, Sequences, FiniteSets

CONSTANTS
  Bounds,      \* Bounds[i]: the bound of part i, money in rupees, 0 if it is a rule
  MaxPlays     \* bound: scenarios played and preferences changed

ASSUME PanelAssumption == Bounds \in Seq(Nat) /\ MaxPlays \in Nat

VARIABLES
  active, states, settled,   \* React state
  ticks,                     \* evaluations whose timers are set, the next one of each
  started,                   \* has an evaluation begun by itself
  begins,                    \* timers that would begin one
  reduced, plays

panelVars == <<active, states, settled, ticks, started, begins, reduced, plays>>

PanelParts == DOMAIN Bounds
NoPart == 0

\* The five scenarios: what the order uses of each limit, in thousandths of its
\* bound, the part that stops it and what it ends with.
SCENARIOS == <<
  [load |-> <<945, 4125, 0, 0, 0>>, stopsAt |-> 2, verdict |-> "deny"],       \* injection
  [load |-> <<945, 640, 310, 330, 250>>, stopsAt |-> 6, verdict |-> "deny"],  \* lookalike
  [load |-> <<945, 910, 440, 330, 250>>, stopsAt |-> 7, verdict |-> "unknown"],
  [load |-> <<945, 788, 380, 1330, 250>>, stopsAt |-> 4, verdict |-> "deny"], \* retry storm
  [load |-> <<945, 787, 370, 330, 250>>, stopsAt |-> NoPart, verdict |-> "allow"] >>
Scenarios == DOMAIN SCENARIOS
NoneDrawn == [i \in PanelParts |-> "idle"]

\* What the timer of part i makes of it.
Shade(s, i) ==
  LET stop == SCENARIOS[s].stopsAt IN
  IF stop = NoPart \/ i < stop THEN "allow"
  ELSE IF i = stop THEN SCENARIOS[s].verdict ELSE "skip"

\* The loads are given for the first five parts; a limit after those uses nothing.
LoadOf(s, i) == LET load == SCENARIOS[s].load IN IF i \in DOMAIN load THEN load[i] ELSE 0
Used(s, i) == (2 * LoadOf(s, i) * Bounds[i] + 1000) \div 2000

\* What the row of part i reads, beside its colour.
Readout(s, i) ==
  IF Bounds[i] = 0 THEN [says |-> "rule", by |-> 0]
  ELSE IF Used(s, i) > Bounds[i] THEN [says |-> "over", by |-> Used(s, i) - Bounds[i]]
  ELSE [says |-> "left", by |-> Bounds[i] - Used(s, i)]

\* The rows that are drawn, and the badge that counts those that are not.
Drawn == {i \in PanelParts : states[i] \notin {"idle", "skip"}}
SkippedCount == Cardinality({i \in PanelParts : states[i] = "skip"})

\* Below the rows: the verdict, and what became of the money.
ShownVerdict == IF settled THEN SCENARIOS[active].verdict ELSE "checking"
AirGap ==
  CASE ~settled -> "none"
    [] settled /\ SCENARIOS[active].verdict = "allow" -> "dispatched"
    [] settled /\ SCENARIOS[active].verdict = "unknown" -> "awaiting decision"
    [] settled /\ SCENARIOS[active].verdict = "deny" -> "nothing charged"

PanelInit ==
  /\ active = 1 /\ states = NoneDrawn /\ settled = FALSE /\ ticks = {}
  /\ reduced \in BOOLEAN /\ plays = 0
  /\ started = FALSE /\ begins = IF reduced THEN {"now"} ELSE {"seen", "safety"}

\* Mutant: the timers of the evaluation before stay set.
Run_NoClear(s) ==
  /\ active' = s /\ states' = NoneDrawn /\ settled' = FALSE
  /\ ticks' = ticks \cup {[scenario |-> s, next |-> 1]}

Run(s) ==
  /\ active' = s /\ states' = NoneDrawn /\ settled' = FALSE
  /\ ticks' = {[scenario |-> s, next |-> 1]}

\* A tab, or `Run this order again'.
Play(s) ==
  /\ plays < MaxPlays /\ plays' = plays + 1
  /\ Run(s)
  /\ UNCHANGED <<started, begins, reduced>>

\* The panel comes into view, or 1.6 seconds have passed.  A visitor who was
\* faster is overruled: a click does not count as a start.
BeginBy(b) ==
  /\ b \in begins /\ begins' = begins \ {b}
  /\ IF started THEN UNCHANGED <<active, states, settled, ticks>> ELSE Run(1)
  /\ started' = TRUE
  /\ UNCHANGED <<reduced, plays>>

\* The effect is cleaned up and run anew: its timers go, all but the one an
\* intersection has set, and an evaluation under way is not resumed.
ChangeMotion ==
  /\ plays < MaxPlays /\ plays' = plays + 1
  /\ reduced' = ~reduced /\ ticks' = {}
  /\ begins' = (begins \cap {"seen"}) \cup (IF reduced' THEN {"now"} ELSE {"seen", "safety"})
  /\ UNCHANGED <<active, states, settled, started>>

Tick(t) ==
  /\ IF t.next <= Len(Bounds)
     THEN /\ states' = [states EXCEPT ![t.next] = Shade(t.scenario, t.next)]
          /\ ticks' = (ticks \ {t}) \cup {[t EXCEPT !.next = @ + 1]}
          /\ UNCHANGED settled
     ELSE settled' = TRUE /\ ticks' = ticks \ {t} /\ UNCHANGED states
  /\ UNCHANGED <<active, started, begins, reduced, plays>>

PanelNext ==
  \/ \E s \in Scenarios : Play(s)
  \/ \E b \in {"now", "seen", "safety"} : BeginBy(b)
  \/ ChangeMotion
  \/ \E t \in ticks : Tick(t)

PanelSpec == PanelInit /\ [][PanelNext]_panelVars
-----------------------------------------------------------------------------
PanelTypes ==
  /\ active \in Scenarios /\ states \in [PanelParts -> {"idle", "allow", "deny", "unknown", "skip"}]
  /\ settled \in BOOLEAN /\ started \in BOOLEAN /\ reduced \in BOOLEAN
  /\ plays \in 0..MaxPlays /\ begins \subseteq {"now", "seen", "safety"}

\* A verdict stands beside the parts of its own scenario, all of them painted:
\* the parts before the one that stops it passed, those after it were skipped.
SettledIsScenario == settled => \A i \in PanelParts : states[i] = Shade(active, i)

\* An evaluation under way paints the parts from the first, without a gap, and
\* never another scenario's.
PaintsInOrder ==
  \A t \in ticks :
    /\ t.scenario = active
    /\ \A i \in PanelParts : states[i] = IF i < t.next THEN Shade(active, i) ELSE "idle"

\* The verdict agrees with what the rows read, though neither is computed from
\* the other: no row that passed is over its bound, a limit that refuses is over
\* it, and money moved just when every part is drawn and none stopped the order.
RowsBearItOut ==
  settled =>
    /\ \A i \in Drawn : states[i] = "allow" => Readout(active, i).says # "over"
    /\ \A i \in Drawn : states[i] = "deny" => Readout(active, i).says # "left"
    /\ (AirGap = "dispatched") = (\A i \in PanelParts : states[i] = "allow")
    /\ SkippedCount > 0 => \E i \in Drawn : states[i] = ShownVerdict

\* The panel: a verdict, what is painted beside it and what the rows read are of
\* one scenario, whatever was clicked while an evaluation was under way.
VerdictIsItsOwn == SettledIsScenario /\ PaintsInOrder /\ RowsBearItOut
=============================================================================
