------------------------------ MODULE RunRecord ------------------------------
(***************************************************************************)
(* The record page (web/src/pages/Dashboard.tsx): one run, read back from  *)
(* the audit log it left.  The gateway appends one record per attempt,     *)
(* `mandate evidence' turns the log into the feed the page is built from   *)
(* (harness/evidence.py), and four pieces of the page each aggregate the   *)
(* feed in their own way: the claim, the strip, the parts and the chain.   *)
(*                                                                         *)
(* A state is the log of a run so far; what the page would show of it is a *)
(* function of the log.                                                    *)
(***************************************************************************)
EXTENDS Integers, Sequences, FiniteSets, Money

CONSTANTS
  NParts,        \* the parts of the mandate, in the order they are evaluated
  Single,        \* the part that bounds one order, by SingleCap
  SingleCap,
  VelocityPart,  \* the part that bounds the number of orders, by VelocityCap
  VelocityCap,
  Unclear,       \* parts that may be UNKNOWN
  Rules,         \* parts that may refuse an order whatever its amount
  UnsetParts,    \* parts the mandate does not set
  Amounts,       \* amounts of the orders attempted
  MinRun,        \* a stretch longer than this is drawn as one line
  MaxAttempts    \* bound: attempts in a run

\* The velocity is judged by its count alone, and a part that is not set allows
\* every order.
ASSUME RecordAssumption ==
  /\ NParts \in Nat /\ MinRun \in Nat \ {0} /\ VelocityCap \in Nat
  /\ MaxAttempts \in Nat /\ Amounts \subseteq Nat \ {0}
  /\ VelocityPart # Single /\ VelocityPart \notin Unclear \cup Rules
  /\ UnsetParts \cap ({Single, VelocityPart} \cup Unclear \cup Rules) = {}

VARIABLE log     \* the records of the run, oldest first

Parts == 1..NParts
NoPart == 0

\* The first clause that did not allow the order is the reason the page cites,
\* whether it denied the order or could not tell.
Reason(results) ==
  IF \A p \in Parts : results[p] = "ALLOW" THEN NoPart
  ELSE CHOOSE p \in Parts : /\ results[p] # "ALLOW"
                            /\ \A q \in 1..(p - 1) : results[q] = "ALLOW"

\* DENY outweighs UNKNOWN, and UNKNOWN outweighs ALLOW.
Judged(results) ==
  CASE \E p \in Parts : results[p] = "DENY" -> "deny"
    [] ~(\E p \in Parts : results[p] = "DENY") /\ (\E p \in Parts : results[p] = "UNKNOWN")
         -> "unknown"
    [] OTHER -> "allow"

\* An order the rail answered with another amount is cited under a clause that is
\* no part of the mandate, and under the amount it was authorised for.
OtherAmount(amount) == 0 - amount

\* An allowed order goes to the rail, and the rail has the last word.
Final(judged, rail) ==
  IF rail = "failed" THEN "deny"
  ELSE IF rail \in {"unanswered", "diverged"} THEN "unknown" ELSE judged

NewRecord(amount, results, rail) ==
  [seq |-> Len(log) + 1, amount |-> amount, results |-> results,
   verdict |-> Final(Judged(results), rail),
   reason |-> IF rail = "diverged" THEN OtherAmount(amount) ELSE Reason(results),
   executed |-> rail = "placed" \/ rail = "diverged"]

With(verdict) == {n \in DOMAIN log : log[n].verdict = verdict}

\* The orders the rail left without an answer: no clause is cited for them.
Unanswered == {n \in With("unknown") : log[n].reason = NoPart}

\* The ledger's live entries: committed, or pending.
Live == With("allow") \cup Unanswered

RecordInit == log = <<>>

\* One attempt of the agent: every part is evaluated, the velocity by the live
\* entries, and an order that is allowed is placed, left without an answer,
\* reported as failed, or placed at another amount and, it may be, voided.
Attempt ==
  \E amount \in Amounts, unclear \in SUBSET Unclear, refusing \in SUBSET Rules :
    LET results == [p \in Parts |->
          IF \/ p = Single /\ amount > SingleCap
             \/ p = VelocityPart /\ Cardinality(Live) >= VelocityCap
             \/ p \in refusing
          THEN "DENY" ELSE IF p \in unclear THEN "UNKNOWN" ELSE "ALLOW"]
    IN  /\ Len(log) < MaxAttempts
        /\ \E rail \in IF Judged(results) = "allow"
                       THEN {"placed", "unanswered", "failed", "diverged"}
                       ELSE {"not asked"} :
             log' = Append(log, NewRecord(amount, results, rail))

RecordNext == Attempt

RecordSpec == RecordInit /\ [][RecordNext]_log
-----------------------------------------------------------------------------
(* What the page is built from.                                            *)

\* The feed, newest decision first.
Decisions == [i \in DOMAIN log |-> log[Len(log) + 1 - i]]

\* The attempts that have a downstream body: `executed', for the page.
Moved == {n \in DOMAIN log : log[n].executed}

Allowed == Cardinality(With("allow"))
Refused == Cardinality(With("deny"))
Cited(p) == Cardinality({n \in DOMAIN log : log[n].reason = p})

Amount == [n \in DOMAIN log |-> log[n].amount]
Committed == Total(Moved, Amount)

\* The part every refusal cites, when there is exactly one.
BindingPart ==
  LET reasons == {log[n].reason : n \in With("deny")}
  IN  IF \E p \in Parts : reasons = {p} THEN CHOOSE p \in Parts : reasons = {p} ELSE NoPart

\* The two counts of the headline, and the two sentences that can replace them.
Headline ==
  IF Refused = 0 THEN [through |-> Allowed, turn |-> "none refused"]
  ELSE IF Allowed = 0 THEN [through |-> 0, turn |-> "all refused"]
  ELSE [through |-> Allowed, turn |-> "some refused"]

\* The paragraph below it: either one part named by every refusal, or several.
Claim ==
  IF BindingPart # NoPart THEN [says |-> "every refusal named it", part |-> BindingPart]
  ELSE [says |-> "more than one part", part |-> NoPart]

\* The strip, oldest attempt first: a column above the rail for money that moved,
\* a tick below it otherwise, each with the total so far; and its figures.
Running(i) == Total(Moved \cap (1..i), Amount)
Strip ==
  [i \in DOMAIN log |-> [side |-> IF log[i].executed THEN "above" ELSE "below",
                         running |-> Running(i)]]
Figures == [moved |-> Committed, allowed |-> Allowed, refused |-> Refused, chain |-> Len(log)]

\* The cell of a part.  A part the mandate does not set says so; the velocity
\* goes by its own count; any other part refuses when a decision cites it.
Badge(p) ==
  CASE p \in UnsetParts -> "unset"
    [] p = VelocityPart -> IF Allowed >= VelocityCap THEN "refuses" ELSE "pass"
    [] OTHER -> IF Cited(p) > 0 THEN "refuses" ELSE "pass"

\* Is cell p the one in the ink of the claim?
Inked(p) == BindingPart = p
-----------------------------------------------------------------------------
(* The chain, newest decision first.                                       *)

\* Mutant: a stretch ends only where the verdict changes.
Alike_ByVerdict(i, j) == Decisions[i].verdict = Decisions[j].verdict

\* Do decisions i and j belong to one stretch?
Alike(i, j) ==
  /\ Decisions[i].verdict = Decisions[j].verdict
  /\ Decisions[i].reason = Decisions[j].reason

Heads == {i \in DOMAIN Decisions : i = 1 \/ ~Alike(i - 1, i)}
LastOf(i) == CHOOSE j \in i..Len(Decisions) :
            /\ \A k \in i..j : Alike(i, k)
            /\ j < Len(Decisions) => ~Alike(i, j + 1)
Collapses(i) == LastOf(i) - i + 1 > MinRun

\* The decisions drawn as rows, and the lines that stand for several.
Drawn ==
  UNION {IF Collapses(i) THEN {i} ELSE i..LastOf(i) : i \in Heads}
Elided ==
  {[fromSeq |-> Decisions[i + 1].seq, toSeq |-> Decisions[LastOf(i)].seq,
    count |-> LastOf(i) - i, reason |-> Decisions[i].reason,
    verdict |-> Decisions[i].verdict] : i \in {j \in Heads : Collapses(j)}}

\* What a line and a row say: anything that is not a refusal was allowed.
LineSays(e) == IF e.verdict = "deny" THEN "refused" ELSE "allowed"
RowSays(i) ==
  IF Decisions[i].verdict = "deny" THEN [says |-> "refused", part |-> Decisions[i].reason]
  ELSE [says |-> "allowed", part |-> NoPart]
-----------------------------------------------------------------------------
RecordTypes ==
  /\ log \in Seq([seq : 1..MaxAttempts, amount : Amounts, verdict : {"allow", "deny", "unknown"},
                  results : [Parts -> {"ALLOW", "DENY", "UNKNOWN"}],
                  reason : Parts \cup {NoPart} \cup {OtherAmount(a) : a \in Amounts},
                  executed : BOOLEAN])
  /\ Len(log) <= MaxAttempts

\* "The same information": every decision of the log is in the chain once, drawn
\* or under a line that counts it, and a line says of every decision it stands
\* for what its row would have said, and names the part that decision names.
Under(e) == {r \in {log[n] : n \in DOMAIN log} : e.toSeq <= r.seq /\ r.seq <= e.fromSeq}
ChainIsWhole ==
  /\ \A i \in DOMAIN Decisions :
       LET over == {e \in Elided : Decisions[i] \in Under(e)} IN
       IF i \in Drawn THEN over = {} ELSE \E e \in over : over = {e}
  /\ \A e \in Elided :
       /\ e.count = e.fromSeq - e.toSeq + 1
       /\ \A r \in Under(e) : /\ (LineSays(e) = "refused") = (r.verdict = "deny")
                              /\ r.reason = e.reason

\* The collapse never hides the most recent decision, and a row that names a
\* part names one that did not allow the order.
RowsAreTrue ==
  /\ log # <<>> => 1 \in Drawn
  /\ \A i \in Drawn : RowSays(i).part # NoPart => Decisions[i].results[RowSays(i).part] # "ALLOW"

\* The strip ends at the figure below it, and a tick below the rail adds nothing.
\* The only column the headline leaves out is an order placed at another amount,
\* and it says that none were refused when the chain shows no refusal.
StripAddsUp ==
  /\ log # <<>> => Strip[Len(log)].running = Figures.moved
  /\ \A i \in 2..Len(log) :
       Strip[i].side = "below" => Strip[i].running = Strip[i - 1].running
  /\ \A i \in DOMAIN Strip :
       Strip[i].side = "above" =>
         log[i].verdict = "allow" \/ log[i].reason = OtherAmount(log[i].amount)
  /\ Headline.turn = "none refused" <=> \A i \in Drawn : RowSays(i).says = "allowed"
  /\ Figures.allowed + Figures.refused <= Figures.chain

\* "Every refusal named it": the part of the claim is named by every refusal of
\* the run.  A part that is cited says that it refuses, except that the velocity,
\* whose cell goes by a count of its own, may read `pass' when the rail left an
\* order without an answer.
ClaimIsTrue ==
  /\ Claim.part # NoPart =>
       /\ \A n \in With("deny") : log[n].reason = Claim.part
       /\ Inked(Claim.part) /\ Cited(Claim.part) > 0
  /\ \A p \in Parts \ UnsetParts :
       Cited(p) > 0 => Badge(p) = "refuses" \/ (p = VelocityPart /\ Unanswered # {})

\* The pieces of the page agree with the log, and with each other.
RecordIsWhole == ChainIsWhole /\ RowsAreTrue /\ StripAddsUp /\ ClaimIsTrue

-----------------------------------------------------------------------------
\* What the comments of the page say and the page does not keep.

\* PartsAtEnd.tsx: no cell can disagree with the drawing.  An order left without
\* an answer takes a place under the velocity and is not counted in its cell.
NoCellDisagrees == \A p \in Parts \ UnsetParts : Cited(p) > 0 => Badge(p) = "refuses"

\* RunStrip.tsx: above the rail, one column per executed order.  An order placed
\* at another amount, though voided, is a column that the figure does not count.
OneColumnEach ==
  Cardinality({i \in DOMAIN Strip : Strip[i].side = "above"}) = Figures.allowed

\* Three sentences of the page that the data does not carry, and TLC refutes each.
\* "Every attempt after that was refused": a part that bounds one order can bind a
\* run that goes on to place smaller ones.
RestIsRefused ==
  Claim.part # NoPart =>
    \A i, j \in DOMAIN log : (log[i].verdict = "deny" /\ i < j) => log[j].verdict = "deny"

\* "Refusals in this run cite more than one part": also said where there is none.
SeveralAreSeveral ==
  Claim.says = "more than one part" =>
    Cardinality({log[n].reason : n \in With("deny")}) > 1

\* "Allowed, all passed": also said of an order that is held for approval.
AllowedIsAllowed ==
  \A i \in Drawn : RowSays(i).says = "allowed" => Decisions[i].verdict = "allow"
=============================================================================
