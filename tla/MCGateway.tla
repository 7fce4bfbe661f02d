----------------------------- MODULE MCGateway -----------------------------
(***************************************************************************)
(* Gateway on a small instance: two callers, three intents of which two    *)
(* share a SKU, cheap and dear amounts.  Every limit of the policy bites:  *)
(* a dear order with another exceeds the budget, three cheap ones the      *)
(* velocity, the dear amount is above the AFA threshold.                   *)
(***************************************************************************)
EXTENDS Gateway, TLC

CONSTANTS c1, c2, i1, i2, i3

AllBaskets == (i1 :> {"milk"}) @@ (i2 :> {"bread"}) @@ (i3 :> {"bread", "tea"})

MCBasket == [i \in Intents |-> AllBaskets[i]]

R(l, a) == [lands |-> l, answer |-> a]

(* A rail that does what its answers say: DownstreamError means no order;  *)
(* a timeout or another exception leaves both possibilities open, but a    *)
(* request that has timed out does not land later.                         *)
SoundRail == {R("now", "ok"), R("now", "timeout"), R("never", "timeout"),
              R("never", "refused"), R("now", "exception"),
              R("never", "exception")}

(* The same without exceptions other than the two the adapters define.     *)
MappedRail == SoundRail \ {R("now", "exception"), R("never", "exception")}

(* The MCP upstream: a call that fails on the network is a DownstreamError *)
(* whether or not the upstream executed it.                                *)
UpstreamRail == {R("now", "ok"), R("now", "refused"), R("never", "refused")}

(* Everything a rail or an adapter may do to a request.                    *)
AnyRail == {o \in Outcome : o.answer = "ok" => o.lands = "now"}

Callers_symmetry == Permutations({c1, c2})
=============================================================================
