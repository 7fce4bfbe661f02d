----------------------------- MODULE ApprovePage -----------------------------
(***************************************************************************)
(* The page a phone opens on the link of a held order                      *)
(* (web/src/pages/Approve.tsx), up to the card that would decide it.  With *)
(* a reference in its address it asks for that order; without one it asks  *)
(* for the principal's queue and takes its first item.  Requests are not   *)
(* cancelled and answers come in any order.                                *)
(***************************************************************************)
EXTENDS Integers, Sequences

CONSTANTS
  Refs,       \* references of the principal's items, newest first: 1, 2, ...
  Unknown,    \* a reference nothing is known of
  MaxCalls    \* bound: requests the page makes

VARIABLES
  route, key,                              \* the address, and the principal's key
  activeRef, approval, list,               \* React state
  loading, errorMessage, noPrincipal,
  calls, asked,                            \* requests under way, and made
  emptySeen, crashed                       \* an answer said the queue is empty

approveVars == <<route, key, activeRef, approval, list, loading, errorMessage,
                 noPrincipal, calls, asked, emptySeen, crashed>>

None == 0
NoApproval == {}

\* GET /v1/approve/{ref} answers with to_dict(), which leaves `ref' out; the
\* rows of GET /v1/pending have it.
Preview == {"amount", "merchant", "items", "status", "threshold"}
Row == Preview \cup {"ref"}

\* What the card reads of an item; of `ref', its first and last characters.
CardReads == {"merchant", "amount", "threshold", "ref", "items", "status"}
CardRenders(fields) == CardReads \subseteq fields

ListCall(auto) == [kind |-> "list", ref |-> None, auto |-> auto]
DetailsCall(r) == [kind |-> "details", ref |-> r, auto |-> FALSE]
Ask(reqs) ==
  /\ asked + Len(reqs) <= MaxCalls /\ asked' = asked + Len(reqs)
  /\ calls' = calls \cup {[n |-> asked + i, req |-> reqs[i]] : i \in DOMAIN reqs}

\* Without a key the list is not asked for: noPrincipal is set at once.
Init ==
  /\ route \in Refs \cup {Unknown, None} /\ key \in {"none", "good", "bad"}
  /\ activeRef = route /\ approval = NoApproval /\ list = {}
  /\ errorMessage = FALSE /\ emptySeen = FALSE /\ crashed = FALSE
  /\ LET req == IF route # None THEN DetailsCall(route) ELSE ListCall(TRUE)
         sent == route # None \/ key # "none"
     IN  /\ calls = IF sent THEN {[n |-> 1, req |-> req]} ELSE {}
         /\ loading = sent /\ noPrincipal = ~sent /\ asked = 1
-----------------------------------------------------------------------------
\* Rendering: an exception while rendering takes the whole page down.
Render(fields) == crashed' = (fields # NoApproval /\ ~CardRenders(fields))

\* The effect on activeRef: once it names an item, that item is asked for.
Activate(r) ==
  /\ activeRef' = r /\ loading' = TRUE /\ errorMessage' = FALSE
  /\ asked < MaxCalls /\ asked' = asked + 1

\* GET /v1/pending: the principal's items, a 401, another error, or no answer.
\* An error that is not a 401 changes nothing but `loading'.
ListAnswered(c) ==
  LET taken(rows) == CHOOSE r \in rows : \A s \in rows : r <= s
      stay == /\ calls' = calls \ {c} /\ loading' = FALSE
              /\ UNCHANGED <<activeRef, errorMessage, asked>>
  IN
  /\ c.req.kind = "list"
  /\ \/ \E rows \in SUBSET Refs :
          /\ key = "good" /\ noPrincipal' = FALSE /\ list' = rows
          /\ emptySeen' = (emptySeen \/ rows = {})
          /\ IF c.req.auto /\ rows # {} /\ taken(rows) # activeRef
             THEN /\ Activate(taken(rows))
                  /\ calls' = (calls \ {c})
                       \cup {[n |-> asked + 1, req |-> DetailsCall(taken(rows))]}
             ELSE stay
     \/ key = "bad" /\ noPrincipal' = TRUE /\ list' = {} /\ stay /\ UNCHANGED emptySeen
     \/ stay /\ UNCHANGED <<noPrincipal, list, emptySeen>>
     \/ list' = {} /\ stay /\ UNCHANGED <<noPrincipal, emptySeen>>
  /\ UNCHANGED <<route, key, approval, crashed>>

DetailsAnswered(c) ==
  /\ c.req.kind = "details" /\ calls' = calls \ {c} /\ loading' = FALSE
  /\ \/ c.req.ref # Unknown /\ approval' = Preview /\ UNCHANGED errorMessage
     \/ approval' = NoApproval /\ errorMessage' = TRUE     \* 404, an error, no answer
  /\ Render(approval')
  /\ UNCHANGED <<route, key, activeRef, list, noPrincipal, asked, emptySeen>>

\* The handler asks for the list with the address it was rendered for; when
\* activeRef goes, its effect asks again, with the address of that moment.
ToList(newRoute) ==
  /\ activeRef' = None /\ route' = newRoute
  /\ IF key = "none"
     THEN noPrincipal' = TRUE /\ list' = {} /\ UNCHANGED <<calls, asked, loading>>
     ELSE /\ Ask(IF activeRef = None THEN <<ListCall(route = None)>>
                 ELSE <<ListCall(route = None), ListCall(newRoute = None)>>)
          /\ loading' = TRUE /\ UNCHANGED <<noPrincipal, list>>
  /\ UNCHANGED <<key, errorMessage, emptySeen, crashed>>

\* What the page shows without a card: an error, the items to pick from, or that
\* nothing is pending.
ShowsError == ~crashed /\ ~loading /\ errorMessage /\ approval = NoApproval
ShowsList == ~crashed /\ ~loading /\ activeRef = None /\ list # {}
ShowsEmpty == ~crashed /\ ~loading /\ activeRef = None /\ ~noPrincipal /\ list = {}

\* `All pending requests', and `View active approvals' below an error.
Back == ~crashed /\ ToList(None) /\ approval' = NoApproval
ViewActive ==
  /\ ShowsError
  /\ ToList(route) /\ UNCHANGED approval

PickItem(r) ==
  /\ ShowsList /\ r \in list
  /\ Activate(r) /\ route' = r
  /\ calls' = calls \cup {[n |-> asked + 1, req |-> DetailsCall(r)]}
  /\ UNCHANGED <<key, approval, list, noPrincipal, emptySeen, crashed>>

Next ==
  \/ ~crashed /\ \E c \in calls : ListAnswered(c) \/ DetailsAnswered(c)
  \/ Back \/ ViewActive \/ \E r \in Refs : PickItem(r)

Spec == Init /\ [][Next]_approveVars
-----------------------------------------------------------------------------
TypeOK ==
  /\ route \in Refs \cup {Unknown, None} /\ activeRef \in Refs \cup {Unknown, None}
  /\ list \subseteq Refs /\ approval \in {NoApproval, Preview}
  /\ asked \in 0..MaxCalls

\* The design document: "GET /v1/approve/{ref} returns the amount and the
\* merchant so the phone can show" them.  An answer the page got can be shown.
CardOpens == ~crashed

\* The page's comment: it does not say that nothing is pending when it could not
\* see the queue.  It says so only after an answer said so.
EmptyIsAnswered == ShowsEmpty => emptySeen
=============================================================================
