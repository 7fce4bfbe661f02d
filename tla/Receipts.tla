------------------------------ MODULE Receipts ------------------------------
(***************************************************************************)
(* The dialog that checks a receipt in the browser                         *)
(* (web/src/components/ReceiptVerifier.tsx), over the log of the session   *)
(* (service/server.py, gateway/audit.py) and the proofs of Merkle.         *)
(*                                                                         *)
(* A check is a chain of requests and of asynchronous hashing that nothing *)
(* cancels: the log grows between two of its steps, the visitor edits the  *)
(* amount, closes the dialog, opens another receipt or starts a session    *)
(* over, and the check goes on, and writes its result on the page.         *)
(***************************************************************************)
EXTENDS Merkle, FiniteSetsExt

CONSTANTS
  MaxLogged,     \* bound: records written to all logs
  MaxSessions,   \* bound: sessions, each with a log of its own
  MaxChecks,     \* bound: checks begun
  MaxRewrites    \* bound: stored records that are changed afterwards

ASSUME ReceiptAssumption ==
  /\ MaxLogged \in Nat /\ MaxChecks \in Nat /\ MaxRewrites \in Nat
  /\ MaxSessions \in Nat \ {0}

VARIABLES
  logs,       \* logs[t]: the log of the t-th session; the last is the page's
  witnessed,  \* module variable: the first head this page saw
  dialog,     \* the receipt asked for and the `tampered' state
  checks,     \* calls of run, done or under way
  page,       \* the rest of the React state
  written, rewrites

receiptVars == <<logs, witnessed, dialog, checks, page, written, rewrites>>

Closed == 0
NoHead == [log |-> 0, leaves |-> <<>>]
Unchecked(record) ==
  [record |-> record, verdict |-> "none", of |-> 0, unbroken |-> "absent", error |-> FALSE]

ReceiptInit ==
  /\ logs = << <<>> >> /\ witnessed = NoHead
  /\ dialog = [ref |-> Closed, tampered |-> FALSE]
  /\ checks = <<>> /\ page = Unchecked(FALSE)
  /\ written = 0 /\ rewrites = 0

Service == <<logs, written, rewrites>>
-----------------------------------------------------------------------------
(* The visitor.                                                            *)

RunCheck(ref, tamper) ==
  /\ Len(checks) < MaxChecks
  /\ checks' = Append(checks,
       [pc |-> "asked", log |-> Len(logs), ref |-> ref, tamper |-> tamper,
        head |-> NoHead, signed |-> FALSE, seq |-> 0, listed |-> FALSE,
        proof |-> <<>>, size |-> 0, leaf |-> 0, since |-> NoHead, unbroken |-> "absent"])
  /\ page' = Unchecked(page.record)

\* The ledger of the page names receipts of this session, and of one before it
\* when a late answer wrote there.
Open(ref) ==
  /\ dialog.ref = Closed /\ ref \in 1..written
  /\ dialog' = [ref |-> ref, tampered |-> FALSE]
  /\ RunCheck(ref, FALSE)
  /\ UNCHANGED <<witnessed, Service>>

CloseDialog ==
  /\ dialog.ref # Closed /\ dialog' = [dialog EXCEPT !.ref = Closed]
  /\ UNCHANGED <<witnessed, checks, page, Service>>

\* `Change the amount', and `Put it back'.
Edit ==
  /\ dialog.ref # Closed /\ page.record /\ ~page.error
  /\ dialog' = [dialog EXCEPT !.tampered = ~@]
  /\ RunCheck(dialog.ref, ~dialog.tampered)
  /\ UNCHANGED <<witnessed, Service>>

\* `Start over' is behind the dialog.
StartOver ==
  /\ dialog.ref = Closed /\ Len(logs) < MaxSessions
  /\ logs' = Append(logs, <<>>)
  /\ UNCHANGED <<witnessed, dialog, checks, page, written, rewrites>>
-----------------------------------------------------------------------------
(* The log.                                                                *)

AppendRecord ==
  /\ written < MaxLogged /\ written' = written + 1
  /\ logs' = [logs EXCEPT ![Len(logs)] = Append(@, written + 1)]
  /\ UNCHANGED <<witnessed, dialog, checks, page, rewrites>>

\* What the log of the session stores is changed behind its back.
Rewrite(j) ==
  /\ rewrites < MaxRewrites /\ rewrites' = rewrites + 1
  /\ logs' = [logs EXCEPT ![Len(logs)][j] = MaxLogged + rewrites + 1]
  /\ UNCHANGED <<witnessed, dialog, checks, page, written>>
-----------------------------------------------------------------------------
(* A check.                                                                *)

Log(r) == logs[checks[r].log]

\* What no later step reads is let go.
EndCheck(r) == checks' = [checks EXCEPT ![r].pc = "done", ![r].proof = <<>>, ![r].size = 0,
                                        ![r].leaf = 0, ![r].signed = FALSE]

Joined(c) == IF c.head # NoHead /\ c.listed
             THEN IF c.seq = 0 THEN "done" ELSE "found" ELSE "asked"

\* /v1/audit/head and /v1/audit are asked for together and answered apart.
HeadServed(r) ==
  /\ checks[r].pc = "asked" /\ checks[r].head = NoHead
  /\ \E signed \in BOOLEAN :
       LET c == [checks[r] EXCEPT !.head = [log |-> checks[r].log, leaves |-> Log(r)],
                                  !.signed = signed]
       IN  /\ checks' = [checks EXCEPT ![r] = [c EXCEPT !.pc = Joined(c)]]
           /\ page' = [page EXCEPT !.error = @ \/ Joined(c) = "done"]
  /\ UNCHANGED <<witnessed, dialog, Service>>

ListServed(r) ==
  /\ checks[r].pc = "asked" /\ ~checks[r].listed
  /\ LET at == {j \in DOMAIN Log(r) : Log(r)[j] = checks[r].ref}
         c == [checks[r] EXCEPT !.listed = TRUE, !.seq = IF at = {} THEN 0 ELSE Max(at)]
     IN  /\ checks' = [checks EXCEPT ![r] = [c EXCEPT !.pc = Joined(c)]]
         /\ page' = [page EXCEPT !.error = @ \/ Joined(c) = "done"]
  /\ UNCHANGED <<witnessed, dialog, Service>>

\* Not reached, not answered, no signing key, no proof: nothing was checked.
Unanswered(r) ==
  /\ checks[r].pc \in {"asked", "found"} /\ EndCheck(r)
  /\ page' = [page EXCEPT !.error = TRUE]
  /\ UNCHANGED <<witnessed, dialog, Service>>

ProofServed(r) ==
  LET c == checks[r] IN
  /\ c.pc = "found"
  /\ checks' = [checks EXCEPT ![r].pc = "head", ![r].size = Len(Log(r)),
                              ![r].leaf = Log(r)[c.seq],
                              ![r].proof = InclusionProof(c.seq - 1, Log(r))]
  /\ page' = [page EXCEPT !.record = TRUE]
  /\ UNCHANGED <<witnessed, dialog, Service>>

\* The head's signature, then what this page has seen before.
HeadChecked(r) ==
  LET c == checks[r]
      older == witnessed # NoHead /\ Len(witnessed.leaves) < Len(c.head.leaves)
  IN
  /\ c.pc = "head"
  /\ IF ~c.signed THEN EndCheck(r)
     ELSE checks' = [checks EXCEPT ![r].pc = IF older THEN "unbroken" ELSE "climb",
                                   ![r].since = IF older THEN witnessed ELSE NoHead]
  /\ page' = [page EXCEPT !.unbroken = "absent",
                          !.verdict = IF c.signed THEN @ ELSE "fail",
                          !.of = IF c.signed THEN @ ELSE r]
  /\ witnessed' = IF c.signed /\ witnessed = NoHead THEN c.head ELSE witnessed
  /\ UNCHANGED <<dialog, Service>>

Unbroken(c, log) ==
  VerifyConsistencyProof(Len(c.since.leaves), Len(c.head.leaves),
    TreeHash(c.since.leaves), TreeHash(c.head.leaves),
    ConsistencyProof(Len(c.since.leaves), Len(c.head.leaves), log))

\* No answer claims nothing either way.
ConsistencyChecked(r) ==
  LET c == checks[r] IN
  /\ c.pc = "unbroken"
  /\ \/ checks' = [checks EXCEPT ![r].pc = "climb"] /\ UNCHANGED page
     \/ LET holds == Unbroken(c, Log(r)) IN
        /\ checks' = [checks EXCEPT ![r].pc = IF holds THEN "climb" ELSE "done",
                                    ![r].unbroken = IF holds THEN "holds" ELSE "broken"]
        /\ page' = [page EXCEPT !.unbroken = IF holds THEN "holds" ELSE "broken",
                                !.verdict = IF holds THEN @ ELSE "fail",
                                !.of = IF holds THEN @ ELSE r]
  /\ UNCHANGED <<witnessed, dialog, Service>>

\* recordHash of the record as shown: an edited amount is another record.
RecordHash(ref, tamper) == IF tamper THEN 0 - ref ELSE ref

\* Mutant: the leaf the proof names is climbed from, not the one recomputed.
Climb_PublishedLeaf(r) ==
  LET c == checks[r]
      climb == ClimbToRoot(c.leaf, c.seq - 1, c.size, c.proof)
      lands == climb.complete /\ climb.root = TreeHash(c.head.leaves)
  IN
  /\ c.pc = "climb" /\ EndCheck(r)
  /\ page' = [page EXCEPT !.unbroken = c.unbroken, !.of = r,
                          !.verdict = IF lands THEN "pass" ELSE "fail"]
  /\ UNCHANGED <<witnessed, dialog, Service>>

Climb(r) ==
  LET c == checks[r]
      climb == ClimbToRoot(RecordHash(c.ref, c.tamper), c.seq - 1, c.size, c.proof)
      lands == climb.complete /\ climb.root = TreeHash(c.head.leaves)
  IN
  /\ c.pc = "climb" /\ EndCheck(r)
  /\ page' = [page EXCEPT !.unbroken = c.unbroken, !.of = r,
                          !.verdict = IF lands THEN "pass" ELSE "fail"]
  /\ UNCHANGED <<witnessed, dialog, Service>>

ReceiptNext ==
  \/ (\E ref \in 1..written : Open(ref)) \/ CloseDialog \/ Edit \/ StartOver
  \/ AppendRecord \/ \E j \in DOMAIN logs[Len(logs)] : Rewrite(j)
  \/ \E r \in DOMAIN checks :
       \/ HeadServed(r) \/ ListServed(r) \/ Unanswered(r) \/ ProofServed(r)
       \/ HeadChecked(r) \/ ConsistencyChecked(r) \/ Climb(r)

ReceiptSpec == ReceiptInit /\ [][ReceiptNext]_receiptVars
-----------------------------------------------------------------------------
ReceiptTypes ==
  /\ written \in 0..MaxLogged /\ rewrites \in 0..MaxRewrites
  /\ Len(logs) \in 1..MaxSessions /\ Len(checks) <= MaxChecks
  /\ page.verdict \in {"none", "pass", "fail"}
  /\ page.unbroken \in {"absent", "holds", "broken"}
  /\ \A r \in DOMAIN checks : checks[r].seq \in 0..MaxLogged

Extends(new, old) == Len(old) <= Len(new) /\ First(new, Len(old)) = old

\* `Verified. This receipt is in the gateway's log, in this position, unchanged':
\* the check that says so hashed the record as it stands, and the head the log
\* signed has it there, however the log grew or was rewritten between the head,
\* the list and the proof.
VerifiedIsLogged ==
  page.verdict = "pass" =>
    LET c == checks[page.of]
    IN  ~c.tamper /\ c.seq \in DOMAIN c.head.leaves /\ c.head.leaves[c.seq] = c.ref

\* `Nothing was rewritten' is said of a log that does extend what this page saw,
\* and never without something to compare; of one and the same log `no longer
\* extends' is said only when it was rewritten, before the head or since.
UnbrokenIsEarned ==
  \A r \in DOMAIN checks :
    LET c == checks[r]
        extends == c.since # NoHead /\ Extends(c.head.leaves, c.since.leaves)
    IN  /\ c.unbroken = "holds" => extends
        /\ c.unbroken = "broken" /\ c.since.log = c.log =>
             ~extends \/ ~Extends(Log(r), c.head.leaves)

\* What the dialog says of a receipt and of the log is earned.
ChecksAreEarned == VerifiedIsLogged /\ UnbrokenIsEarned

\* ReceiptVerifier.tsx: `The log no longer extends the version this page saw
\* earlier.'  Violated: the head is kept over `Start over', and the log of the
\* next session is another log.
BrokenIsRewritten ==
  \A r \in DOMAIN checks :
    checks[r].unbroken = "broken" =>
      ~Extends(logs[checks[r].since.log], checks[r].since.leaves)
=============================================================================
