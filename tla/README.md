# Mandate in TLA+

Mandate stands between a shopping agent and a payment rail. A human signs a
policy (a *mandate*); every order the agent proposes is priced from the
merchant's catalogue, checked clause by clause against the policy and against
what was already spent, reserved in a ledger, sent to the rail, settled, and
recorded in a hash-chained audit log. A hosted service wraps this gateway with
token pools, per-token sessions, agent runs, human approval and revocation, and
a web application shows, replays and verifies what the gateway decided.

This directory is a model of the parts of that program in which order, failure
and concurrency decide whether it is right: TLA+ modules, TLC runs over small
instances, and TLAPS proofs of the central results for every instance. Paths
below are relative to `src/` of the repository; `gateway/core.py` stands for
`src/src/mandate/gateway/core.py`, and so on for the package, and `web/` for
`src/web/src/`.

Contents: 1 the system; 2 the modules and the code; 3 the runs; 4 fairness;
5 the proofs; 6 deviations the runs show, and others seen on the way; 7 what is
not modelled; 8 what could come next.

## 1. The system

| component | state it keeps | operations | hard because |
|---|---|---|---|
| Gateway (`gateway/core.py`) | `_eval_lock`, `_spent_jtis` | `propose`, `capture_payment` | evaluation and reservation are under a lock, the rail and the settlement are not; callers, crashes and the Reconciler interleave there |
| clauses and verdicts (`constraints.py`, `lattice.py`, `state.py`) | none | one function per clause, `combine` | boundaries; clauses that read the ledger are only as good as the lock |
| idempotency ledger (`idem.py`) | append-only JSONL file, last entry per intent wins | `open_pending`, `mark_committed`, `mark_failed`, `state`, `pending` | it is all that survives a crash; a torn line swallows the next one |
| Reconciler (`reconcile.py`) | none | `run` | it decides from a list it took before it asked |
| downstream adapters (`downstream/`, `adapters/razorpay_upstream.py`) | the rail's orders | `create_order`, `void_order`, `find_orders_by_receipt`, `capture_payment` | a lost answer is not a refusal; which exceptions mean what |
| audit log (`audit.py`) | JSONL file and the same list in memory | `append`, `records`, `verify_chain` | no lock, two kinds of threads |
| Merkle proofs (`merkle.py`) | none | prover and verifier | two recursions that must agree |
| revocation list (`revocation.py`) | shared file, cache, remembered modification time | `revoke`, `is_revoked` | two processes write the file |
| agent tokens (`tokens.py`) | none | mint, verify | - |
| approval store (`approval.py`), pending queue (`service/pending.py`) | approvals by intent, items by reference | `open`, `get`, `resolve`, `approve`, `is_approved`, `consume` | time passes between any two of them; intents are shared by sessions |
| token pools (`service/token_pool.py`) | available, claimed, retired | `claim_token`, `retire_token` | only in memory, while tokens live on |
| session manager (`service/session.py`) | sessions by token, one directory each | create, get, evict | it wipes directories under running gateways |
| agent runs (`service/server.py`, `agent_runner.py`) | a thread and a stream per run, the day's call count | `run_agent` | closing the stream does not stop the thread |
| HTTP handlers (`service/server.py`) | none of their own | sessions, orders, approvals, revocation, capture, reads | async, but `propose` inside them is synchronous |
| order store, storefront (`order_store.py`, `shop.py`, `web/pages/Storefront.tsx`) | rows with sequence numbers, a revision used as ETag; the page's tag and body | `append`, weeks, polling | trimming and reload; the tag is read before the rows, polls overlap, the service restarts |
| price book, quotes, resolution (`pricebook.py`, `quote.py`, `resolve.py`, `action.py`) | none | verify a quote, price a basket, canonical intent | the agent chooses what it attaches, and the price moves under the limits and under an approval |
| rail mandate (`downstream/rail_mandate.py`, `policy/rails.py`) | none | fixed caps over the same order | - |
| policy documents and compiler (`policy/`, `compiler/`) | none | load, sign, canonical form, compile twice and compare | a language model |
| model providers (`llm.py`) | key rotation | completion | I/O |
| judge console (`web/pages/JudgeConsole.tsx`) | session, rows of limits, chips, list of decisions | run a preset, cut off, start over | flows await their answers side by side, nothing is cancelled, timers are never cleared |
| live agent panel (`web/components/v2/LiveAgentPanel.tsx`) | two panes, an abort controller | run both arms | an aborted comparison goes on to its second arm |
| gateway panel (`GatewayPanel.tsx`, `lib/headroom.ts`) | ten rows, timers | play a scenario | clicks, scrolling and timers in any order |
| sandbox and held order (`SandboxPanel.tsx`, `HeldForApproval.tsx`) | sandbox, probe, held item, its panel | compile, propose, poll, approve | late answers are applied to whatever is on the page |
| approval page (`web/pages/Approve.tsx`) | list, card | load, decide | two endpoints answer with different fields |
| receipts (`ReceiptVerifier.tsx`, `lib/merkle.ts`) | a head once witnessed, a dialog | verify, edit, close | several requests while the log grows, sessions change and dialogs close |
| record of a run (`web/pages/Dashboard.tsx`, `lib/runShape.ts`, `harness/evidence.py`) | none: a function of the log | draw | four aggregations of one log |
| recording scripts (`scripts/record/`) | captures, a script with timecodes, voice takes | film, cut, sync, assemble | commands on takes of different ages |
| harness, conformance suite, AP2, command line | - | drive the above | - |

How they interact. `propose` takes `_eval_lock`, verifies the token against the
revocation list, looks the approval up, sums the ledger, evaluates every clause
and, on ALLOW, writes a PENDING entry; it releases the lock, calls the rail,
marks the entry COMMITTED or FAILED (or leaves it PENDING when the answer was
lost), consumes the approval and appends an audit record. In the service the
HTTP handlers are coroutines that call `propose` synchronously: they exclude
each other on the event loop. An agent run is a worker thread that calls
`propose` on its own, so handlers and runs interleave step by step. Each session
has its own Gateway, ledger and audit log in a directory of its own; the pools,
the revocation list, the approval store and the pending queue are shared. The
command line's `mandate revoke` is another process that appends to the same
revocation file. Nothing in the service runs the Reconciler: its callers are
`harness/failure_demo.py` and the tests.

The properties that make each component right:

* **Gateway and ledger**: limits hold under concurrency, crashes and any rail;
  one order per intent; every order on the rail is in the ledger and charged
  while it stands; settled is settled; the answer given to the agent is true of
  the rail; every spend is audited; every call returns and nothing stays
  reserved for ever.
* **Clauses, prices and quotes**: an order goes out at its seller's price, within
  every clause of the mandate, and once, whatever the agent attaches to it.
* **Sessions and tokens**: one visitor per token; a session's ledger is not
  wiped or overdrawn behind its back; a revoked token reaches neither the rail
  nor the next visitor.
* **Revocation list**: a check sees every revocation made before it.
* **Approvals**: one approval lets one order through; an item is decided once;
  the principal is asked once.
* **Audit log**: nothing returned is lost; the chain verifies.
* **Merkle proofs**: prover and verifier agree on every log, and a verifier that
  kept a head accepts exactly the logs that extend it.
* **Call budget**: a day stays under its ceiling and a refund never gives back a
  call that was made.
* **The pages**: what a page says of an order, a run, a receipt or a limit is what
  the service answered for that very one, whatever was clicked, lost or late
  meanwhile; what was simulated is said to be; a decision taken elsewhere ends
  the wait of the page.
* **Order history**: numbers are distinct, no page keeps rows older than their tag.
* **Record of a run**: every attempt is in one row, every row says what its
  attempts have in common, and the figures add up.
* **Recording**: a timecode points into the cut at the moment the shot was filmed,
  and a reading lies under the section it was made for.

`PROJECT.json` lists the components with what is modelled of each, and the
hazards, each at its line of code with the properties aimed at it.

## 2. The modules and the code

`Money` and `Lattice` are the operators the others share. `Money!Total` is a sum
of paise written as the cardinality of a set of units, so that facts about sums
follow from facts about cardinalities. `Lattice!Combine` is `combine`.

**`Gateway`** is `propose`, the ledger, the rail and the Reconciler. One action
per stretch of `propose` in which nobody else can observe it: `Enter` (lock,
ledger lookup), `Evaluate` (approval, ledger state, clauses), `Reserve`
(`open_pending`, unlock), `Send` (`create_order` in all its outcomes), `Commit`,
`Void`, `MarkFailed`, `Record` (audit). `ReconStart`, `ReconAsk`, `ReconMark`
are the Reconciler; `Land` a request that arrives after its caller gave up;
`Approve` and `Lapse` the principal; `Crash` the process. The clauses that read
the ledger are operators; those that read only the action, the policy and the
clock are the input `screen` (`Proposals` computes them). Calls that end before
they change anything are stuttering. What adapters and rails do is a constant,
so that each run names its rail: *sound* (what an answer says is true), *mapped*
(no exceptions but the adapters' two), *upstream* (the MCP adapter) and *any*.

**`SpendGuard`** is what the gateway promises about money, without calls, locks
or rails: money is held once per intent, only while there is room, and is then
spent or given back for good. `Gateway` implements it under the identity mapping
of the ledger (`Guard == INSTANCE SpendGuard WITH money <- ledger`).

**`TokenGuard`** is the same promise told of the whole service: one guard per token,
its money held, spent or given back an intent at a time, and a session that ends
takes its token's money with it whole, never a part of it. `Sessions` implements it
(`Promise == INSTANCE TokenGuard`), a token's money being what its session's ledger
records.

**`Proposals`** is what a proposal becomes. A proposal is a merchant's name and
lines of SKU, quantity and perhaps a quote, or a raw amount. `VerifyQuote` and
`ResolveToAction` price it (a quote that fails strips every quote of the basket
and adds a DENY), the ten evaluators have the names of `constraints.py`, `Others`
and `EvaluateAll` combine them, `CanonicalIntent` is the entry it is filed under.
`Hold` is a call that does not execute and may open an item for the principal,
`Execute` one that does, with any answer of the rail; `Approve` and `Reject` are
the principal, `Tick` the clock. Where `Gateway` interleaves calls over intents
with a given amount, `Proposals` runs one call at a time and computes amount,
intent and verdict; it abstracts signatures to who signed, names to the three
foldings the code applies (`Fold`, `Resolved`, and none), and files nothing twice.

**`Sessions`** is the service: the pool, the session table and directories, the
handlers (`OpenSession`, `StartRun`, `CreateOrder`, `Reopen`, `RevokeToken`), the
worker threads, `mandate revoke` and restarts. `propose` appears again, reduced
to the clauses that read the ledger, because here its lock belongs to a gateway
and its ledger file to a token, and the two come apart. A thread keeps the
gateway it was given: an order remembers the number of its session. `Reopen` is
`capture_payment` and the MCP surface, which create a session for a token that
has lost its own.

**`LedgerFile`** is the file under the ledger: lines, writes that are cut short
and leave a part of an entry or an entry without the end of its line, and the next
append, which continues that line. `Gateway` and `Sessions` take an append for
whole; this module says how far a tear reaches.

**`Capture`** is `capture_payment`: `Mint` is the end of `propose` that signs order
and amount, `Ask`, `Spend` and `Rail` are the check of the capability, the replay
set under the lock and the request to the rail; `Create` and `Drop` are the
sessions whose gateways hold those sets.

**`Revocations`** is the shared file and its cache: `is_revoked` in three steps
(`Stat`, `Read`, `Answer`), `revoke` in two (`Revoke`, `Restat`), the command's
append, and a clock that may stand still between two writes.

**`Approvals`** is the pending queue, `POST /v1/approve`, the approval store and
the two lines of `propose` that use it, for sessions that share their intents.
`submit_approval` is two steps, because the expiry of the item is read twice.

**`AuditChain`** is one audit log used by several threads: `_load_cache` in two
steps, `append` in three, and restarts between any two of them. A record is its
position, its predecessor's identity and its own; the hash is the identity.

**`Merkle`** is the tree over that log, with a hash as the term it hashes: the
prover recurses over the leaves, the verifier walks the bits of an index and a
size, as the two sources do. **`MerkleLog`** is what the proofs are for: somebody
keeps a head, the log grows or what is stored of it is changed, and the verifier
is asked. `ProofsDecide` says that every honest inclusion proof verifies, that one for
another leaf does not, and that a consistency proof is accepted exactly when the
kept log is a prefix.

**`CallBudget`** is the daily ceiling on model calls and it, across midnight.

**`Console`** is the judge console and the service behind it. A flow is one
asynchronous function from a click to its last `set`; between two of its waits it
keeps the token and the preset it began with, and any other flow may run. The
service answers, loses a request or loses an answer (`Serve`, `Lose`); `Paint` is
a timer. `Continue` is one arrival of a flow, with every assignment the code
makes before the next `await`.

**`AgentPanel`**, **`GatewayPanel`**, **`Storefront`**, **`HeldOrder`**,
**`ApprovePage`** and **`Receipts`** are the other pages, in the same way: one
action per stretch between two waits, requests and answers as records that are
served, lost and handled in any order, timers as elements of a set. `Storefront`
has the store and its handlers beside the page, `HeldOrder` the pending queue
(`Approvals` has its handlers step by step), `Receipts` the log and `Merkle`.

**`RunRecord`** is the page of a recorded run: the gateway's records, the feed made
of them, and the claim, the strip, the badges and the collapsed rows each computed
from the feed by its own function. **`Studio`** is the recording: captures that
may die, ramps cut out of them, timecodes, readings and the assembled track.

`MCWeb` and `MCParts` put parts that share no state beside each other: a variable
chosen at the start says which of them moves.

Some modules carry a history variable, a fact about the past no code keeps:
`crossed` in `AuditChain` (two appends have overlapped), `writers` and `tied` in
`Revocations` (who has written, and whether two writes share a time), `crossed`
in `CallBudget` (days that began with a run under way). With them a property can
say exactly how far the code's guarantee reaches, instead of a run leaving the
awkward behaviour out. `due` in `Revocations` and `late` in `Sessions` remember,
within one call, what was revoked when it began.

The proofs stand in modules of their own: `OperatorProofs` and `Recursion` for what
the others share, `GatewayProofs`, `SessionsProofs`, `ProposalsProofs`, `PartsProofs`
for the parts of `MCParts`, `MerkleProofs` for the proofs of the log and the receipts
made of them, and `WebProofs`, which extends it, for the audit log, the pages and the
film of `MCWeb`.

Recursion over data is written as recursive functions, `f[n \in Nat]`, whose values are
functions where a definition has more than one argument: `Hashes(s)[n][from]` is the
root of the `n` leaves after `from`, and the walks of the verifier, the ramps and the
cut have one value for each prefix of their input.

A definition named `Something_Suffix` preceded by "Mutant:" is a plausible bug in
the definition of the same name; it is used by no specification.

## 3. The runs

With two workers every run ends within three minutes. The largest, `pages`, has
2.3 million distinct states, `parts` 0.5 million.

| run | module, config | shows |
|---|---|---|
| `enforce` | `MCGateway`, `Gateway_enforce` | enforcing gateway, sound rail that may overcharge, one crash: `TypeOK`, `BudgetHeld`, `VelocityHeld`, `StandingCovered`, `AnswerMatchesRail`, `SettledIsFinal`, and that `Gateway` implements `SpendGuard` |
| `honest` | `MCGateway`, `Gateway_honest` | rail that charges what it is asked, the one-SKU clause, no crash: `NoRepeatPurchase`, `RailWithinBudget`, `CommittedAsAuthorised`, `SpendIsAudited` |
| `worst` | `MCGateway`, `Gateway_worst` | any rail, late landings, partial order list, failing voids, observing gateway, Reconciler overlapping calls, one crash: `OneOrderPerIntent`, and under fairness `CallsReturn`, `PendingSettles` |
| `service` | `MCSessions`, `Sessions_service` | handlers, a run, abandoned streams, idle sessions, revocations, a restart: `LedgerWithinBudget`, `CurrentOrderCovered`, `KillSwitch`, `OneVisitorPerToken`, and that `Sessions` implements `TokenGuard` |
| `basket` | `MCProposals`, `Proposals_basket` | a shop, ten kinds of bad quote, three mandates: `PricedBySeller`, `WithinMandate`, `OncePerBasket` |
| `pages` | `MCWeb`, `Web_pages` | one page at a time, or the audit log, or the recording: `ScreenIsTrue` (console), `PaneIsOneRun` (agents), `VerdictIsItsOwn` (home page), `HistoryIsSound` (shop), `ChecksAreEarned` (receipts), `SerialHolds`, `RecordKept` (log), `SoundOfThePicture` (recording) |
| `parts` | `MCParts`, `Parts_all` | one part at a time: `SoleWriterSeen` (revocations), `ApprovedOnce` (approvals), `CallsCounted` (call budget), `ApprovedIsGranted` and under fairness `DecisionReachesPage` (held order), `ProofsDecide` (Merkle), `RecordIsWhole` (record page), `TearsAreLocal` (ledger file), `CapturedAsSigned` (capture) |
| `upstream` | `MCGateway`, `Gateway_upstream` | *violation* of `StandingCovered` |
| `stale` | `MCSessions`, `Sessions_stale` | *violation* of `LedgerWithinBudget` |
| `both` | `Revocations`, `Revocations_both` | *violation* of `RevocationSeen` |
| `phone` | `ApprovePage`, `ApprovePage_phone` | *violation* of `CardOpens` |
| `swapped` | `HeldOrder`, `HeldOrder_swapped` | *violation* of `ReleasedIsThisOne` |

Bounds, and why they are enough.

* *Gateway*: two callers race for every lock and every limit. Three intents, of
  which two share a SKU; amounts 1 and 3 against a budget of 3, a velocity of 2
  and an AFA threshold of 2, so that every clause denies in some state and allows
  in another, at its boundary. In `enforce` the one-SKU clause is off: with it no
  three intents could be live and the velocity would never decide. `worst` has
  two intents at one amount: its properties are about each intent by itself, and
  an observing gateway executes whatever the verdict. One crash lets every step
  be the last before it; the restarted process can be interrupted no differently.
* *Sessions*: two visitors, two tokens, two intents that together exceed the
  budget, one run besides the event loop, two sessions per token, one restart.
  The second session of a token is the one that wipes the first.
* *Proposals*: two orders, so that every clause that sums, counts or compares has
  something to add to; three readings of the clock, before, at and after the ends
  of a quote's life, of its age limit and of the mandate's window; one intent for
  the principal. The proposals are single lines at and over each limit, quotes
  that fail exactly one check, one that triples a price, the same basket respelt
  or reordered, two lines of one SKU, a SKU nobody sells and raw amounts. Three
  mandates: with all ten clauses, without the three that would refuse a second
  order before the others look at it, and with two clauses only.
* *Revocations*: three targets and five readings of the clock: an entry before,
  between and after the service's own. *Approvals*: two items over two intents and
  two sessions, so that an intent is asked about again after it was decided.
  *AuditChain*: four records, two threads, two restarts. *CallBudget*: three runs
  of two steps against a ceiling of five, which lets two run and leaves the third
  one short, on two days.
* *LedgerFile*: two keys, six lines, two tears: one tear behind another, and enough
  lines after a torn one for a reader that stops there to lose more than it did.
* *Capture*: two callers race for one capability on one gateway, or on two gateways;
  two orders and two amounts, so that each half of a signature can be wrong.
* *Merkle*: logs of up to nine leaves, past the second power of two at which the
  shapes of the trees change; one record changed; every index and every earlier
  size. The walks of prover and verifier depend on the bits of index and size
  only, so larger logs repeat the patterns at more levels.
* *Console*: two flows at a time, two clicks and one reset, one limit that stops
  an order and one preset for a revoked token: every pair of flows meets in every
  order; two rows of limits, one of them without a bound. *Agents*: two
  comparisons, two proposals each. *Home page*: three plays, ten rows, all the
  scenarios. *Shop*: two rows kept of up to four, two weeks, two polls in flight,
  restarts. *Receipts*: a log of two records per session, two sessions, two
  checks, one rewriting. *Recording*: two shots and one inserted later, waits
  below and above the length a ramp needs, two takes.
* *Held order*: two baskets, two sandboxes, two probes; one poll per mounting and
  one decision of the page in flight.
* *Record page*: four attempts under five limits (one binding alone, the velocity,
  one that may be undecided, one that is a rule, one unset) and two amounts; a run
  of like rows collapses from two on (the code's default is three), so that rows
  before, inside and after a collapsed run occur.

The runs stop where their system may stop (every intent settled, every bound
reached), so deadlock is not an error in them, except in `enforce` and `honest`,
where the principal's approvals keep the system moving.

Assumptions a run makes on purpose, as constants:

* `Overlap = FALSE` (`enforce`, `honest`): the Reconciler starts only while no
  call is in flight. That is how its callers use it; with `TRUE` it takes a call's
  reservation for a lost one and settles it the other way, which `worst` permits.
* `Overlapping = FALSE` (`service`): a visitor who abandons a run does not start
  another before its thread has ended. Nothing in the service enforces it; run
  `stale` is what happens otherwise.
* `LongRuns = FALSE`: no session becomes idle under its run. A run takes at most
  30 steps (`server.py:1257`) against a timeout of 30 minutes (`session.py:63`), but
  proposing does not count as activity. A run that did outlast its session would
  share the ledger path with the next session, as in `stale`.
* `Returning = FALSE`: after a restart visitors open a new session. With `TRUE`,
  see section 6.
* `Attempts = 1` (`parts`): the model answers every request the first time.

## 4. Fairness

Safety runs use `Init /\ [][Next]_vars`. `worst` uses `FairSpec`:

* weak fairness of each call's next step: the interpreter schedules every
  runnable thread, the lock is released after a bounded computation, and an
  exchange with the rail ends. The fake rail answers at once and the MCP client
  has a timeout (`adapters/razorpay_upstream.py:54`); the REST client is built
  without one (`downstream/razorpay.py:28`), so for it the end of the exchange is
  an assumption about the network, and `CallsReturn` holds only as far as it does;
* nothing obliges an agent to propose, a lost request to land, a principal to
  approve or a process to crash;
* the Reconciler, once started, runs on (weak fairness), and it is started again
  and again if it can be (strong fairness of `ReconStart`). This is a promise of
  the operator, not of the code: no component schedules it.

`CallsReturn` needs only the first item. `PendingSettles` assumes in its
statement that again and again no call is in flight.

`parts` uses the fairness of `HeldOrder`, for `DecisionReachesPage`: a decision
taken elsewhere ends the wait of the page.

* weak fairness of `Poll`: `setInterval` fires for as long as the panel waits;
* strong fairness of serving a poll and of handling its answer: polls may be lost,
  but not all of them for ever. That is an assumption about the network; what the
  code contributes is that it polls again after every failure.

## 5. The proofs

Checked by TLAPS with no unproved step, for all values of the constants that
satisfy the named assumptions of their modules: finitely many intents, tokens,
proposals and keys, natural limits and bounds, sentinels outside the sets they mark,
and a rail that has made the order it answers "ok" about. TLC evaluates every one of these assumptions in a run. What a
theorem needs beyond them it names as its hypotheses, which are conditions on
constants that the corresponding run meets.

The gateway.

* `OperatorProofs` - `CombineFailsClosed`: an ALLOW means every clause allowed.
  `TotalAdd`, `TotalMonotone`, `TotalSame`, `TotalCovered`, `TotalUpdate`,
  `TotalNothing` and `TotalLess` say what adding, dropping or changing an account
  does to a sum, and when a sum of one set is covered by a sum of another. They
  stand in for induction over the ledger in all modules below.
* `GatewayProofs` - `TypeCorrect`; `OneOrderCorrect` (`OneOrderPerIntent` and
  `ReservedBeforeSent`), with *no* assumption on the rail, the Reconciler, the
  mode or the number of crashes. The invariant `OrderInv` is needed because one
  order per intent is not inductive: it adds that between `Enter` and `Reserve`
  the holder of the lock alone works on an intent that has no entry (`LockInv`),
  that what is in flight or on the Reconciler's list has one (`KnownInv`), and
  that a request able to create an order - at the rail's door or on the wire - is
  the only one of its intent and has none there yet (`SendInv`).
* Settlement and limits, in `GatewayProofs` too - `SettlementFinal`
  (`SettledIsFinal`), assuming `~Overlap`: `FlightInv` says a PENDING entry belongs to one call or to the
  Reconciler, never both, so that whoever settles it finds it PENDING.
  `BudgetLimit`, `VelocityLimit`, `RepeatLimit` (`BudgetHeld`, `VelocityHeld`,
  `NoRepeatPurchase`) and `GatewayImplementsGuard`, assuming `~Overlap` and
  `Enforcing`: `LimitInv` adds to the limits that the caller at `Reserve` still has
  room, which survives the steps of the others because outside the lock the live
  set only shrinks (`OtherStepsShrink`).
* The rail, the last part of `GatewayProofs` - what the books say of it. Each theorem lists what it needs
  of rail, adapters and process, and leaving one out is a run or a deviation of
  section 6:

  | theorem | property | needs |
  |---|---|---|
  | `StandingIsCovered` | `StandingCovered` | `~Overlap`; `RailKeepsWord`: "refused" means no order was or will be made, nothing lands later; `VoidsRestore`; `ScanComplete` |
  | `AnswersMatch` | `AnswerMatchesRail` | the same, and `AmountKnown`: the amount is compared, or cannot differ |
  | `RailIsWithinBudget` | `RailWithinBudget` | `~Overlap`, `Enforcing`, `RailKeepsWord`, `ScanComplete`, `ChargesTrue` |
  | `CommittedExactly` | `CommittedAsAuthorised` | `ChargesTrue` alone |
  | `SpendingAudited` | `SpendIsAudited` | `~Overlap`; `RunsToRecord`: no crash, and no exception but the adapters' two |

  `RailInv` follows an intent through `Send`: at "refused" it has no order, at
  "diverged" none that stands, at "answered" exactly one, at a factor of the
  amount asked, and the Reconciler's finding is true until it marks the entry. That the
  amounts agree at `Commit` is what turns the factor into one (`AnswerInv`).
  `SpendIsAudited` turned out to need `~Overlap`: a Reconciler that commits the
  entry of a call still in flight leaves a committed order with no record until
  that call ends.

The service.

* `SessionsProofs` - `SessionTypes`. `RevokedNeverSpends` (`KillSwitch`) has *no*
  hypothesis: it holds with returning visitors, long runs and overlapping ones.
  `TokensAreExclusive`
  (`OneVisitorPerToken`) needs `~Returning`: `PoolInv` says that a token in a
  visitor's hands or with a session has left the pool, and stays claimed until it is
  revoked.
  `SessionBudget` (`LedgerWithinBudget`) and `SessionOrdersCharged`
  (`CurrentOrderCovered`) need `~Returning`, `~LongRuns` and `~Overlapping`:
  `RunInv` says that then no two runs work on one token (`RunsApart`), the handlers and
  a run are kept apart by the lock of one and the same gateway (`LocksApart`,
  `FlightsApart`), a call is of the session its token has now or of one whose token
  was revoked and whose ledger is gone, and what it is about to reserve fits
  (`OnSession`). Dropping
  `~Overlapping` is run `stale`. From the same invariant follows the refinement,
  `SessionsImplementTokenGuard` (`ImplementsTokenGuard`), one lemma per kind of
  step: `ReserveHolds`, `SettleSettles`, and `HandlerEnds` for what wipes a ledger.
  With `~Overlapping` dropped it fails as `LedgerWithinBudget` does: a second order
  is held without room for it.
* `PartsProofs` - one section per part.
  * *Revocations*: `RevocationTypes`, `SoleWriterCorrect` (`SoleWriterSeen`): while
    the command alone writes, at times of its own, the cache equals the file
    whenever the remembered time equals the file's (`CommandInv`); while the
    service alone writes, the cache is the file (`ServiceInv`).
  * *Capture*: `CapturedOnceEach` (`CapturedAsSigned`), for any number of callers and
    gateways. That the rail captured once is not inductive: `AloneInv` adds that no
    two requests stand before the rail with one capability, and `SpentInv` that one
    that does has it marked and nothing captured for it yet.
  * *Approvals*: `ApprovalUsedOnce` (`ApprovedOnce`), for any number of items,
    sessions and principals. `SubmitInv` follows a submission between its two steps,
    `PlacedInv` and `LiveInv` tie an approval that can still be used to the one item
    that granted it, however often an intent is asked about again.
  * *Call budget*: `CallsAreCounted` (`CallsCounted`), for any number of runs, days
    and steps, when no request is retried (`Attempts = 1`): the count of a day
    no run carries over covers the calls made and those that its runs still may make (`CountedInv`,
    `AheadInv`), so that a refund never gives back a call.
  * *Ledger file*: `TornWritesCostOne` (`TearsAreLocal`), for any number of keys,
    writes and tears: the entries that were returned and cannot be read are no more
    than the torn writes. `OpenLine` says that only the last line may lack its end,
    and `TornPays` that each line nobody can read was paid for by a tear.
  * *Held order*: `ReleasedInStore` (`ApprovedIsGranted`), for any number of mandates
    and orders. A grant is never taken back (`GrantKept`), so that an answer which
    was true when it was given is true when it arrives, however late
    (`AnswersTrue`).
  * *Record page*: `RunIsWhole` (`RecordIsWhole`), for any parts, limits, amounts
    and length of a run. `RecordInv` says of each decision that what is refused is
    refused by a part the mandate sets, and by the velocity only after as many
    orders as it allows. The rest is about the chain: every stretch has a last
    decision (`LastIs`), every decision is in one stretch and no other (`HeadOf`,
    `StretchesApart`), and a line covers exactly its stretch but the head
    (`LineIs`). `RecordAssumption` is needed and says what the clauses do: the
    velocity is never UNKNOWN, and a part that is not set allows everything.
    `LeastNat`, that a set of naturals has a least element, is induction in the form
    the provers can use: it is the library's `WFMin`, without operator parameters.
* `ProposalsProofs` - `ProposalTypes`; `PricesCorrect` (`PricedBySeller`);
  `MandateHeld` (`WithinMandate`): all ten clauses, for any shop, keyring, mandate
  and proposals. The limits that sum over orders are not inductive, because the
  code sums over ledger entries: `ProposalInv` adds that each order's entry
  carries its amount and SKUs and is no other order's (`Filed`), and that the
  orders that stand and the entries that count have one number and one sum
  (`Counted`). `ClauseVerdicts` and `AllowsEach` turn the combined ALLOW into one
  fact per clause; `ResolvedTo` and `LinePriced` say what resolution returns.
  `BasketsSentOnce` (`OncePerBasket`): baskets of the same goods, with one line for
  each SKU, have one intent, whatever is quoted and however they are spelt or
  ordered (`SameGoodsSameIntent`), and an intent is sent once.

The log and the pages (`WebProofs`).

* *Audit log*: `AuditTypes`; `ReturnedKept` (`RecordKept`), for any number of
  threads; `ChainHolds` (`SerialHolds`), from `SerialInv`: until two appends overlap,
  at most one is under way, and the list in memory is the file or the file without
  the record just written. `IntactAppend` says when a longer chain is intact.
* *Judge console*: `ConsoleTyped`; `ScreenTrue` (`ScreenIsTrue`, one part of
  which `SaidSimulated` states apart), for any presets, flows, tokens and limits.
  `TypesInv` adds what a flow holds between two waits. `ProducedInv` adds that an
  answer on its way says an order was placed only for one the service executed,
  and that no two answers and no answer and row are about the same one; `RowsInv`
  that the timers still pending for a limit end on the colour the outcome on
  screen gives it.
* *Shop*: `HistoryKeeps` (`HistoryIsSound`), for any number of rows kept, orders,
  weeks, restarts and polls. `JournalInv` says the next number is the length of the
  file - which is what `_load` must count before it trims - and that the rows are the end of the
  file, in order; a poll that has read its tag is behind the store, since revision
  and week only grow while it is served, and a restart ends it (`Serving`).
* *Live agents*: `OneRunPerPane` (`PaneIsOneRun`), for any number of clicks and
  orders. That an aborted run writes into no pane is not inductive: `AgentInv`
  adds that every run but the last was aborted, that until those have noticed
  nothing has been read for the last, and that what is shown of a stream, what is
  on the wire and what the service sends next continue one another (`Streaming`), with as
  many verdicts as steps.
* *Home page*: `VerdictOfScenario` (`VerdictIsItsOwn`), for any number of plays and
  for the bounds of the signed policy, which the scenarios' figures were chosen
  for. `PanelInv`: at most one evaluation has its timers set, and it has painted
  exactly the parts before its next one.

* *Film*: `StudioTyped`; `SoundFits` (`SoundOfThePicture`), for any shots, waits,
  takes, deaths of the capture and edits of the script. Two functions put a moment of
  the capture in the cut: `toFinal` goes over the waits and takes off what each saves,
  ffmpeg goes over the parts it joins and adds up what they last. `OneCut` says they
  agree, for waits that are apart: after each wait, what the parts before the cursor
  add up to is what `toFinal` has so far of the moment, or of the cursor if the moment
  is later. That they are apart is not given by the sort: `Marked` says it of what the recorder
  marks, each wait ending before its shot does (`RegionsSpaced`).
  `StudioInv` adds that a take under way has no manifest yet and a section's times
  are of a shot of the take they name, which has one (`TimedBy`): a manifest is never
  written again, however often takes are touched.
* *Types*: `AgentsTyped`, `PanelTyped`, `ShopTypesHold`, whose bounds the invariants
  above do not need; `PagesTyped` (`WebTyped`) joins them with the others, and
  `PagesSafe` joins every other invariant of the run, since a step of one page leaves
  the state of the others alone (`EachPageSteps`). The console's theorems need no
  fairness (`ConsoleMoves`).

The proofs of the log and the receipts (`MerkleProofs`).

* *Unfolding a recursive function.* What a definition `f[n \in Nat] == ...` says of `f`
  is an equation only if such a function exists. `Recursion` proves that it does when the
  body at `n` looks at smaller arguments only (`RecursiveFunction`). The provers take no
  operator as an argument of a theorem, so the body is a constant operator of the
  module, and each recursive definition has an instance of it with its own body.
  The inductions are on the least counterexample (`LeastNat`).
* *Merkle*: `ProofsAlwaysDecide` (`ProofsDecide`), for logs of any length, appended
  to and rewritten in any way. Prover and verifier have no recursion in common: one
  splits the leaves at the largest power of two, the other halves an index and a size.
  They meet on the levels of the tree. `At` says that a walk is at a node of a level, with
  what its index and size then are; `Reaches` that the
  path of every node, climbed with any record at the leaf, ends at that node with the root
  the tree would then have; `Builds` that a consistency proof rebuilds, above its seed,
  the old root and the new one. `InclusionIsDecided` and `ConsistencyIsDecided` follow
  because a root, of as many leaves, is the root of those leaves only (`SameRoot`). That hashing is
  free of collisions is in the model (a hash is the term it hashes) and is the one thing
  both rest on.
* *Receipts*: `ReceiptsTyped`; `ReceiptsAreEarned` (`ChecksAreEarned`), for any
  number of records, rewrites, sessions, checks and dialogs. `ReceiptInv` says of each
  check what has been answered to it so far, and that each of its answers is true of a
  log that may have grown or been rewritten since; the two Merkle theorems
  turn a walk that arrives into a record that is there.

Only model-checked, and why:

* `CallsReturn`, `PendingSettles`, `DecisionReachesPage`: liveness under fairness
  is beyond the prover.
* The runs of section 6, whose properties are violated: `ApprovePage` is checked by one
  of them only.

## 6. Deviations

Each of the five violation runs contradicts a sentence of the repository, which
`PROJECT.json` quotes.

* `upstream`: through the MCP upstream every failure, timeouts included, is a
  `DownstreamError`; the entry of an order that was executed is failed and its
  money given back.
* `stale`: a run whose stream was closed goes on proposing on the old gateway;
  the next run's gateway has another lock over the same ledger path, and both
  reserve.
* `both`: `revoke` remembers the file's time without having read what the command
  appended before: that revocation is not seen until the file changes again.

* `phone`: `GET /v1/approve/{ref}` withholds the reference that the card shortens
  (`web/pages/Approve.tsx:434`): opened from its link, the page goes blank.
* `swapped`: `HeldForApproval` reads the status of its item once and has no key, so
  an approval that comes late leaves the page saying of the next, unapproved basket
  that it was released.

Others, found while modelling, have no run of their own. Each can be seen by
changing the constants as said:

* `CommittedAsAuthorised` with the constants of `enforce`: an overcharged order
  whose answer was lost is committed by the Reconciler at the authorised amount;
  nothing compares it (`reconcile.py:17`).
* `StandingCovered` with those constants and `ScanComplete = FALSE`: an order
  beyond the first page of 100 is taken as absent and rolled back
  (`downstream/razorpay.py:78`).
* `SpendIsAudited` with those constants and `MaxCrashes = 0`: an exception that
  is neither `DownstreamTimeout` nor `DownstreamError` leaves `propose` before
  the audit record, and the Reconciler writes none.
* `OneVisitorPerToken` with the constants of `service` and `Returning = TRUE`: a
  restarted pool hands out a token somebody still holds (`token_pool.py:32`).
* `SingleUse`, `ApprovedInTime` and `OwnPrincipal`, stated at the end of
  `Approvals`, with the constants of `parts`. A timed-out order does not consume
  its approval; an item that expires between `get` and `resolve` still grants;
  one session's principal can approve what another session then executes, since
  both are keyed on the intent.
* `ReturnedIsRead`, stated in `LedgerFile`: the write after one that was cut short
  returns, and its entry is part of a line nobody can read; a reservation lost so
  can be made, and its order placed, again (`idem.py:56`).
* `CapturedOnce`, stated in `Capture`: a session that is replaced takes the set of
  spent capabilities with it, and the capability is good for another capture
  (`core.py:146`).
* `ChainIntact` with the constants `pages` gives `AuditChain`: two appends at once take the
  same position and predecessor (`audit.py:74`).
* `UnitsCapped`, `OrderIndependent` and `ApprovedAmount`, stated at the end of
  `Proposals`, with the constants of `basket`. Two lines of one SKU pass a limit
  that ARCHITECTURE.md:127 puts on "any single SKU"; swapped, they are a new
  intent and the basket is sent again, although `canonical_intent` is "invariant
  under agent-steered fields" (`action.py:127`); an approval given at one amount
  releases the intent at the amount of a later quote.
* `CeilingHeld`, stated at the end of `CallBudget`, with the constants of `parts`:
  a run that crosses midnight makes calls the new day never counted and refunds
  the old day's reservation to it; with `MaxDay = 1` and `Attempts = 2` retried
  requests exceed the ceiling within one day.

The pages, where each name is a definition at the end of the module it is about:

* *Console.* After a reset a run of the session before lands in the new list;
  timers of an earlier run repaint the rows after a manual cut-off; `isRevoked` is
  set although the service refused or never got the revocation (`693`); one flow
  clears `loading` while another runs; offline, "Send the same order twice" reads
  "Already ordered" with all limits skipped.
* *Agents.* An aborted comparison goes on to its second arm and marks the pane as
  running; a stream that ends without `done` leaves the button disabled.
* *Home page.* A change of the motion preference in mid-run leaves it unsettled; the
  start on scrolling into view overrides a click made before it; the tenth row
  always reads its whole bound as left, because loads are given for five limits; the
  rows after the refusing one are "skipped" although the gateway evaluates all.
* *Shop.* `TagMeansFresh`: the revision starts over with the service and the page
  stores the tag before the body, so a restarted service can answer 304 to a page
  with other rows. `NothingIsAnswered`: "Nothing ordered yet" before any answer.
* *Held order.* A probe or a held item of an old sandbox stays under a new one;
  `findHeldOrder` takes the newest pending item, whoever proposed it.
  `RefusedIsRefused`: an answer that is an error is shown as "Refused"
  (`SandboxPanel.tsx:456`).
* *Approval page.* `EmptyIsAnswered`: a failed list request shows "No Pending
  Approvals"; nobody can reject through the web application.
* *Receipts.* `BrokenIsRewritten`: the witnessed head outlives "Start over", and the
  next session's larger log "no longer extends" it (`ReceiptVerifier.tsx:34`, `250`);
  a log that grows between head and proof makes an honest receipt fail; an older
  check overwrites the verdict of the receipt now open.
* *Record page.* `RestIsRefused`: "Every attempt after that was refused"
  (`Dashboard.tsx:92`) is said where a later one went through. `SeveralAreSeveral`:
  "Refusals in this run cite more than one part" is also said of a run without any.
  `AllowedIsAllowed`: an undecided decision, or one of observe mode, is drawn as
  "allowed" (`ChainSection.tsx:81`). "executed" counts verdicts; the reason cites the
  first clause that did not allow, though a later one denied; "N / N hashes verified"
  is drawn without verifying.
* *Recording.* `PinnedToItsTake`: `sync-script.mjs:14` says assembly pins the audio by
  the recorded shot times; `voice.mjs` uses the headings of the script and the newest
  file. `post.mjs` drops a ramp that ends after the file, `sync-script.mjs` keeps it.

## 7. What is not modelled, and why

* Cryptography, hashing, canonical JSON, the wording of verdicts and readbacks.
* In `Proposals`, calls that overlap, crashes, the end of an approval's time and a
  change of its entry after the call: `Gateway` and `Approvals` have them. Also
  titles, and which currency it is that is not INR.
* File operations are atomic except in `LedgerFile`: no half-removed directory, and
  no torn line in the audit log, whose loader raises on one.
* Windows of time: the velocity and one-SKU clauses count every live entry, because
  `Ledger.state` does (`idem.py:88`), whatever window the policy names.
* Shadow gateways (they decide nothing),
  observe mode in `Sessions`, the approval store's file (off by default, and with
  the cache of `Revocations`), MCP calls for held orders (they open no item).
* Code nothing calls: `release_token`, `add_tokens`, `get_by_intent` (it would
  deadlock on the queue's own lock). Least-recently-used eviction needs more
  sessions than the pools hold tokens.
* A restarted service's first load of the revocation file, which is a check.
* In `Console`, the custom order and the figures of headroom; in `HeldOrder`, more
  than one poll per mounting; in `ApprovePage`, what follows the card, since the card
  is never reached; in `Receipts`, canonical JSON, which is injective there.
* Pages without state of their own beyond what is open or in view: `HowItHolds`,
  `Alignment`, `ThreeAnswers`, `LatticeStage`, `McpConnect`, `WhenPriceMoves`,
  `FailureModes`, `CoverageMap`, `ProblemHero`, `BootLoader`, `MediatedSurface`,
  `YourLimitsGrid`; the wording of `lib/plain.ts` and `lib/basket.ts`; the recorder's
  cursor and motion.
* Language models, network I/O, and the scoring of evidence.

## 8. What could come next

* A composition of `Proposals` with `Gateway`, the screened proposal of the one as
  the input of the other, so that `WithinMandate` holds of overlapping calls; and of
  `Sessions` with `Approvals`, one mandate's intents across wiped sessions.
* `LedgerFile` under the ledger of `Gateway`: what a tear costs in orders and money.
