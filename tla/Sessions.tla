----------------------------- MODULE Sessions ------------------------------
(***************************************************************************)
(* The hosted service around the gateway: the token pool                   *)
(* (service/token_pool.py), the session manager (service/session.py), the  *)
(* service's copy of the revocation list and the agent runs (run_agent in  *)
(* service/server.py).                                                     *)
(*                                                                         *)
(* The event loop executes one handler at a time and puts it aside where   *)
(* the handler awaits the body of its request; an agent run and an MCP     *)
(* tool propose from worker threads.  A session is created anew for every  *)
(* run of a token: its directory is wiped and a new Gateway, with a lock   *)
(* of its own, is built over the same ledger path, while a handler put     *)
(* aside and a run started earlier keep the Gateway they were given.       *)
(*                                                                         *)
(* Every gateway enforces, and budget.total stands for the clauses that    *)
(* read the ledger.  The receipts of one mandate's tokens are the same, so *)
(* an order is identified by its token, its session and its intent.        *)
(***************************************************************************)
EXTENDS Integers, FiniteSets, Money

CONSTANTS
  Tokens,       \* jtis of the pool file
  Visitors,     \* people who open a session
  Workers,      \* threads of asyncio.to_thread and of the MCP server
  Loop,         \* the event loop's thread
  None,         \* no token, no intent, no visitor
  Intents,      \* canonical intents
  Price,        \* Price[i]: the total of intent i
  BudgetMax,    \* budget.total
  MaxWaiting,   \* bound on the number of handlers that await a body
  MaxRestarts,  \* bound on the number of restarts of the service
  MaxSessions   \* bound on the number of sessions created for one token

ASSUME SessionsAssumption ==
  /\ None \notin Tokens \cup Visitors \cup Intents
  /\ Loop \notin Workers
  /\ IsFiniteSet(Intents) /\ Price \in [Intents -> Nat]
  /\ BudgetMax \in Nat /\ MaxRestarts \in Nat /\ MaxSessions \in Nat

VARIABLES
  available, claimed, retired,   \* TokenPool
  revoked,    \* RevocationList: the file
  known,      \* RevocationList._cache, as a check that reloads it finds it
  killed,     \* tokens the service itself has revoked
  holder,     \* holder[v]: the token visitor v was given, in which life of
              \* the service
  session,    \* session[t]: which session of t is in _sessions, 0 for none
  created,    \* created[t]: sessions created for t so far
  dir,        \* tokens whose session directory exists
  entry,      \* entry[t][i]: state of intent i in the ledger file of t
  mixed,      \* tokens two gateways of which have worked on their ledger
  waiting,    \* handlers put aside until their body has arrived
  call,       \* call[p]: what thread p is executing
  orders,     \* orders on the rail
  restarts    \* restarts so far

pool == <<available, claimed, retired>>
lists == <<revoked, known, killed>>
files == <<dir, entry, mixed>>
manager == <<session, created, files>>
vars == <<pool, lists, holder, manager, waiting, call, orders, restarts>>

Threads == Workers \cup {Loop}

Free == [pc |-> "idle", token |-> None, number |-> 0, intent |-> None,
         run |-> FALSE, watcher |-> None, late |-> FALSE]

(* A caller that proposes through the gateway of session n of token t.     *)
Ready(t, n, run, v) ==
  [pc |-> "ready", token |-> t, number |-> n, intent |-> None,
   run |-> run, watcher |-> v, late |-> FALSE]

Nobody == [token |-> None, life |-> 0]

Empty == [i \in Intents |-> "none"]

Init ==
  /\ available = Tokens /\ claimed = {} /\ retired = {}
  /\ revoked = {} /\ known = {} /\ killed = {}
  /\ holder = [v \in Visitors |-> Nobody]
  /\ session = [t \in Tokens |-> 0]
  /\ created = [t \in Tokens |-> 0]
  /\ dir = {}
  /\ entry = [t \in Tokens |-> Empty]
  /\ mixed = {}
  /\ waiting = {}
  /\ call = [p \in Threads |-> Free]
  /\ orders = {}
  /\ restarts = 0

Live(t) == {i \in Intents : entry[t][i] \in {"PENDING", "COMMITTED"}}

(* The calls of a token that are between the check and the last mark.      *)
InFlight(t) == {p \in Threads : call[p].token = t /\ call[p].pc \notin {"idle", "ready"}}

-----------------------------------------------------------------------------
(* SessionManager.                                                         *)

(* The ledgers of T are removed: what calls in flight know of them is of a *)
(* file that is gone.                                                      *)
Wipe(T) ==
  /\ entry' = [u \in Tokens |-> IF u \in T THEN Empty ELSE entry[u]]
  /\ mixed' = (mixed \ T) \cup {u \in T : InFlight(u) # {}}

(* create_session evicts what no handler has fetched for the idle timeout, *)
(* even while a run proposes through its gateway, and the least recent     *)
(* beyond max_sessions; then it wipes the directory of the token and       *)
(* registers a new session over it.                                        *)
CreateSession(t, idle) ==
  /\ created[t] < MaxSessions
  /\ idle \subseteq {u \in Tokens : session[u] # 0}
  /\ created' = [created EXCEPT ![t] = @ + 1]
  /\ session' = [u \in Tokens |-> IF u = t THEN created[t] + 1
                                  ELSE IF u \in idle THEN 0 ELSE session[u]]
  /\ dir' = (dir \ idle) \cup {t}
  /\ Wipe(idle \cup {t})

Evict(t) ==
  LET gone == {t} \cap {u \in Tokens : session[u] # 0}
  IN  /\ session' = [session EXCEPT ![t] = 0]
      /\ dir' = dir \ gone
      /\ Wipe(gone)

-----------------------------------------------------------------------------
(* Handlers of the event loop.                                             *)
LoopFree == call[Loop].pc = "idle"

(* Mutant: the pool asks only its own memory which tokens are burned.      *)
ClaimToken_OwnMemory(t) ==
  /\ t \in available \ retired
  /\ available' = available \ {t}
  /\ claimed' = claimed \cup {t}
  /\ UNCHANGED retired

(* claim_token takes the first token that is neither retired nor known to  *)
(* be revoked; the order of the file does not matter here, and the tokens  *)
(* skipped on the way are left where they are.                             *)
ClaimToken(t) ==
  /\ t \in available \ (retired \cup known)
  /\ available' = available \ {t}
  /\ claimed' = claimed \cup {t}
  /\ UNCHANGED retired

(* POST /v1/sessions, and an MCP client without a token of its own.        *)
OpenSession(v, t, idle) ==
  /\ ClaimToken(t)
  /\ CreateSession(t, idle)
  /\ holder' = [holder EXCEPT ![v] = [token |-> t, life |-> restarts]]
  /\ UNCHANGED <<lists, waiting, call, orders, restarts>>

(* The sandbox opens a session, on a token of a pool of its own: what is   *)
(* idle goes.                                                              *)
OpenSandbox(idle) ==
  /\ LoopFree
  /\ idle # {} /\ idle \subseteq {u \in Tokens : session[u] # 0}
  /\ session' = [u \in Tokens |-> IF u \in idle THEN 0 ELSE session[u]]
  /\ dir' = dir \ idle
  /\ Wipe(idle)
  /\ UNCHANGED <<pool, lists, holder, created, waiting, call, orders, restarts>>

(* capture_payment, and the tools of the MCP surface for a bearer token,   *)
(* create the session of a token that has none.  The tools do not ask      *)
(* whether the token is revoked: propose will.                             *)
Reopen(v, idle) ==
  LET t == holder[v].token
  IN  /\ t # None /\ session[t] = 0
      /\ CreateSession(t, idle)
      /\ UNCHANGED <<pool, lists, holder, waiting, call, orders, restarts>>

(* create_order of the MCP surface, on a thread: it fetches the session    *)
(* and proposes through its gateway.                                       *)
ToolOrder(v, w) ==
  LET t == holder[v].token
  IN  /\ t # None /\ session[t] # 0 /\ call[w].pc = "idle"
      /\ call' = [call EXCEPT ![w] = Ready(t, session[t], FALSE, None)]
      /\ UNCHANGED <<pool, lists, holder, manager, waiting, orders, restarts>>

(* A handler has checked its token and awaits the body of its request.     *)
Await(v, kind, number) ==
  /\ LoopFree /\ holder[v].token \notin known \cup {None}
  /\ Cardinality(waiting) < MaxWaiting
  /\ waiting' = waiting \cup
       {[kind |-> kind, visitor |-> v, token |-> holder[v].token, number |-> number]}
  /\ UNCHANGED <<pool, lists, holder, manager, call, orders, restarts>>

(* POST /v1/orders: the session must exist, and is fetched first.          *)
AskOrder(v) ==
  LET t == holder[v].token
  IN  t # None /\ session[t] # 0 /\ Await(v, "order", session[t])

(* POST /v1/agent/run.  The console asks for the next run of a visitor     *)
(* when the stream of the one before has ended or was aborted.             *)
AskRun(v) ==
  /\ \A x \in Workers : call[x].watcher # v
  /\ \A r \in waiting : r.visitor = v => r.kind # "run"
  /\ Await(v, "run", 0)

(* The body has arrived: the order is proposed through the gateway of the  *)
(* session that was fetched.                                               *)
TakeOrder(r) ==
  /\ LoopFree /\ r \in waiting /\ r.kind = "order"
  /\ waiting' = waiting \ {r}
  /\ call' = [call EXCEPT ![Loop] = Ready(r.token, r.number, FALSE, None)]
  /\ UNCHANGED <<pool, lists, holder, manager, orders, restarts>>

(* A fresh session, and a thread that drives it, unless no model provider  *)
(* can be built or the browser has gone.                                   *)
StartRun(r, w, idle) ==
  /\ LoopFree /\ r \in waiting /\ r.kind = "run"
  /\ waiting' = waiting \ {r}
  /\ CreateSession(r.token, idle)
  /\ \/ UNCHANGED call
     \/ /\ call[w].pc = "idle"
        /\ call' = [call EXCEPT
             ![w] = Ready(r.token, created[r.token] + 1, TRUE, r.visitor)]
  /\ UNCHANGED <<pool, lists, holder, orders, restarts>>

(* The body is malformed, or the client is gone before it was sent.        *)
Drop(r) ==
  /\ r \in waiting
  /\ waiting' = waiting \ {r}
  /\ UNCHANGED <<pool, lists, holder, manager, call, orders, restarts>>

(* The browser closes the stream of a run.  The thread is not told.        *)
Abort(w) ==
  /\ call[w].watcher # None
  /\ call' = [call EXCEPT ![w].watcher = None]
  /\ UNCHANGED <<pool, lists, holder, manager, waiting, orders, restarts>>

(* Mutant: the token is burned in memory and not on disk.                  *)
RevokeToken_MemoryOnly(v) ==
  LET t == holder[v].token
  IN  /\ LoopFree /\ t \notin known \cup {None}
      /\ known' = known \cup {t} /\ killed' = killed \cup {t}
      /\ retired' = retired \cup {t}
      /\ claimed' = claimed \ {t}
      /\ Evict(t)
      /\ UNCHANGED <<revoked, available, holder, created, waiting, call, orders, restarts>>

(* POST /v1/revoke: in the file and in memory, in the pool, and the        *)
(* session goes.                                                           *)
RevokeToken(v) ==
  LET t == holder[v].token
  IN  /\ LoopFree /\ t \notin known \cup {None}
      /\ revoked' = revoked \cup {t}
      /\ known' = known \cup {t} /\ killed' = killed \cup {t}
      /\ retired' = retired \cup {t}
      /\ claimed' = claimed \ {t}
      /\ Evict(t)
      /\ UNCHANGED <<available, holder, created, waiting, call, orders, restarts>>

(* `mandate revoke t` in another process: in the file only, and the        *)
(* session stays.  The service finds a newer file and reads it, or, when   *)
(* the time it remembers is not older, goes on with what it has (module    *)
(* Revocations).                                                           *)
CommandRevoke(t, newer) ==
  /\ t \notin revoked
  /\ revoked' = revoked \cup {t}
  /\ known' = IF newer THEN revoked' ELSE known
  /\ UNCHANGED <<killed, pool, holder, manager, waiting, call, orders, restarts>>

-----------------------------------------------------------------------------
(* Gateway.propose by thread p, on the gateway of the session it was given.*)

(* Mutant: callers do not exclude each other.                              *)
LockFree_Never(p) == TRUE

(* _eval_lock belongs to the gateway, not to the token.                    *)
LockFree(p) ==
  \A q \in Threads :
    call[q].pc \in {"evaluate", "reserve"} =>
      \/ call[q].token # call[p].token
      \/ call[q].number # call[p].number

(* A run goes on to its next proposal, a request is answered.              *)
Returned(p) ==
  IF call[p].run THEN [call[p] EXCEPT !.pc = "ready", !.intent = None, !.late = FALSE]
                 ELSE Free

(* The gateway of another session is working on the ledger as well.        *)
Meets(p) == \E q \in InFlight(call[p].token) : call[q].number # call[p].number

(* The lock, then _verify_token against the list.  A revoked token gets    *)
(* DENY; a run goes on and is denied again at its next proposal.           *)
Verify(p, i) ==
  LET denied == call[p].token \in known
  IN  /\ call[p].pc = "ready" /\ LockFree(p)
      /\ call' = [call EXCEPT
           ![p] = IF denied THEN Returned(p)
                  ELSE [@ EXCEPT !.pc = "evaluate", !.intent = i,
                                 !.late = call[p].token \in killed]]
      /\ mixed' = IF ~denied /\ Meets(p) THEN mixed \cup {call[p].token} ELSE mixed
      /\ UNCHANGED <<pool, lists, holder, session, created, dir, entry, waiting, orders,
                     restarts>>

(* Mutant: a settled entry of the intent is taken for none.                *)
Evaluate_SettledIsNone(p) ==
  LET t == call[p].token
      room == Total(Live(t), Price) + Price[call[p].intent] <= BudgetMax
  IN  /\ call[p].pc = "evaluate"
      /\ call' = [call EXCEPT
           ![p] = IF entry[t][call[p].intent] # "PENDING" /\ room
                  THEN [@ EXCEPT !.pc = "reserve"] ELSE Returned(p)]
      /\ UNCHANGED <<pool, lists, holder, manager, waiting, orders, restarts>>

(* The ledger file is read (a missing one is empty): an entry of the       *)
(* intent or a budget exceeded ends the call.                              *)
Evaluate(p) ==
  LET t == call[p].token
      room == Total(Live(t), Price) + Price[call[p].intent] <= BudgetMax
  IN  /\ call[p].pc = "evaluate"
      /\ call' = [call EXCEPT
           ![p] = IF entry[t][call[p].intent] = "none" /\ room
                  THEN [@ EXCEPT !.pc = "reserve"] ELSE Returned(p)]
      /\ UNCHANGED <<pool, lists, holder, manager, waiting, orders, restarts>>

(* open_pending appends to the file; in a directory that is gone it raises *)
(* and ends the request or the run.                                        *)
Reserve(p) ==
  LET t == call[p].token
  IN  /\ call[p].pc = "reserve"
      /\ IF t \in dir
         THEN /\ entry' = [entry EXCEPT ![t][call[p].intent] = "PENDING"]
              /\ call' = [call EXCEPT ![p].pc = "send"]
         ELSE /\ call' = [call EXCEPT ![p] = Free]
              /\ UNCHANGED entry
      /\ UNCHANGED <<pool, lists, holder, session, created, dir, mixed, waiting, orders,
                     restarts>>

(* Mutant: an order whose answer is lost is rolled back.                   *)
Send_TimeoutFails(p, placed, answer) ==
  /\ call[p].pc = "send"
  /\ answer = "ok" => placed
  /\ answer = "refused" => ~placed
  /\ orders' = IF placed
               THEN orders \cup {[token |-> call[p].token, number |-> call[p].number,
                                  intent |-> call[p].intent, late |-> call[p].late]}
               ELSE orders
  /\ call' = [call EXCEPT
       ![p] = CASE answer = "ok" -> [@ EXCEPT !.pc = "commit"]
                [] answer = "refused" -> [@ EXCEPT !.pc = "fail"]
                [] answer = "timeout" -> [@ EXCEPT !.pc = "fail"]]
  /\ UNCHANGED <<pool, lists, holder, manager, waiting, restarts>>

(* create_order: the rail takes the order or refuses it, or the answer is  *)
(* lost and the entry is left PENDING.                                     *)
Send(p, placed, answer) ==
  /\ call[p].pc = "send"
  /\ answer = "ok" => placed
  /\ answer = "refused" => ~placed
  /\ orders' = IF placed
               THEN orders \cup {[token |-> call[p].token, number |-> call[p].number,
                                  intent |-> call[p].intent, late |-> call[p].late]}
               ELSE orders
  /\ call' = [call EXCEPT
       ![p] = CASE answer = "ok" -> [@ EXCEPT !.pc = "commit"]
                [] answer = "refused" -> [@ EXCEPT !.pc = "fail"]
                [] answer = "timeout" -> Returned(p)]
  /\ UNCHANGED <<pool, lists, holder, manager, waiting, restarts>>

(* mark_committed or mark_failed: an intent that is not in the file any    *)
(* more is a KeyError, which ends the request or the run.                  *)
Settle(p) ==
  LET t == call[p].token
      i == call[p].intent
  IN  /\ call[p].pc \in {"commit", "fail"}
      /\ IF entry[t][i] # "none"
         THEN /\ entry' = [entry EXCEPT
                   ![t][i] = IF call[p].pc = "commit" THEN "COMMITTED" ELSE "FAILED"]
              /\ call' = [call EXCEPT ![p] = Returned(p)]
         ELSE /\ call' = [call EXCEPT ![p] = Free]
              /\ UNCHANGED entry
      /\ UNCHANGED <<pool, lists, holder, session, created, dir, mixed, waiting, orders,
                     restarts>>

(* The agent of a run has nothing further to propose.                      *)
EndRun(w) ==
  /\ call[w].pc = "ready" /\ call[w].run
  /\ call' = [call EXCEPT ![w] = Free]
  /\ UNCHANGED <<pool, lists, holder, manager, waiting, orders, restarts>>

-----------------------------------------------------------------------------
(* The service is restarted: threads, handlers, sessions and the pool's    *)
(* memory are gone, the pool file and the revocations are read again, and  *)
(* the directories are still on disk.  The visitors still have the tokens  *)
(* they were given.                                                        *)
Restart ==
  /\ restarts < MaxRestarts
  /\ restarts' = restarts + 1
  /\ available' = Tokens /\ claimed' = {} /\ retired' = {}
  /\ known' = revoked
  /\ session' = [t \in Tokens |-> 0]
  /\ waiting' = {}
  /\ call' = [p \in Threads |-> Free]
  /\ UNCHANGED <<revoked, killed, holder, created, files, orders>>

Handler ==
  \/ \E v \in Visitors :
       \/ \E t \in Tokens, idle \in SUBSET Tokens : OpenSession(v, t, idle)
       \/ \E idle \in SUBSET Tokens : Reopen(v, idle)
       \/ \E w \in Workers : ToolOrder(v, w)
       \/ AskOrder(v) \/ AskRun(v)
       \/ RevokeToken(v)
  \/ \E idle \in SUBSET Tokens : OpenSandbox(idle)
  \/ \E r \in waiting :
       \/ TakeOrder(r)
       \/ \E w \in Workers, idle \in SUBSET Tokens : StartRun(r, w, idle)
       \/ Drop(r)

Propose(p) ==
  \/ \E i \in Intents : Verify(p, i)
  \/ Evaluate(p)
  \/ Reserve(p)
  \/ \E placed \in BOOLEAN, answer \in {"ok", "refused", "timeout"} :
       Send(p, placed, answer)
  \/ Settle(p)

Next ==
  \/ Handler
  \/ \E p \in Threads : Propose(p)
  \/ \E w \in Workers : Abort(w) \/ EndRun(w)
  \/ \E t \in Tokens, newer \in BOOLEAN : CommandRevoke(t, newer)
  \/ Restart

Spec == Init /\ [][Next]_vars
-----------------------------------------------------------------------------
TypeOK ==
  /\ available \subseteq Tokens /\ claimed \subseteq Tokens /\ retired \subseteq Tokens
  /\ revoked \subseteq Tokens /\ known \subseteq revoked /\ killed \subseteq known
  /\ holder \in [Visitors -> [token : Tokens \cup {None}, life : 0 .. MaxRestarts]]
  /\ session \in [Tokens -> 0 .. MaxSessions]
  /\ created \in [Tokens -> 0 .. MaxSessions]
  /\ dir \subseteq Tokens /\ mixed \subseteq Tokens
  /\ entry \in [Tokens -> [Intents -> {"none", "PENDING", "COMMITTED", "FAILED"}]]
  /\ waiting \subseteq [kind : {"order", "run"}, visitor : Visitors, token : Tokens,
                         number : 0 .. MaxSessions]
  /\ call \in [Threads ->
       [pc : {"idle", "ready", "evaluate", "reserve", "send", "commit", "fail"},
        token : Tokens \cup {None}, number : 0 .. MaxSessions,
        intent : Intents \cup {None}, run : BOOLEAN, watcher : Visitors \cup {None},
        late : BOOLEAN]]
  /\ orders \subseteq [token : Tokens, number : 1 .. MaxSessions,
                       intent : Intents, late : BOOLEAN]
  /\ restarts \in 0 .. MaxRestarts

(* The ledger of a session never holds more than the budget (race.budget), *)
(* as long as the calls of two gateways have not met on it and it was      *)
(* wiped under none of them.                                               *)
SessionWithinBudget == \A t \in Tokens \ mixed : Total(Live(t), Price) <= BudgetMax

(* An order placed by the session a token has now is charged in the        *)
(* token's ledger, under the same condition: calls of an older gateway     *)
(* that write to it before or after leave the entry standing.              *)
CurrentOrderCovered ==
  \A o \in orders : o.token \notin mixed /\ o.number = session[o.token]
                        => o.intent \in Live(o.token)

(* The kill switch: a call that took the gateway's lock after the service  *)
(* revoked its token never reaches the rail, whoever makes it: a handler   *)
(* that was put aside, a run under way on the evicted session, a visitor   *)
(* who reopens it, all of these after restarts, and whatever another       *)
(* process writes to the list meanwhile.                                   *)
KillSwitch == \A o \in orders : ~o.late

(* A token is handed out once in a life of the service, and one that the   *)
(* service has revoked in any life never again.                            *)
HandedOutOnce ==
  /\ \A v, w \in Visitors :
       v # w /\ holder[v].token # None /\ holder[v].token = holder[w].token
         => holder[v].life # holder[w].life
  /\ killed \cap claimed = {}

(* The ledger of a token, read as money.                                   *)
Money(t) == [i \in Intents |->
  [state |-> entry[t][i], amount |-> IF entry[t][i] = "none" THEN 0 ELSE Price[i]]]

Promise == INSTANCE TokenGuard WITH money <- [t \in Tokens |-> Money(t)]

(* The service implements the spending guard of each token: projected to   *)
(* the ledgers, every step of handlers, runs, evictions and restarts holds *)
(* the price of one intent for which there is room, settles one that is    *)
(* held, or ends sessions with all they held; but for a token on whose     *)
(* ledger two gateways have met, until its session ends.                   *)
ImplementsTokenGuard == Promise!Spec

(* Two runs of a token do not race for one budget: what they have reserved *)
(* when both are about to order fits it.  A run whose visitor has left and *)
(* the run after it reserve through two gateways, and exceed it.           *)
RunsDoNotRace ==
  \A w, x \in Workers :
    /\ w # x /\ call[w].run /\ call[x].run /\ call[w].token = call[x].token
    /\ call[w].pc = "send" /\ call[x].pc = "send"
    => Total(Live(call[w].token), Price) <= BudgetMax

(* A token is handed out once.  The pool forgets its claims in a restart.  *)
OneVisitorPerToken ==
  \A v, w \in Visitors :
    v # w /\ holder[v].token # None => holder[v].token # holder[w].token
=============================================================================
