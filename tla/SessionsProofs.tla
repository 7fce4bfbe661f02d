--------------------------- MODULE SessionsProofs ---------------------------
(***************************************************************************)
(* Theorems about Sessions, for every pool of tokens, any visitors and     *)
(* worker threads, any intents, prices and budget, and any number of       *)
(* sessions and restarts.                                                  *)
(***************************************************************************)
EXTENDS Sessions, OperatorProofs

-----------------------------------------------------------------------------
(* Type correctness.                                                       *)

Stages == {"idle", "ready", "evaluate", "reserve", "send", "commit", "fail"}

CallRecord ==
  [pc : Stages, token : Tokens \cup {None}, number : 0 .. MaxSessions,
   intent : Intents \cup {None}, run : BOOLEAN, watcher : Visitors \cup {None},
   late : BOOLEAN]

EntryMap == [Intents -> {"none", "PENDING", "COMMITTED", "FAILED"}]

LEMMA CallTyped == TypeOK => call \in [Threads -> CallRecord]
BY DEF TypeOK, CallRecord, Stages

LEMMA EntryTyped == TypeOK => entry \in [Tokens -> EntryMap]
BY DEF TypeOK, EntryMap

LEMMA FreeTyped == Free \in CallRecord
BY SessionsAssumption DEF Free, CallRecord, Stages

LEMMA EmptyTyped == Empty \in EntryMap
BY DEF Empty, EntryMap

LEMMA ReturnedTyped ==
  ASSUME TypeOK, NEW p \in Threads
  PROVE  Returned(p) \in CallRecord
<1>1. call[p] \in CallRecord
  BY CallTyped
<1> QED  BY <1>1, FreeTyped DEF Returned, CallRecord, Stages

(* A call past its Verify works on a token and an intent.                  *)
Working ==
  \A p \in Threads :
    /\ call[p].pc = "idle" <=> call[p].token = None
    /\ call[p].pc \notin {"idle", "ready"} => call[p].intent \in Intents

LEMMA BusyToken ==
  ASSUME TypeOK, Working, NEW p \in Threads, call[p].pc # "idle"
  PROVE  call[p].token \in Tokens
BY DEF TypeOK, Working

(* What the session manager does to the sessions, the ledgers and the      *)
(* directories when it removes those of the tokens T.                      *)
Managed(T) ==
  /\ T \in SUBSET Tokens
  /\ session' \in [Tokens -> 0 .. MaxSessions]
  /\ created' \in [Tokens -> 0 .. MaxSessions]
  /\ dir' \in SUBSET Tokens
  /\ entry' \in [Tokens -> EntryMap]
  /\ mixed' = (mixed \ T) \cup {u \in T : InFlight(u) # {}}
  /\ \A u \in Tokens : created[u] <= created'[u]
  /\ \A u \in T : /\ entry'[u] = Empty
                  /\ session'[u] = 0 \/ (session'[u] = created[u] + 1
                                          /\ created'[u] = created[u] + 1)
  /\ \A u \in Tokens \ T : session'[u] = session[u] /\ entry'[u] = entry[u]

LEMMA WipeEffect ==
  ASSUME TypeOK, NEW T \in SUBSET Tokens, Wipe(T)
  PROVE  /\ entry' \in [Tokens -> EntryMap]
         /\ mixed' = (mixed \ T) \cup {u \in T : InFlight(u) # {}}
         /\ \A u \in T : entry'[u] = Empty
         /\ \A u \in Tokens \ T : entry'[u] = entry[u]
BY EntryTyped, EmptyTyped DEF Wipe

LEMMA CreateEffect ==
  ASSUME TypeOK, NEW t \in Tokens, NEW idle \in SUBSET Tokens, CreateSession(t, idle)
  PROVE  /\ Managed(idle \cup {t})
         /\ created[t] + 1 \in 0 .. MaxSessions
         /\ created'[t] = created[t] + 1
<1>0. /\ created \in [Tokens -> 0 .. MaxSessions]
      /\ session \in [Tokens -> 0 .. MaxSessions]
      /\ dir \in SUBSET Tokens /\ MaxSessions \in Nat
  BY SessionsAssumption DEF TypeOK
<1>1. created[t] < MaxSessions /\ created[t] + 1 \in 0 .. MaxSessions
  BY <1>0 DEF CreateSession
<1>2. /\ created'[t] = created[t] + 1
      /\ created' \in [Tokens -> 0 .. MaxSessions]
      /\ \A u \in Tokens : u # t => created'[u] = created[u]
  BY <1>0, <1>1 DEF CreateSession
<1>3. \A u \in Tokens : created[u] <= created'[u]
  BY <1>0, <1>1, <1>2
<1>4. /\ session' \in [Tokens -> 0 .. MaxSessions]
      /\ session'[t] = created[t] + 1
      /\ \A u \in Tokens : u # t =>
           /\ u \in idle => session'[u] = 0
           /\ u \notin idle => session'[u] = session[u]
  BY <1>0, <1>1 DEF CreateSession
<1>5. dir' \in SUBSET Tokens
  BY <1>0 DEF CreateSession
<1>6. Wipe(idle \cup {t}) /\ idle \cup {t} \in SUBSET Tokens
  BY DEF CreateSession
<1> DEFINE T == idle \cup {t}
<1>7. \A u \in T : session'[u] = 0 \/ (session'[u] = created[u] + 1
                                       /\ created'[u] = created[u] + 1)
  BY <1>2, <1>4
<1>8. \A u \in Tokens \ T : session'[u] = session[u]
  BY <1>4
<1> HIDE DEF T
<1>9. Wipe(T) /\ T \in SUBSET Tokens
  BY <1>6 DEF T
<1>10. Managed(T)
  BY <1>2, <1>3, <1>4, <1>5, <1>7, <1>8, <1>9, WipeEffect DEF Managed
<1> QED  BY <1>1, <1>2, <1>10 DEF T

LEMMA EvictEffect ==
  ASSUME TypeOK, NEW t \in Tokens, Evict(t), UNCHANGED created
  PROVE  Managed({t} \cap {u \in Tokens : session[u] # 0})
<1> DEFINE gone == {t} \cap {u \in Tokens : session[u] # 0}
<1>0. /\ created \in [Tokens -> 0 .. MaxSessions]
      /\ session \in [Tokens -> 0 .. MaxSessions]
      /\ dir \in SUBSET Tokens /\ MaxSessions \in Nat
  BY SessionsAssumption DEF TypeOK
<1>1. /\ session' \in [Tokens -> 0 .. MaxSessions] /\ session'[t] = 0
      /\ \A u \in Tokens \ {t} : session'[u] = session[u]
      /\ dir' \in SUBSET Tokens
      /\ Wipe(gone)
  BY <1>0 DEF Evict
<1>2. /\ gone \in SUBSET Tokens
      /\ \A u \in gone : session'[u] = 0
      /\ \A u \in Tokens \ gone : session'[u] = session[u]
  BY <1>0, <1>1
<1>3. \A u \in Tokens : created[u] <= created'[u]
  BY <1>0
<1> HIDE DEF gone
<1>4. Managed(gone)
  BY <1>0, <1>1, <1>2, <1>3, WipeEffect DEF Managed
<1> QED  BY <1>4 DEF gone

LEMMA SandboxEffect ==
  ASSUME TypeOK, NEW idle \in SUBSET Tokens, OpenSandbox(idle)
  PROVE  Managed(idle)
<1>0. /\ created \in [Tokens -> 0 .. MaxSessions]
      /\ session \in [Tokens -> 0 .. MaxSessions]
      /\ dir \in SUBSET Tokens /\ MaxSessions \in Nat
  BY SessionsAssumption DEF TypeOK
<1>1. /\ session' \in [Tokens -> 0 .. MaxSessions]
      /\ \A u \in idle : session'[u] = 0
      /\ \A u \in Tokens \ idle : session'[u] = session[u]
      /\ dir' \in SUBSET Tokens /\ UNCHANGED created
      /\ Wipe(idle)
  BY <1>0 DEF OpenSandbox
<1>2. \A u \in Tokens : created[u] <= created'[u]
  BY <1>0, <1>1
<1> QED  BY <1>0, <1>1, <1>2, WipeEffect DEF Managed

(* The order a placed request becomes.                                     *)
OrderOf(me) == [token |-> me.token, number |-> me.number,
                intent |-> me.intent, late |-> me.late]

OrderType == [token : Tokens, number : 1 .. MaxSessions,
              intent : Intents, late : BOOLEAN]

(* A call's session has a number: none is handed out before the first.     *)
Numbered ==
  /\ \A p \in Threads : call[p].pc # "idle" => call[p].number # 0
  /\ \A r \in waiting : r.kind = "order" => r.number # 0

HolderMap == [Visitors -> [token : Tokens \cup {None}, life : 0 .. MaxRestarts]]

LEMMA HolderTyped ==
  TypeOK => /\ holder \in HolderMap
            /\ \A v \in Visitors : holder[v].token # None => holder[v].token \in Tokens
BY DEF TypeOK, HolderMap

LEMMA TypeInit == Init => TypeOK /\ Working /\ Numbered
<1> SUFFICES ASSUME Init PROVE TypeOK /\ Working /\ Numbered
  OBVIOUS
<1>1. call \in [Threads -> CallRecord]
  BY FreeTyped DEF Init
<1>2. entry \in [Tokens -> EntryMap]
  BY EmptyTyped DEF Init
<1>3. /\ MaxSessions \in Nat /\ MaxRestarts \in Nat
  BY SessionsAssumption
<1>4. holder \in HolderMap
  BY <1>3 DEF Init, HolderMap, Nobody
<1>5. TypeOK
  BY <1>1, <1>2, <1>3, <1>4 DEF Init, TypeOK, CallRecord, Stages, EntryMap, HolderMap
<1> QED  BY <1>5 DEF Init, Working, Numbered, Free

(* A step that changes the call of one thread p only.                      *)
OnlyCall(p) ==
  /\ call' \in [Threads -> CallRecord]
  /\ \A q \in Threads : q # p => call'[q] = call[q]

LEMMA OnlyCallStep ==
  ASSUME TypeOK, NEW p \in Threads, NEW me \in CallRecord,
         call' = [call EXCEPT ![p] = me]
  PROVE  OnlyCall(p) /\ call'[p] = me
BY CallTyped DEF OnlyCall

LEMMA FreeIsIdle == Free.pc = "idle" /\ Free.token = None
BY DEF Free

(* The call goes on to stage pc, for the same token and session.           *)
GoesTo(p, pc) ==
  /\ call'[p].pc = pc
  /\ call'[p].token = call[p].token /\ call'[p].number = call[p].number

(* The proposal is over: the request or the agent's turn ends.             *)
Ends(p) ==
  \/ call'[p] = Free
  \/ GoesTo(p, "ready") /\ ~call'[p].late

LEMMA ReturnedStep ==
  ASSUME TypeOK, NEW p \in Threads, call' = [call EXCEPT ![p] = Returned(p)]
  PROVE  OnlyCall(p) /\ Ends(p)
<1>1. OnlyCall(p) /\ call'[p] = Returned(p)
  BY ReturnedTyped, OnlyCallStep
<1>2. call[p] \in CallRecord
  BY CallTyped
<1>3. CASE ~call[p].run
  BY <1>1, <1>3 DEF Returned, Ends
<1>4. CASE call[p].run
  <2> DEFINE me == [call[p] EXCEPT !.pc = "ready", !.intent = None, !.late = FALSE]
  <2>1. /\ me.pc = "ready" /\ me.token = call[p].token
        /\ me.number = call[p].number /\ me.late = FALSE
    BY <1>2 DEF CallRecord
  <2>2. call'[p] = me
    BY <1>1, <1>4 DEF Returned
  <2> HIDE DEF me
  <2>3. GoesTo(p, "ready") /\ ~call'[p].late
    BY <2>1, <2>2 DEF GoesTo
  <2> QED  BY <1>1, <1>4, <2>3 DEF Ends
<1> QED  BY <1>3, <1>4

LEMMA FreeStep ==
  ASSUME TypeOK, NEW p \in Threads, call' = [call EXCEPT ![p] = Free]
  PROVE  OnlyCall(p) /\ call'[p] = Free
BY FreeTyped, OnlyCallStep

Elsewhere == <<pool, lists, holder, session, created, dir, waiting, restarts>>

LEMMA VerifyEffect ==
  ASSUME TypeOK, NEW p \in Threads, NEW i \in Intents, Verify(p, i)
  PROVE  /\ OnlyCall(p) /\ UNCHANGED <<Elsewhere, entry, orders>>
         /\ call[p].pc = "ready" /\ LockFree(p)
         /\ \/ Ends(p) /\ UNCHANGED mixed
            \/ /\ GoesTo(p, "evaluate") /\ call'[p].intent = i /\ ~call'[p].late
               /\ mixed' = IF Meets(p) THEN mixed \cup {call[p].token} ELSE mixed
<1>1. call[p] \in CallRecord
  BY CallTyped
<1>2. UNCHANGED <<Elsewhere, entry, orders>> /\ call[p].pc = "ready" /\ LockFree(p)
  BY DEF Verify, Elsewhere, pool, lists
<1>3. CASE call[p].token \in known
  <2>1. call' = [call EXCEPT ![p] = Returned(p)] /\ UNCHANGED mixed
    BY <1>3 DEF Verify
  <2> QED  BY <1>2, <2>1, ReturnedStep
<1>4. CASE call[p].token \notin known
  <2> DEFINE late == call[p].token \in killed
             me == [call[p] EXCEPT !.pc = "evaluate", !.intent = i, !.late = late]
  <2>0. late = FALSE
    BY <1>4 DEF TypeOK
  <2>1. call' = [call EXCEPT ![p] = me]
    BY <1>4, CallTyped DEF Verify
  <2>2. mixed' = IF Meets(p) THEN mixed \cup {call[p].token} ELSE mixed
    BY <1>4 DEF Verify
  <2> HIDE DEF late
  <2>3. me \in CallRecord
    BY <1>1, <2>0 DEF CallRecord, Stages
  <2>4. OnlyCall(p) /\ call'[p] = me
    <3> HIDE DEF me
    <3> QED  BY <2>1, <2>3, OnlyCallStep
  <2> QED  BY <1>1, <1>2, <2>0, <2>2, <2>4 DEF GoesTo, CallRecord
<1> QED  BY <1>3, <1>4

LEMMA EvaluateEffect ==
  ASSUME TypeOK, NEW p \in Threads, Evaluate(p)
  PROVE  /\ OnlyCall(p) /\ UNCHANGED <<Elsewhere, entry, mixed, orders>>
         /\ call[p].pc = "evaluate"
         /\ \/ Ends(p)
            \/ /\ GoesTo(p, "reserve")
               /\ call'[p].intent = call[p].intent /\ call'[p].late = call[p].late
               /\ entry[call[p].token][call[p].intent] = "none"
               /\ Total(Live(call[p].token), Price) + Price[call[p].intent] <= BudgetMax
<1> DEFINE room == Total(Live(call[p].token), Price) + Price[call[p].intent] <= BudgetMax
           new == entry[call[p].token][call[p].intent] = "none"
<1>1. call[p] \in CallRecord
  BY CallTyped
<1>2. UNCHANGED <<Elsewhere, entry, mixed, orders>> /\ call[p].pc = "evaluate"
  BY DEF Evaluate, Elsewhere, pool, lists, manager, files
<1>3. CASE ~(new /\ room)
  <2>1. call' = [call EXCEPT ![p] = Returned(p)]
    BY <1>3 DEF Evaluate
  <2> QED  BY <1>2, <2>1, ReturnedStep
<1>4. CASE new /\ room
  <2> DEFINE me == [call[p] EXCEPT !.pc = "reserve"]
  <2>1. call' = [call EXCEPT ![p] = me]
    BY <1>1, <1>4, CallTyped DEF Evaluate
  <2>2. me \in CallRecord
    BY <1>1 DEF CallRecord, Stages
  <2>3. OnlyCall(p) /\ call'[p] = me
    <3> HIDE DEF me
    <3> QED  BY <2>1, <2>2, OnlyCallStep
  <2> QED  BY <1>1, <1>2, <1>4, <2>3 DEF GoesTo, CallRecord
<1> QED  BY <1>3, <1>4

(* One entry of one ledger file is written.                                *)
Writes(t, i, s) ==
  /\ entry' \in [Tokens -> EntryMap]
  /\ entry'[t][i] = s
  /\ \A j \in Intents : j # i => entry'[t][j] = entry[t][j]
  /\ \A u \in Tokens : u # t => entry'[u] = entry[u]

LEMMA WriteEffect ==
  ASSUME TypeOK, NEW t \in Tokens, NEW i \in Intents,
         NEW s \in {"none", "PENDING", "COMMITTED", "FAILED"},
         entry' = [entry EXCEPT ![t][i] = s]
  PROVE  Writes(t, i, s)
BY EntryTyped DEF Writes, EntryMap

LEMMA ReserveEffect ==
  ASSUME TypeOK, Working, NEW p \in Threads, Reserve(p)
  PROVE  LET t == call[p].token
             i == call[p].intent
         IN  /\ OnlyCall(p) /\ UNCHANGED <<Elsewhere, mixed, orders>>
             /\ call[p].pc = "reserve" /\ t \in Tokens /\ i \in Intents
             /\ \/ t \notin dir /\ call'[p] = Free /\ UNCHANGED entry
                \/ /\ t \in dir /\ Writes(t, i, "PENDING")
                   /\ GoesTo(p, "send")
                   /\ call'[p].intent = i /\ call'[p].late = call[p].late
<1>1. call[p] \in CallRecord
  BY CallTyped
<1>2. /\ UNCHANGED <<Elsewhere, mixed, orders>> /\ call[p].pc = "reserve"
      /\ call[p].token \in Tokens /\ call[p].intent \in Intents
  BY BusyToken DEF Reserve, Elsewhere, pool, lists, Working
<1>3. CASE call[p].token \notin dir
  BY <1>2, <1>3, FreeStep DEF Reserve
<1>4. CASE call[p].token \in dir
  <2> DEFINE me == [call[p] EXCEPT !.pc = "send"]
  <2>1. call' = [call EXCEPT ![p] = me]
    BY <1>1, <1>4, CallTyped DEF Reserve
  <2>2. me \in CallRecord
    BY <1>1 DEF CallRecord, Stages
  <2>3. OnlyCall(p) /\ call'[p] = me
    <3> HIDE DEF me
    <3> QED  BY <2>1, <2>2, OnlyCallStep
  <2>4. Writes(call[p].token, call[p].intent, "PENDING")
    BY <1>2, <1>4, WriteEffect DEF Reserve
  <2> QED  BY <1>1, <1>2, <1>4, <2>3, <2>4 DEF GoesTo, CallRecord
<1> QED  BY <1>3, <1>4

LEMMA SendEffect ==
  ASSUME TypeOK, Working, NEW p \in Threads, NEW placed \in BOOLEAN,
         NEW answer \in {"ok", "refused", "timeout"}, Send(p, placed, answer)
  PROVE  /\ OnlyCall(p) /\ UNCHANGED <<Elsewhere, entry, mixed>>
         /\ call[p].pc = "send"
         /\ call[p].token \in Tokens /\ call[p].intent \in Intents
         /\ \/ Ends(p)
            \/ \E pc \in {"commit", "fail"} :
                 /\ GoesTo(p, pc) /\ (pc = "fail" => ~placed)
                 /\ call'[p].intent = call[p].intent /\ call'[p].late = call[p].late
         /\ orders' = IF placed THEN orders \cup {OrderOf(call[p])} ELSE orders
<1>1. call[p] \in CallRecord
  BY CallTyped
<1>2. /\ UNCHANGED <<Elsewhere, entry, mixed>> /\ call[p].pc = "send"
      /\ call[p].token \in Tokens /\ call[p].intent \in Intents
      /\ orders' = IF placed THEN orders \cup {OrderOf(call[p])} ELSE orders
  BY BusyToken DEF Send, Elsewhere, pool, lists, manager, files, Working, OrderOf
<1>3. CASE answer = "timeout"
  <2>1. call' = [call EXCEPT ![p] = Returned(p)]
    BY <1>3 DEF Send
  <2> QED  BY <1>2, <2>1, ReturnedStep
<1>4. ASSUME NEW pc \in {"commit", "fail"}, pc = "fail" => ~placed,
             call' = [call EXCEPT ![p] = [call[p] EXCEPT !.pc = pc]]
      PROVE  /\ OnlyCall(p) /\ GoesTo(p, pc)
             /\ call'[p].intent = call[p].intent /\ call'[p].late = call[p].late
  <2> DEFINE me == [call[p] EXCEPT !.pc = pc]
  <2>2. me \in CallRecord
    BY <1>1 DEF CallRecord, Stages
  <2>3. OnlyCall(p) /\ call'[p] = me
    <3> HIDE DEF me
    <3>1. call' = [call EXCEPT ![p] = me]
      BY <1>4 DEF me
    <3> QED  BY <2>2, <3>1, OnlyCallStep
  <2> QED  BY <1>1, <2>3 DEF GoesTo, CallRecord
<1>5. CASE answer = "ok"
  <2>1. call' = [call EXCEPT ![p] = [call[p] EXCEPT !.pc = "commit"]]
    BY <1>1, <1>5, CallTyped DEF Send
  <2> QED  BY <1>2, <1>4, <2>1
<1>6. CASE answer = "refused"
  <2>1. call' = [call EXCEPT ![p] = [call[p] EXCEPT !.pc = "fail"]] /\ ~placed
    BY <1>1, <1>6, CallTyped DEF Send
  <2> QED  BY <1>2, <1>4, <2>1
<1> QED  BY <1>3, <1>5, <1>6

LEMMA SettleEffect ==
  ASSUME TypeOK, Working, NEW p \in Threads, Settle(p)
  PROVE  LET t == call[p].token
             i == call[p].intent
         IN  /\ OnlyCall(p) /\ UNCHANGED <<Elsewhere, mixed, orders>>
             /\ call[p].pc \in {"commit", "fail"} /\ t \in Tokens /\ i \in Intents
             /\ Ends(p)
             /\ \/ entry[t][i] = "none" /\ UNCHANGED entry
                \/ /\ entry[t][i] # "none"
                   /\ Writes(t, i, IF call[p].pc = "commit" THEN "COMMITTED" ELSE "FAILED")
<1>2. /\ UNCHANGED <<Elsewhere, mixed, orders>> /\ call[p].pc \in {"commit", "fail"}
      /\ call[p].token \in Tokens /\ call[p].intent \in Intents
  BY BusyToken DEF Settle, Elsewhere, pool, lists, Working
<1>3. CASE entry[call[p].token][call[p].intent] = "none"
  BY <1>2, <1>3, FreeStep DEF Settle, Ends
<1>4. CASE entry[call[p].token][call[p].intent] # "none"
  <2>1. call' = [call EXCEPT ![p] = Returned(p)]
    BY <1>4 DEF Settle
  <2>2. Writes(call[p].token, call[p].intent,
               IF call[p].pc = "commit" THEN "COMMITTED" ELSE "FAILED")
    BY <1>2, <1>4, WriteEffect DEF Settle
  <2> QED  BY <1>2, <1>4, <2>1, <2>2, ReturnedStep
<1> QED  BY <1>3, <1>4

LEMMA AbortEffect ==
  ASSUME TypeOK, NEW w \in Workers, Abort(w)
  PROVE  /\ OnlyCall(w) /\ UNCHANGED <<Elsewhere, entry, mixed, orders>>
         /\ GoesTo(w, call[w].pc)
         /\ call'[w].intent = call[w].intent /\ call'[w].late = call[w].late
<1> DEFINE me == [call[w] EXCEPT !.watcher = None]
<1>1. call[w] \in CallRecord /\ w \in Threads
  BY CallTyped DEF Threads
<1>2. me \in CallRecord
  BY <1>1 DEF CallRecord
<1>3. call' = [call EXCEPT ![w] = me]
  BY <1>1, CallTyped DEF Abort
<1>4. /\ me.pc = call[w].pc /\ me.token = call[w].token
      /\ me.number = call[w].number /\ me.intent = call[w].intent
      /\ me.late = call[w].late
  BY <1>1 DEF CallRecord
<1> HIDE DEF me
<1>5. OnlyCall(w) /\ call'[w] = me
  BY <1>1, <1>2, <1>3, OnlyCallStep
<1> QED  BY <1>4, <1>5 DEF GoesTo, Abort, Elsewhere, pool, lists, manager, files

LEMMA EndRunEffect ==
  ASSUME TypeOK, NEW w \in Workers, EndRun(w)
  PROVE  /\ OnlyCall(w) /\ UNCHANGED <<Elsewhere, entry, mixed, orders>>
         /\ call'[w] = Free
<1>1. w \in Threads
  BY DEF Threads
<1> QED  BY <1>1, FreeStep DEF EndRun, Elsewhere, pool, lists, manager, files

(* A proposal begins for token t, through the gateway of session n.        *)
Begins(p, t, n) ==
  /\ OnlyCall(p)
  /\ call'[p].pc = "ready" /\ call'[p].token = t /\ call'[p].number = n
  /\ ~call'[p].late

LEMMA BeginsStep ==
  ASSUME TypeOK, NEW p \in Threads, NEW t \in Tokens, NEW n \in 0 .. MaxSessions,
         NEW run \in BOOLEAN, NEW v \in Visitors \cup {None},
         call' = [call EXCEPT ![p] = Ready(t, n, run, v)]
  PROVE  Begins(p, t, n)
<1>1. Ready(t, n, run, v) \in CallRecord
  BY DEF Ready, CallRecord, Stages
<1>2. OnlyCall(p) /\ call'[p] = Ready(t, n, run, v)
  BY <1>1, OnlyCallStep
<1> QED  BY <1>2 DEF Begins, Ready

LEMMA ToolOrderEffect ==
  ASSUME TypeOK, Numbered, NEW v \in Visitors, NEW w \in Workers, ToolOrder(v, w)
  PROVE  /\ w \in Threads /\ call[w].pc = "idle"
         /\ UNCHANGED <<Elsewhere, entry, mixed, orders>>
         /\ \E t \in Tokens, n \in 1 .. MaxSessions : Begins(w, t, n) /\ n = session[t]
<1> DEFINE t == holder[v].token
<1>1. t \in Tokens /\ w \in Threads
  BY HolderTyped DEF ToolOrder, Threads
<1>2. session[t] \in 1 .. MaxSessions /\ session[t] \in 0 .. MaxSessions
  BY <1>1, SessionsAssumption DEF TypeOK, ToolOrder
<1>3. call' = [call EXCEPT ![w] = Ready(t, session[t], FALSE, None)]
  BY DEF ToolOrder
<1>4. Begins(w, t, session[t])
  BY <1>1, <1>2, <1>3, BeginsStep
<1> QED  BY <1>1, <1>2, <1>4 DEF ToolOrder, Elsewhere, pool, lists, manager, files

LEMMA TakeOrderEffect ==
  ASSUME TypeOK, Numbered, NEW r \in waiting, TakeOrder(r)
  PROVE  /\ Loop \in Threads /\ call[Loop].pc = "idle"
         /\ waiting' \subseteq waiting
         /\ UNCHANGED <<pool, lists, holder, manager, orders, restarts>>
         /\ \E t \in Tokens, n \in 1 .. MaxSessions :
              Begins(Loop, t, n) /\ t = r.token /\ n = r.number
<1>1. Loop \in Threads
  BY DEF Threads
<1>2. /\ r.token \in Tokens /\ r.number \in 0 .. MaxSessions
      /\ r.number \in 1 .. MaxSessions
  BY SessionsAssumption DEF TypeOK, TakeOrder, Numbered
<1>3. call' = [call EXCEPT ![Loop] = Ready(r.token, r.number, FALSE, None)]
  BY DEF TakeOrder
<1>4. Begins(Loop, r.token, r.number)
  BY <1>1, <1>2, <1>3, BeginsStep
<1> QED  BY <1>1, <1>2, <1>4 DEF TakeOrder, LoopFree

LEMMA StartRunEffect ==
  ASSUME TypeOK, NEW r \in waiting, NEW w \in Workers, NEW idle \in SUBSET Tokens,
         StartRun(r, w, idle)
  PROVE  /\ w \in Threads /\ r.token \in Tokens
         /\ waiting' \subseteq waiting
         /\ UNCHANGED <<pool, lists, holder, orders, restarts>>
         /\ Managed(idle \cup {r.token})
         /\ \/ UNCHANGED call
            \/ /\ call[w].pc = "idle"
               /\ \E n \in 1 .. MaxSessions :
                    Begins(w, r.token, n) /\ n = created'[r.token]
<1>1. w \in Threads /\ r.token \in Tokens /\ r.visitor \in Visitors
  BY DEF Threads, TypeOK
<1>2. /\ Managed(idle \cup {r.token})
      /\ created[r.token] + 1 \in 0 .. MaxSessions
      /\ created'[r.token] = created[r.token] + 1
  BY <1>1, CreateEffect DEF StartRun
<1>3. created[r.token] + 1 \in 1 .. MaxSessions
  BY <1>1, <1>2, SessionsAssumption DEF TypeOK
<1>4. CASE ~(UNCHANGED call)
  <2>1. call' = [call EXCEPT ![w] = Ready(r.token, created[r.token] + 1, TRUE, r.visitor)]
    BY <1>4 DEF StartRun
  <2>2. Begins(w, r.token, created[r.token] + 1)
    BY <1>1, <1>2, <2>1, BeginsStep
  <2> QED  BY <1>1, <1>2, <1>3, <1>4, <2>2 DEF StartRun
<1> QED  BY <1>1, <1>2, <1>4 DEF StartRun

(* Handlers and commands: some sessions end, some begin, and a thread that *)
(* was idle may begin to propose.                                          *)
CallsBegin ==
  /\ call' \in [Threads -> CallRecord]
  /\ \A q \in Threads :
       \/ call'[q] = call[q]
       \/ /\ call[q].pc = "idle" /\ call'[q].pc = "ready"
          /\ call'[q].token \in Tokens /\ call'[q].number # 0
          /\ ~call'[q].late

ManagerStep ==
  /\ \E T \in SUBSET Tokens : Managed(T)
  /\ CallsBegin
  /\ UNCHANGED <<orders, restarts>>

LEMMA QuietManaged == ASSUME TypeOK, UNCHANGED manager PROVE Managed({})
<1>1. /\ created \in [Tokens -> 0 .. MaxSessions]
      /\ session \in [Tokens -> 0 .. MaxSessions]
      /\ dir \in SUBSET Tokens /\ MaxSessions \in Nat
      /\ entry \in [Tokens -> EntryMap]
  BY SessionsAssumption, EntryTyped DEF TypeOK
<1>2. \A u \in Tokens : created[u] <= created[u]
  BY <1>1
<1> QED  BY <1>1, <1>2 DEF Managed, manager, files

LEMMA QuietCalls == ASSUME TypeOK, UNCHANGED call PROVE CallsBegin
BY CallTyped DEF CallsBegin

LEMMA BeginsCalls ==
  ASSUME TypeOK, NEW w \in Threads, call[w].pc = "idle",
         NEW t \in Tokens, NEW n \in 1 .. MaxSessions, Begins(w, t, n)
  PROVE  CallsBegin
<1>1. n # 0
  BY SessionsAssumption
<1> QED  BY <1>1 DEF Begins, OnlyCall, CallsBegin

LEMMA HandlerStep == ASSUME TypeOK, Numbered, Handler PROVE ManagerStep
<1>1. ASSUME NEW v \in Visitors, NEW t \in Tokens, NEW idle \in SUBSET Tokens,
             OpenSession(v, t, idle)
      PROVE  ManagerStep
  BY <1>1, CreateEffect, QuietCalls DEF OpenSession, ManagerStep
<1>2. ASSUME NEW v \in Visitors, NEW idle \in SUBSET Tokens, Reopen(v, idle)
      PROVE  ManagerStep
  <2>1. holder[v].token \in Tokens
    BY <1>2, HolderTyped DEF Reopen
  <2> QED  BY <1>2, <2>1, CreateEffect, QuietCalls DEF Reopen, ManagerStep
<1>3. ASSUME NEW v \in Visitors, NEW w \in Workers, ToolOrder(v, w)
      PROVE  ManagerStep
  <2>1. /\ w \in Threads /\ call[w].pc = "idle"
        /\ UNCHANGED <<Elsewhere, entry, mixed, orders>>
        /\ \E t \in Tokens, n \in 1 .. MaxSessions : Begins(w, t, n)
    BY <1>3, ToolOrderEffect
  <2>2. CallsBegin
    BY <2>1, BeginsCalls
  <2>3. UNCHANGED <<manager, orders, restarts>>
    BY <2>1 DEF Elsewhere, manager, files
  <2> QED  BY <2>2, <2>3, QuietManaged DEF ManagerStep
<1>4. ASSUME NEW v \in Visitors, AskOrder(v) \/ AskRun(v)
      PROVE  ManagerStep
  <2>1. UNCHANGED <<manager, call, orders, restarts>>
    BY <1>4 DEF AskOrder, AskRun, Await
  <2> QED  BY <2>1, QuietManaged, QuietCalls DEF ManagerStep
<1>5. ASSUME NEW v \in Visitors, RevokeToken(v)
      PROVE  ManagerStep
  <2>1. /\ holder[v].token \in Tokens /\ Evict(holder[v].token)
        /\ UNCHANGED <<created, call, orders, restarts>>
    BY <1>5, HolderTyped DEF RevokeToken
  <2>2. \E T \in SUBSET Tokens : Managed(T)
    BY <2>1, EvictEffect
  <2> QED  BY <2>1, <2>2, QuietCalls DEF ManagerStep
<1>6. ASSUME NEW idle \in SUBSET Tokens, OpenSandbox(idle)
      PROVE  ManagerStep
  <2>1. UNCHANGED <<call, orders, restarts>>
    BY <1>6 DEF OpenSandbox
  <2> QED  BY <1>6, <2>1, SandboxEffect, QuietCalls DEF ManagerStep
<1>7. ASSUME NEW r \in waiting, TakeOrder(r)
      PROVE  ManagerStep
  <2>1. /\ Loop \in Threads /\ call[Loop].pc = "idle"
        /\ UNCHANGED <<pool, lists, holder, manager, orders, restarts>>
        /\ \E t \in Tokens, n \in 1 .. MaxSessions : Begins(Loop, t, n)
    BY <1>7, TakeOrderEffect
  <2>2. CallsBegin
    BY <2>1, BeginsCalls
  <2> QED  BY <2>1, <2>2, QuietManaged DEF ManagerStep
<1>8. ASSUME NEW r \in waiting, NEW w \in Workers, NEW idle \in SUBSET Tokens,
             StartRun(r, w, idle)
      PROVE  ManagerStep
  <2>1. /\ w \in Threads /\ r.token \in Tokens
        /\ UNCHANGED <<pool, lists, holder, orders, restarts>>
        /\ Managed(idle \cup {r.token})
        /\ \/ UNCHANGED call
           \/ /\ call[w].pc = "idle"
              /\ \E n \in 1 .. MaxSessions : Begins(w, r.token, n)
    BY <1>8, StartRunEffect
  <2>2. CallsBegin
    BY <2>1, BeginsCalls, QuietCalls
  <2>3. idle \cup {r.token} \in SUBSET Tokens
    BY <2>1
  <2> QED  BY <2>1, <2>2, <2>3 DEF ManagerStep
<1>9. ASSUME NEW r \in waiting, Drop(r)
      PROVE  ManagerStep
  BY <1>9, QuietManaged, QuietCalls DEF Drop, ManagerStep
<1> QED  BY <1>1, <1>2, <1>3, <1>4, <1>5, <1>6, <1>7, <1>8, <1>9 DEF Handler

LEMMA CommandStep ==
  ASSUME TypeOK, NEW t \in Tokens, NEW newer \in BOOLEAN, CommandRevoke(t, newer)
  PROVE  ManagerStep
BY QuietManaged, QuietCalls DEF CommandRevoke, ManagerStep

(* The pool, the lists, the visitors and the handlers that wait keep their *)
(* types in a step of a handler or a command.                              *)
ListsTyped ==
  /\ available \subseteq Tokens /\ claimed \subseteq Tokens /\ retired \subseteq Tokens
  /\ revoked \subseteq Tokens /\ known \subseteq revoked /\ killed \subseteq known

HandlerType == [kind : {"order", "run"}, visitor : Visitors, token : Tokens,
                number : 0 .. MaxSessions]

LEMMA ListsHandler ==
  ASSUME TypeOK, Numbered, Handler
  PROVE  ListsTyped' /\ holder' \in HolderMap
<1>0. /\ ListsTyped /\ holder \in HolderMap
      /\ restarts \in 0 .. MaxRestarts
  BY DEF TypeOK, ListsTyped, HolderMap
<1>1. ASSUME NEW v \in Visitors, NEW t \in Tokens, NEW idle \in SUBSET Tokens,
             OpenSession(v, t, idle)
      PROVE  ListsTyped' /\ holder' \in HolderMap
  <2>1. [token |-> t, life |-> restarts]
          \in [token : Tokens \cup {None}, life : 0 .. MaxRestarts]
    BY <1>0
  <2>2. holder' \in HolderMap
    BY <1>0, <1>1, <2>1 DEF OpenSession, HolderMap
  <2> QED  BY <1>0, <1>1, <2>2 DEF OpenSession, ClaimToken, ListsTyped, lists
<1>2. ASSUME NEW v \in Visitors, RevokeToken(v)
      PROVE  ListsTyped' /\ holder' \in HolderMap
  <2>1. holder[v].token \in Tokens
    BY <1>2, HolderTyped DEF RevokeToken
  <2> QED  BY <1>0, <1>2, <2>1 DEF RevokeToken, ListsTyped
<1>3. ASSUME UNCHANGED <<pool, lists, holder>>
      PROVE  ListsTyped' /\ holder' \in HolderMap
  BY <1>0, <1>3 DEF pool, lists, ListsTyped
<1> QED  BY <1>1, <1>2, <1>3 DEF Handler, Reopen, ToolOrder, AskOrder, AskRun, Await,
                                 OpenSandbox, TakeOrder, StartRun, Drop

LEMMA WaitingHandler ==
  ASSUME TypeOK, Numbered, Handler
  PROVE  /\ waiting' \subseteq HandlerType
         /\ \A r \in waiting' : r.kind = "order" => r.number # 0
<1>0. /\ waiting \subseteq HandlerType
      /\ \A r \in waiting : r.kind = "order" => r.number # 0
      /\ session \in [Tokens -> 0 .. MaxSessions] /\ MaxSessions \in Nat
  BY SessionsAssumption DEF TypeOK, HandlerType, Numbered
<1>1. ASSUME NEW v \in Visitors, NEW kind \in {"order", "run"},
             NEW n \in 0 .. MaxSessions, kind = "order" => n # 0, Await(v, kind, n)
      PROVE  /\ waiting' \subseteq HandlerType
             /\ \A r \in waiting' : r.kind = "order" => r.number # 0
  <2> DEFINE r == [kind |-> kind, visitor |-> v, token |-> holder[v].token, number |-> n]
  <2>1. holder[v].token \in Tokens
    BY <1>1, HolderTyped DEF Await
  <2>2. r \in HandlerType /\ (r.kind = "order" => r.number # 0)
    BY <1>1, <2>1 DEF HandlerType
  <2>3. waiting' = waiting \cup {r}
    BY <1>1 DEF Await
  <2> HIDE DEF r
  <2> QED  BY <1>0, <2>2, <2>3
<1>2. ASSUME NEW v \in Visitors, AskOrder(v)
      PROVE  /\ waiting' \subseteq HandlerType
             /\ \A r \in waiting' : r.kind = "order" => r.number # 0
  <2>1. holder[v].token \in Tokens
    BY <1>2, HolderTyped DEF AskOrder
  <2>2. session[holder[v].token] \in 0 .. MaxSessions /\ session[holder[v].token] # 0
    BY <1>0, <1>2, <2>1 DEF AskOrder
  <2> QED  BY <1>1, <1>2, <2>2 DEF AskOrder
<1>3. ASSUME NEW v \in Visitors, AskRun(v)
      PROVE  /\ waiting' \subseteq HandlerType
             /\ \A r \in waiting' : r.kind = "order" => r.number # 0
  <2>1. 0 \in 0 .. MaxSessions
    BY <1>0
  <2> QED  BY <1>1, <1>3, <2>1 DEF AskRun
<1>4. ASSUME waiting' \subseteq waiting
      PROVE  /\ waiting' \subseteq HandlerType
             /\ \A r \in waiting' : r.kind = "order" => r.number # 0
  BY <1>0, <1>4
<1> QED  BY <1>2, <1>3, <1>4 DEF Handler, OpenSession, Reopen, ToolOrder, RevokeToken,
                                 OpenSandbox, TakeOrder, StartRun, Drop

LEMMA WorksOn ==
  ASSUME TypeOK, Working, Numbered, NEW p \in Threads, OnlyCall(p),
         \/ Ends(p) /\ call[p].pc # "idle"
         \/ GoesTo(p, call[p].pc) /\ call'[p].intent = call[p].intent
         \/ \E pc \in Stages \ {"idle"} :
              /\ GoesTo(p, pc) /\ call[p].pc # "idle"
              /\ call'[p].intent \in Intents,
         UNCHANGED waiting
  PROVE  Working' /\ Numbered'
<1>1. CASE Ends(p) /\ call[p].pc # "idle"
  BY <1>1, FreeIsIdle, BusyToken DEF Ends, GoesTo, OnlyCall, Working, Numbered
<1>2. CASE GoesTo(p, call[p].pc) /\ call'[p].intent = call[p].intent
  BY <1>2 DEF GoesTo, OnlyCall, Working, Numbered
<1>3. ASSUME NEW pc \in Stages \ {"idle"},
             GoesTo(p, pc), call[p].pc # "idle", call'[p].intent \in Intents
      PROVE  Working' /\ Numbered'
  BY <1>3, BusyToken DEF GoesTo, OnlyCall, Working, Numbered
<1> QED  BY <1>1, <1>2, <1>3

LEMMA CallsWork ==
  ASSUME TypeOK, Working, Numbered, CallsBegin
  PROVE  /\ Working'
         /\ \A p \in Threads : call'[p].pc # "idle" => call'[p].number # 0
<1>1. None \notin Tokens
  BY SessionsAssumption
<1>2. ASSUME NEW p \in Threads
      PROVE  /\ call'[p].pc = "idle" <=> call'[p].token = None
             /\ call'[p].pc \notin {"idle", "ready"} => call'[p].intent \in Intents
             /\ call'[p].pc # "idle" => call'[p].number # 0
  BY <1>1 DEF CallsBegin, Working, Numbered
<1> QED  BY <1>2 DEF Working

LEMMA TypeNext ==
  ASSUME TypeOK, Working, Numbered, [Next]_vars
  PROVE  TypeOK' /\ Working' /\ Numbered'
<1>a. ASSUME UNCHANGED Elsewhere, call' \in [Threads -> CallRecord],
             entry' \in [Tokens -> EntryMap], mixed' \subseteq Tokens,
             orders' \subseteq OrderType
      PROVE  TypeOK'
  BY <1>a DEF TypeOK, Elsewhere, pool, lists, CallRecord, Stages, EntryMap, OrderType
<1>b. /\ entry \in [Tokens -> EntryMap] /\ orders \subseteq OrderType
      /\ call \in [Threads -> CallRecord] /\ mixed \subseteq Tokens
      /\ MaxSessions \in Nat /\ MaxRestarts \in Nat
  BY EntryTyped, CallTyped, SessionsAssumption DEF TypeOK, OrderType
<1>c. ASSUME NEW p \in Threads, OnlyCall(p), UNCHANGED <<Elsewhere, entry, mixed, orders>>
      PROVE  TypeOK'
  BY <1>a, <1>b, <1>c DEF OnlyCall
<1>d. ASSUME UNCHANGED Elsewhere PROVE UNCHANGED waiting
  BY <1>d DEF Elsewhere
<1>1. ASSUME NEW p \in Threads, Propose(p)
      PROVE  TypeOK' /\ Working' /\ Numbered'
  <2>1. ASSUME NEW i \in Intents, Verify(p, i)
        PROVE  TypeOK' /\ Working' /\ Numbered'
    <3>1. /\ OnlyCall(p) /\ UNCHANGED <<Elsewhere, entry, orders>> /\ UNCHANGED waiting
          /\ call[p].pc = "ready"
          /\ \/ Ends(p) /\ UNCHANGED mixed
             \/ /\ GoesTo(p, "evaluate") /\ call'[p].intent = i
                /\ mixed' = IF Meets(p) THEN mixed \cup {call[p].token} ELSE mixed
      BY <1>d, <2>1, VerifyEffect
    <3>2. mixed' \subseteq Tokens
      BY <1>b, <3>1, BusyToken
    <3>3. TypeOK'
      BY <1>a, <1>b, <3>1, <3>2 DEF OnlyCall
    <3> QED  BY <3>1, <3>3, WorksOn DEF Stages
  <2>2. CASE Evaluate(p)
    <3>1. call[p].intent \in Intents
      BY <2>2 DEF Evaluate, Working
    <3> QED  BY <1>c, <1>d, <2>2, <3>1, EvaluateEffect, WorksOn DEF Stages
  <2>3. CASE Reserve(p)
    <3>1. TypeOK'
      BY <1>a, <1>b, <2>3, ReserveEffect DEF OnlyCall, Writes
    <3> QED  BY <1>d, <2>3, <3>1, ReserveEffect, WorksOn DEF Stages, Ends
  <2>4. ASSUME NEW placed \in BOOLEAN, NEW answer \in {"ok", "refused", "timeout"},
               Send(p, placed, answer)
        PROVE  TypeOK' /\ Working' /\ Numbered'
    <3>1. call[p].token \in Tokens /\ call[p].intent \in Intents /\ call[p].pc = "send"
      BY <2>4, SendEffect
    <3>2. call[p].number \in 1 .. MaxSessions /\ call[p].late \in BOOLEAN
      BY <1>b, <3>1 DEF Numbered, CallRecord
    <3>3. OrderOf(call[p]) \in OrderType
      BY <3>1, <3>2 DEF OrderOf, OrderType
    <3>4. orders' \subseteq OrderType
      BY <1>b, <2>4, <3>3, SendEffect
    <3>5. TypeOK'
      BY <1>a, <1>b, <2>4, <3>4, SendEffect DEF OnlyCall
    <3> QED  BY <1>d, <2>4, <3>1, <3>5, SendEffect, WorksOn DEF Stages
  <2>5. CASE Settle(p)
    <3>1. TypeOK'
      BY <1>a, <1>b, <2>5, SettleEffect DEF OnlyCall, Writes
    <3> QED  BY <1>d, <2>5, <3>1, SettleEffect, WorksOn
  <2> QED  BY <1>1, <2>1, <2>2, <2>3, <2>4, <2>5 DEF Propose
<1>2. ASSUME NEW w \in Workers, Abort(w) \/ EndRun(w)
      PROVE  TypeOK' /\ Working' /\ Numbered'
  <2>0. w \in Threads
    BY DEF Threads
  <2>1. CASE Abort(w)
    BY <1>c, <1>d, <2>0, <2>1, AbortEffect, WorksOn
  <2>2. CASE EndRun(w)
    BY <1>c, <1>d, <2>0, <2>2, EndRunEffect, WorksOn DEF Ends, EndRun
  <2> QED  BY <1>2, <2>1, <2>2
<1>3. ASSUME ManagerStep, ListsTyped', holder' \in HolderMap, waiting' \subseteq HandlerType,
             \A r \in waiting' : r.kind = "order" => r.number # 0
      PROVE  TypeOK' /\ Working' /\ Numbered'
  <2>1. /\ call' \in [Threads -> CallRecord]
        /\ UNCHANGED <<orders, restarts>>
    BY <1>3 DEF ManagerStep, CallsBegin
  <2>2. PICK T \in SUBSET Tokens : Managed(T)
    BY <1>3 DEF ManagerStep
  <2>3. /\ session' \in [Tokens -> 0 .. MaxSessions]
        /\ created' \in [Tokens -> 0 .. MaxSessions]
        /\ dir' \in SUBSET Tokens /\ entry' \in [Tokens -> EntryMap]
        /\ mixed' \subseteq Tokens
    BY <1>b, <2>2 DEF Managed
  <2>4. TypeOK'
    BY <1>3, <2>1, <2>3 DEF TypeOK, ListsTyped, HolderMap, HandlerType, CallRecord, Stages,
                            EntryMap
  <2> QED  BY <1>3, <2>4, CallsWork DEF ManagerStep, Numbered
<1>4. CASE Handler
  BY <1>3, <1>4, HandlerStep, ListsHandler, WaitingHandler
<1>5. ASSUME NEW t \in Tokens, NEW newer \in BOOLEAN, CommandRevoke(t, newer)
      PROVE  TypeOK' /\ Working' /\ Numbered'
  <2>1. ListsTyped'
    BY <1>5 DEF CommandRevoke, TypeOK, ListsTyped, pool
  <2>2. holder' \in HolderMap /\ waiting' \subseteq HandlerType
    BY <1>5 DEF CommandRevoke, TypeOK, HolderMap, HandlerType
  <2>3. \A r \in waiting' : r.kind = "order" => r.number # 0
    BY <1>5 DEF CommandRevoke, Numbered
  <2> QED  BY <1>3, <1>5, <2>1, <2>2, <2>3, CommandStep
<1>6. CASE Restart
  <2>1. call' \in [Threads -> CallRecord]
    BY <1>6, FreeTyped DEF Restart
  <2>2. session' \in [Tokens -> 0 .. MaxSessions] /\ restarts' \in 0 .. MaxRestarts
    BY <1>b, <1>6 DEF Restart, TypeOK
  <2>3. killed' \subseteq known' /\ known' \subseteq revoked' /\ revoked' \subseteq Tokens
    BY <1>6 DEF Restart, TypeOK
  <2>4. TypeOK'
    BY <1>6, <2>1, <2>2, <2>3 DEF Restart, TypeOK, CallRecord, Stages, EntryMap, files
  <2> QED  BY <1>6, <2>4 DEF Restart, Working, Numbered, Free
<1>7. CASE UNCHANGED vars
  BY <1>7 DEF vars, pool, lists, manager, files, TypeOK, Working, Numbered
<1> QED  BY <1>1, <1>2, <1>4, <1>5, <1>6, <1>7 DEF Next

(* The service's state keeps its type, with any tokens, visitors, threads, *)
(* handlers that wait, sessions and restarts; a call past its check works  *)
(* on a token, and what the service has revoked stays known to it.         *)
THEOREM SessionTypes == Spec => [](TypeOK /\ Working /\ Numbered)
<1>1. Init => TypeOK /\ Working /\ Numbered
  BY TypeInit
<1>2. TypeOK /\ Working /\ Numbered /\ [Next]_vars => (TypeOK /\ Working /\ Numbered)'
  BY TypeNext
<1> QED  BY <1>1, <1>2, PTL DEF Spec

-----------------------------------------------------------------------------
(* The kill switch.  A call looks at the service's copy of the list under  *)
(* the lock; the copy holds every token the service has revoked, whatever  *)
(* has been read from the file since.                                      *)
CallsInTime == \A p \in Threads : ~call[p].late

LEMMA InTimeStep ==
  ASSUME CallsInTime, NEW p \in Threads, OnlyCall(p),
         \/ ~call'[p].late
         \/ call'[p].late = call[p].late
         \/ Ends(p)
  PROVE  CallsInTime'
BY DEF CallsInTime, OnlyCall, Ends, Free

LEMMA KillSwitchNext ==
  ASSUME TypeOK, Working, Numbered, CallsInTime, KillSwitch, [Next]_vars
  PROVE  (CallsInTime /\ KillSwitch)'
<1>1. ASSUME NEW p \in Threads, Propose(p)
      PROVE  (CallsInTime /\ KillSwitch)'
  <2>1. ASSUME NEW i \in Intents, Verify(p, i)
        PROVE  (CallsInTime /\ KillSwitch)'
    BY <2>1, VerifyEffect, InTimeStep DEF KillSwitch
  <2>2. CASE Evaluate(p)
    BY <2>2, EvaluateEffect, InTimeStep DEF KillSwitch
  <2>3. CASE Reserve(p)
    BY <2>3, ReserveEffect, InTimeStep DEF KillSwitch, Ends
  <2>4. ASSUME NEW placed \in BOOLEAN, NEW answer \in {"ok", "refused", "timeout"},
               Send(p, placed, answer)
        PROVE  (CallsInTime /\ KillSwitch)'
    <3>1. ~OrderOf(call[p]).late
      BY DEF OrderOf, CallsInTime
    <3>2. KillSwitch'
      BY <2>4, <3>1, SendEffect DEF KillSwitch
    <3> QED  BY <2>4, <3>2, SendEffect, InTimeStep
  <2>5. CASE Settle(p)
    BY <2>5, SettleEffect, InTimeStep DEF KillSwitch
  <2> QED  BY <1>1, <2>1, <2>2, <2>3, <2>4, <2>5 DEF Propose
<1>2. ASSUME NEW w \in Workers, Abort(w) \/ EndRun(w)
      PROVE  (CallsInTime /\ KillSwitch)'
  <2>0. w \in Threads
    BY DEF Threads
  <2>1. CASE Abort(w)
    BY <2>0, <2>1, AbortEffect, InTimeStep DEF KillSwitch
  <2>2. CASE EndRun(w)
    BY <2>0, <2>2, EndRunEffect, InTimeStep DEF KillSwitch, Ends
  <2> QED  BY <1>2, <2>1, <2>2
<1>3. ASSUME ManagerStep PROVE (CallsInTime /\ KillSwitch)'
  BY <1>3 DEF ManagerStep, CallsBegin, CallsInTime, KillSwitch
<1>4. CASE Restart
  BY <1>4 DEF Restart, CallsInTime, KillSwitch, Free
<1>5. CASE UNCHANGED vars
  BY <1>5 DEF vars, CallsInTime, KillSwitch
<1> QED  BY <1>1, <1>2, <1>3, <1>4, <1>5, HandlerStep, CommandStep DEF Next

(* No order is placed by a call that took the gateway's lock after the     *)
(* service revoked its token, however the handlers that wait, the sessions *)
(* that come and go, the runs abandoned by their visitor, the restarts and *)
(* the entries of another process interleave with the revocation.          *)
THEOREM RevokedNeverSpends == Spec => []KillSwitch
<1>1. Init => CallsInTime /\ KillSwitch
  BY DEF Init, CallsInTime, KillSwitch, Free
<1>2. TypeOK /\ Working /\ Numbered /\ CallsInTime /\ KillSwitch /\ [Next]_vars
        => (CallsInTime /\ KillSwitch)'
  BY KillSwitchNext
<1> QED  BY <1>1, <1>2, SessionTypes, PTL DEF Spec

-----------------------------------------------------------------------------
(* The pool.  A token that was handed out in this life of the service has  *)
(* left it, and what the service has revoked is claimed by nobody.         *)
PoolInv ==
  /\ \A v \in Visitors : holder[v].token # None =>
       /\ holder[v].life <= restarts
       /\ holder[v].life = restarts => holder[v].token \notin available
  /\ HandedOutOnce

LEMMA PoolSame ==
  ASSUME PoolInv, UNCHANGED <<pool, killed, holder, restarts>>
  PROVE  PoolInv'
BY DEF PoolInv, HandedOutOnce, pool

LEMMA PoolNext ==
  ASSUME TypeOK, Working, Numbered, PoolInv, [Next]_vars
  PROVE  PoolInv'
<1>0. /\ None \notin Tokens /\ restarts \in Nat
      /\ \A v \in Visitors : holder[v].life \in Nat
      /\ killed \subseteq known
  BY SessionsAssumption DEF TypeOK
<1>1. ASSUME NEW p \in Threads, Propose(p)
      PROVE  PoolInv'
  <2>1. UNCHANGED <<pool, killed, holder, restarts>>
    BY <1>1 DEF Propose, Verify, Evaluate, Reserve, Send, Settle, lists
  <2> QED  BY <2>1, PoolSame
<1>2. ASSUME NEW w \in Workers, Abort(w) \/ EndRun(w)
      PROVE  PoolInv'
  BY <1>2, PoolSame DEF Abort, EndRun, lists
<1>3. ASSUME NEW v \in Visitors, NEW t \in Tokens, NEW idle \in SUBSET Tokens,
             OpenSession(v, t, idle)
      PROVE  PoolInv'
  <2>1. /\ holder' = [holder EXCEPT ![v] = [token |-> t, life |-> restarts]]
        /\ t \in available /\ t \notin known /\ available' = available \ {t}
        /\ claimed' = claimed \cup {t} /\ UNCHANGED <<killed, restarts>>
    BY <1>3 DEF OpenSession, ClaimToken, lists
  <2>2. /\ holder'[v].token = t /\ holder'[v].life = restarts
        /\ \A w \in Visitors : w # v => holder'[w] = holder[w]
    BY <2>1 DEF TypeOK
  <2>3. \A w \in Visitors : holder[w].token = t => holder[w].life # restarts
    BY <1>0, <2>1 DEF PoolInv
  <2>4. \A w, x \in Visitors :
          w # x /\ holder'[w].token # None /\ holder'[w].token = holder'[x].token
            => holder'[w].life # holder'[x].life
    BY <2>2, <2>3 DEF PoolInv, HandedOutOnce
  <2>5. killed' \cap claimed' = {}
    BY <1>0, <2>1 DEF PoolInv, HandedOutOnce
  <2>6. \A w \in Visitors : holder'[w].token # None =>
          /\ holder'[w].life <= restarts'
          /\ holder'[w].life = restarts' => holder'[w].token \notin available'
    BY <1>0, <2>1, <2>2 DEF PoolInv
  <2> QED  BY <2>4, <2>5, <2>6 DEF PoolInv, HandedOutOnce
<1>4. ASSUME NEW v \in Visitors, RevokeToken(v)
      PROVE  PoolInv'
  BY <1>4 DEF RevokeToken, PoolInv, HandedOutOnce
<1>5. ASSUME NEW t \in Tokens, NEW newer \in BOOLEAN, CommandRevoke(t, newer)
      PROVE  PoolInv'
  BY <1>5, PoolSame DEF CommandRevoke
<1>6. CASE Restart
  BY <1>0, <1>6 DEF Restart, PoolInv, HandedOutOnce
<1>7. CASE UNCHANGED vars
  BY <1>7, PoolSame DEF vars, lists
<1>8. ASSUME UNCHANGED <<pool, lists, holder, restarts>>
      PROVE  PoolInv'
  BY <1>8, PoolSame DEF lists
<1> QED  BY <1>1, <1>2, <1>3, <1>4, <1>5, <1>6, <1>7, <1>8
         DEF Next, Handler, Reopen, ToolOrder, AskOrder, AskRun, Await, OpenSandbox,
             TakeOrder, StartRun, Drop

(* The pool hands a token to one visitor in each life of the service, and  *)
(* hands out no token that the service revoked in an earlier life.         *)
THEOREM TokensAreExclusive == Spec => []HandedOutOnce
<1>1. Init => PoolInv
  BY DEF Init, PoolInv, HandedOutOnce, Nobody
<1>2. TypeOK /\ Working /\ Numbered /\ PoolInv /\ [Next]_vars => PoolInv'
  BY PoolNext
<1>3. PoolInv => HandedOutOnce
  BY DEF PoolInv
<1> QED  BY <1>1, <1>2, <1>3, SessionTypes, PTL DEF Spec

-----------------------------------------------------------------------------
(* Sessions are numbered: nobody works on, or has ordered in, a session    *)
(* that is still to come.                                                  *)
Counted ==
  /\ \A t \in Tokens : session[t] <= created[t]
  /\ \A r \in waiting : r.number <= created[r.token]
  /\ \A p \in Threads : call[p].pc # "idle" => call[p].number <= created[call[p].token]
  /\ \A o \in orders : o.number <= created[o.token]

(* created only grows.                                                     *)
LEMMA CountedGrows ==
  ASSUME TypeOK, TypeOK', Working, Counted,
         \A u \in Tokens : created[u] <= created'[u] /\ session'[u] <= created'[u],
         \A r \in waiting' : r \in waiting \/ r.number <= created'[r.token],
         \A p \in Threads : call'[p].pc # "idle" =>
           \/ /\ call[p].pc # "idle"
              /\ call'[p].token = call[p].token /\ call'[p].number = call[p].number
           \/ call'[p].number <= created'[call'[p].token],
         \A o \in orders' : o \in orders \/ o.number <= created'[o.token]
  PROVE  Counted'
<1>0. /\ \A u \in Tokens : created[u] \in Nat /\ created'[u] \in Nat
      /\ \A r \in waiting : r.token \in Tokens /\ r.number \in Nat
      /\ \A o \in orders : o.token \in Tokens /\ o.number \in Nat
      /\ \A p \in Threads : call[p].number \in Nat
      /\ \A p \in Threads : call[p].pc # "idle" => call[p].token \in Tokens
  BY BusyToken, SessionsAssumption DEF TypeOK
<1>1. \A r \in waiting' : r.number <= created'[r.token]
  BY <1>0 DEF Counted
<1>2. \A o \in orders' : o.number <= created'[o.token]
  BY <1>0 DEF Counted
<1>3. \A p \in Threads : call'[p].pc # "idle" => call'[p].number <= created'[call'[p].token]
  BY <1>0 DEF Counted
<1> QED  BY <1>1, <1>2, <1>3 DEF Counted

LEMMA CountedSame ==
  ASSUME TypeOK, TypeOK', Working, Counted, UNCHANGED <<session, created>>,
         waiting' \subseteq waiting, NEW p \in Threads, OnlyCall(p),
         \/ Ends(p) /\ call[p].pc # "idle"
         \/ \E pc \in Stages : GoesTo(p, pc) /\ (call[p].pc = "idle" => pc = "idle"),
         \A o \in orders' : o \in orders \/ (o = OrderOf(call[p]) /\ call[p].pc # "idle")
  PROVE  Counted'
<1>1. \A u \in Tokens : created[u] <= created[u]
  BY SessionsAssumption DEF TypeOK
<1>2. OrderOf(call[p]).number = call[p].number /\ OrderOf(call[p]).token = call[p].token
  BY DEF OrderOf
<1>3. \A o \in orders' : o \in orders \/ o.number <= created[o.token]
  BY <1>2 DEF Counted
<1>4. \A q \in Threads : call'[q].pc # "idle" =>
        /\ call[q].pc # "idle"
        /\ call'[q].token = call[q].token /\ call'[q].number = call[q].number
  BY FreeIsIdle DEF OnlyCall, Ends, GoesTo
<1> QED  BY <1>1, <1>3, <1>4, CountedGrows DEF Counted

LEMMA CountedPropose ==
  ASSUME TypeOK, TypeOK', Working, Numbered, Counted, NEW p \in Threads, Propose(p)
  PROVE  Counted'
<1>1. ASSUME NEW i \in Intents, Verify(p, i) PROVE Counted'
  BY <1>1, VerifyEffect, CountedSame DEF Elsewhere, Stages
<1>2. CASE Evaluate(p)
  BY <1>2, EvaluateEffect, CountedSame DEF Elsewhere, Stages
<1>3. CASE Reserve(p)
  BY <1>3, ReserveEffect, CountedSame DEF Elsewhere, Stages, Ends
<1>4. ASSUME NEW placed \in BOOLEAN, NEW answer \in {"ok", "refused", "timeout"},
             Send(p, placed, answer)
      PROVE  Counted'
  BY <1>4, SendEffect, CountedSame DEF Elsewhere, Stages
<1>5. CASE Settle(p)
  BY <1>5, SettleEffect, CountedSame DEF Elsewhere
<1> QED  BY <1>1, <1>2, <1>3, <1>4, <1>5 DEF Propose

(* The proposals that handlers begin, and the handlers put aside.          *)
LEMMA CountedCalls ==
  ASSUME TypeOK, Working, Numbered, Counted, Handler
  PROVE  /\ \A p \in Threads : call'[p] = call[p]
                                \/ call'[p].number <= created'[call'[p].token]
         /\ \A r \in waiting' : r \in waiting \/ r.number <= created'[r.token]
<1> DEFINE Q == /\ \A p \in Threads : call'[p] = call[p]
                                       \/ call'[p].number <= created'[call'[p].token]
                /\ \A r \in waiting' : r \in waiting \/ r.number <= created'[r.token]
<1>1. ASSUME NEW v \in Visitors, NEW w \in Workers, ToolOrder(v, w) PROVE Q
  <2>1. /\ w \in Threads /\ UNCHANGED <<waiting, created>>
        /\ \E t \in Tokens, n \in 1 .. MaxSessions : Begins(w, t, n) /\ n = session[t]
    BY <1>1, ToolOrderEffect DEF Elsewhere
  <2> QED  BY <2>1 DEF Begins, OnlyCall, Counted
<1>2. ASSUME NEW r \in waiting, TakeOrder(r) PROVE Q
  <2>1. /\ Loop \in Threads /\ waiting' \subseteq waiting /\ UNCHANGED created
        /\ \E t \in Tokens, n \in 1 .. MaxSessions :
             Begins(Loop, t, n) /\ t = r.token /\ n = r.number
    BY <1>2, TakeOrderEffect DEF manager
  <2> QED  BY <2>1 DEF Begins, OnlyCall, Counted
<1>3. ASSUME NEW r \in waiting, NEW w \in Workers, NEW idle \in SUBSET Tokens,
             StartRun(r, w, idle)
      PROVE  Q
  <2>1. /\ w \in Threads /\ waiting' \subseteq waiting
        /\ r.token \in Tokens /\ Managed(idle \cup {r.token})
        /\ \/ UNCHANGED call
           \/ \E n \in 1 .. MaxSessions : Begins(w, r.token, n) /\ n = created'[r.token]
    BY <1>3, StartRunEffect
  <2>2. created'[r.token] <= created'[r.token]
    BY <2>1, SessionsAssumption DEF Managed
  <2> QED  BY <2>1, <2>2 DEF Begins, OnlyCall
<1>4. ASSUME NEW v \in Visitors, AskOrder(v) PROVE Q
  <2>1. holder[v].token \in Tokens
    BY <1>4, HolderTyped DEF AskOrder
  <2> DEFINE r == [kind |-> "order", visitor |-> v, token |-> holder[v].token,
                   number |-> session[holder[v].token]]
  <2>2. waiting' = waiting \cup {r} /\ UNCHANGED <<call, created>>
    BY <1>4 DEF AskOrder, Await, manager
  <2>3. r.number = session[holder[v].token] /\ r.token = holder[v].token
    OBVIOUS
  <2> HIDE DEF r
  <2> QED  BY <2>1, <2>2, <2>3 DEF Counted
<1>5. ASSUME NEW v \in Visitors, AskRun(v) PROVE Q
  <2>1. holder[v].token \in Tokens
    BY <1>5, HolderTyped DEF AskRun, Await
  <2> DEFINE r == [kind |-> "run", visitor |-> v, token |-> holder[v].token, number |-> 0]
  <2>2. waiting' = waiting \cup {r} /\ UNCHANGED <<call, created>>
    BY <1>5 DEF AskRun, Await, manager
  <2>3. r.number = 0 /\ r.token = holder[v].token
    OBVIOUS
  <2>4. 0 <= created[holder[v].token]
    BY <2>1, SessionsAssumption DEF TypeOK
  <2> HIDE DEF r
  <2> QED  BY <2>2, <2>3, <2>4
<1>6. ASSUME UNCHANGED call, waiting' \subseteq waiting PROVE Q
  BY <1>6
<1> HIDE DEF Q
<1>7. Q
  BY <1>1, <1>2, <1>3, <1>4, <1>5, <1>6
     DEF Handler, OpenSession, Reopen, RevokeToken, OpenSandbox, Drop
<1> QED  BY <1>7 DEF Q

LEMMA CountedNext ==
  ASSUME TypeOK, TypeOK', Working, Numbered, Counted, [Next]_vars
  PROVE  Counted'
<1>0. \A u \in Tokens : created[u] <= created[u]
  BY SessionsAssumption DEF TypeOK
<1>1. ASSUME NEW p \in Threads, Propose(p) PROVE Counted'
  BY <1>1, CountedPropose
<1>2. ASSUME NEW w \in Workers, Abort(w) \/ EndRun(w)
      PROVE  Counted'
  <2>0. w \in Threads /\ call[w].pc \in Stages
    BY CallTyped DEF Threads, CallRecord
  <2>1. CASE Abort(w)
    <3>1. /\ OnlyCall(w) /\ GoesTo(w, call[w].pc)
          /\ UNCHANGED <<session, created, waiting, orders>>
      BY <2>1, AbortEffect DEF Elsewhere
    <3>2. \A q \in Threads : /\ call'[q].pc = call[q].pc /\ call'[q].token = call[q].token
                             /\ call'[q].number = call[q].number
      BY <3>1 DEF OnlyCall, GoesTo
    <3> QED  BY <3>1, <3>2 DEF Counted
  <2>2. CASE EndRun(w)
    BY <2>0, <2>2, EndRunEffect, CountedSame DEF Elsewhere, Ends, EndRun
  <2> QED  BY <1>2, <2>1, <2>2
<1>3. ASSUME NEW T \in SUBSET Tokens, Managed(T)
      PROVE  \A u \in Tokens : created[u] <= created'[u] /\ session'[u] <= created'[u]
  <2>1. \A u \in Tokens : /\ created[u] \in Nat /\ created'[u] \in Nat
                          /\ session[u] \in Nat
    BY <1>3, SessionsAssumption DEF TypeOK, Managed
  <2> QED  BY <1>3, <2>1 DEF Managed, Counted
<1>4. CASE Handler
  <2>1. /\ \A u \in Tokens : created[u] <= created'[u] /\ session'[u] <= created'[u]
        /\ UNCHANGED orders
    BY <1>3, <1>4, HandlerStep DEF ManagerStep
  <2> QED  BY <1>4, <2>1, CountedCalls, CountedGrows
<1>5. ASSUME NEW t \in Tokens, NEW newer \in BOOLEAN, CommandRevoke(t, newer)
      PROVE  Counted'
  BY <1>5 DEF CommandRevoke, Counted, manager
<1>6. CASE Restart
  <2>1. \A u \in Tokens : session'[u] <= created'[u]
    BY <1>6, SessionsAssumption DEF Restart, TypeOK
  <2> QED  BY <1>0, <1>6, <2>1, CountedGrows DEF Restart, Free
<1>7. CASE UNCHANGED vars
  BY <1>7 DEF vars, Counted, manager
<1> QED  BY <1>1, <1>2, <1>4, <1>5, <1>6, <1>7 DEF Next

LEMMA CountedAlways == Spec => []Counted
<1>1. Init => Counted
  BY DEF Init, Counted, Free
<1>2. TypeOK /\ Working /\ Numbered /\ TypeOK' /\ Counted /\ [Next]_vars => Counted'
  BY CountedNext
<1> QED  BY <1>1, <1>2, SessionTypes, PTL DEF Spec

-----------------------------------------------------------------------------
(* The ledger of a token nobody else has met: the calls in flight are all  *)
(* of one gateway, what they know of the ledger still holds, and what the  *)
(* present session has ordered is charged.                                 *)
Locked == {"evaluate", "reserve"}
Flying == {"send", "commit", "fail"}

Charged(e) == {i \in Intents : e[i] \in {"PENDING", "COMMITTED"}}

RoomFor(e, i) == e[i] = "none" /\ Total(Charged(e), Price) + Price[i] <= BudgetMax

(* What the ledger file says of the intent of a call past the clauses.     *)
Fits(c, e) ==
  /\ c.pc = "reserve" => RoomFor(e, c.intent)
  /\ c.pc \in Flying => e[c.intent] = "PENDING"

(* The present session has placed no order of an intent that is about to   *)
(* be sent or marked FAILED.                                               *)
Unplaced(c, t) ==
  c.pc \in {"send", "fail"} =>
    \A o \in orders : o.token = t /\ o.number = session[t] => o.intent # c.intent

(* The gateway's lock.                                                     *)
LocksApart ==
  \A p, q \in Threads :
    p # q /\ call[p].pc \in Locked /\ call[q].pc \in Locked =>
      call[p].token # call[q].token \/ call[p].number # call[q].number

OneGateway(t) == \A p, q \in InFlight(t) : call[p].number = call[q].number

CallsFit(t) == \A p \in InFlight(t) : Fits(call[p], entry[t]) /\ Unplaced(call[p], t)

FlightsApart(t) ==
  \A p, q \in InFlight(t) :
    p # q /\ call[p].pc \in Flying /\ call[q].pc \in Flying
      => call[p].intent # call[q].intent

OrdersCharged(t) ==
  \A o \in orders : o.token = t /\ o.number = session[t] => o.intent \in Charged(entry[t])

TokenInv(t) ==
  /\ OneGateway(t) /\ CallsFit(t) /\ FlightsApart(t)
  /\ Total(Charged(entry[t]), Price) <= BudgetMax
  /\ OrdersCharged(t)

RunInv == LocksApart /\ \A t \in Tokens \ mixed : TokenInv(t)

LEMMA ChargedLive == \A t \in Tokens : Live(t) = Charged(entry[t])
BY DEF Live, Charged

LEMMA ChargedEmpty == Charged(Empty) = {} /\ Total(Charged(Empty), Price) <= BudgetMax
<1>1. Charged(Empty) = {}
  BY DEF Charged, Empty
<1>2. Units({}, Price) = {}
  BY DEF Units
<1>3. Total({}, Price) = 0
  BY <1>2, FS_EmptySet DEF Total
<1> QED  BY <1>1, <1>3, SessionsAssumption

LEMMA ChargedTotal ==
  ASSUME NEW e \in EntryMap
  PROVE  IsFiniteSet(Charged(e)) /\ Total(Charged(e), Price) \in Nat
<1>1. Charged(e) \subseteq Intents /\ IsFiniteSet(Charged(e))
  BY SessionsAssumption, FS_Subset DEF Charged
<1> QED  BY <1>1, UnitsFinite, SessionsAssumption

LEMMA Charges ==
  ASSUME NEW e \in EntryMap, NEW f \in EntryMap, NEW i \in Intents,
         e[i] = "none", f[i] = "PENDING",
         \A j \in Intents : j # i => f[j] = e[j]
  PROVE  /\ Charged(f) = Charged(e) \cup {i}
         /\ Total(Charged(f), Price) = Total(Charged(e), Price) + Price[i]
<1>1. Charged(f) = Charged(e) \cup {i} /\ i \notin Charged(e)
  BY DEF Charged, EntryMap
<1>2. IsFiniteSet(Charged(e)) /\ Charged(e) \subseteq Intents
  BY ChargedTotal DEF Charged
<1>3. \A x \in Charged(e) \cup {i} : Price[x] \in Nat
  BY <1>2, SessionsAssumption
<1>4. ASSUME NEW S, IsFiniteSet(S), i \notin S, \A x \in S \cup {i} : Price[x] \in Nat
      PROVE  Total(S \cup {i}, Price) = Total(S, Price) + Price[i]
  BY <1>4, TotalAdd
<1> QED  BY <1>1, <1>2, <1>3, <1>4

LEMMA ChargesLess ==
  ASSUME NEW e \in EntryMap, NEW f \in EntryMap, Charged(f) \subseteq Charged(e)
  PROVE  /\ Total(Charged(f), Price) <= Total(Charged(e), Price)
         /\ \A i \in Intents : RoomFor(e, i) /\ f[i] = "none" => RoomFor(f, i)
<1>1. IsFiniteSet(Charged(e)) /\ Total(Charged(e), Price) \in Nat
  BY ChargedTotal
<1>2. Total(Charged(f), Price) \in Nat
  BY ChargedTotal
<1>3. \A x \in Charged(e) : Price[x] \in Nat
  BY SessionsAssumption DEF Charged
<1>4. Total(Charged(f), Price) <= Total(Charged(e), Price)
  BY <1>1, <1>3, TotalMonotone
<1>5. \A i \in Intents : Price[i] \in Nat /\ BudgetMax \in Nat
  BY SessionsAssumption
<1> QED  BY <1>1, <1>2, <1>4, <1>5 DEF RoomFor

LEMMA FlightStages ==
  ASSUME TypeOK, NEW t, NEW p \in InFlight(t)
  PROVE  p \in Threads /\ call[p].token = t /\ call[p].pc \in Locked \cup Flying
BY DEF InFlight, TypeOK, Locked, Flying

(* A step that leaves the ledger of t alone, and whose calls in flight     *)
(* were in flight before or have just found room for their intent.         *)
LEMMA TokenKept ==
  ASSUME TypeOK, TypeOK', NEW t \in Tokens, TokenInv(t),
         entry'[t] = entry[t], session'[t] = session[t],
         \A o \in orders' : o \in orders \/ o.token # t,
         OneGateway(t)',
         \A q \in InFlight(t)' :
           \/ /\ q \in InFlight(t) /\ call'[q].pc = call[q].pc
              /\ call'[q].intent = call[q].intent
           \/ call'[q].pc \in Locked /\ Fits(call'[q], entry[t])
  PROVE  TokenInv(t)'
<1>1. ASSUME NEW q \in InFlight(t)'
      PROVE  Fits(call'[q], entry'[t]) /\ Unplaced(call[q], t)'
  <2>1. CASE /\ q \in InFlight(t) /\ call'[q].pc = call[q].pc
             /\ call'[q].intent = call[q].intent
    BY <2>1 DEF TokenInv, CallsFit, Fits, Unplaced
  <2>2. CASE call'[q].pc \in Locked /\ Fits(call'[q], entry[t])
    BY <2>2 DEF Unplaced, Locked
  <2> QED  BY <1>1, <2>1, <2>2
<1>2. CallsFit(t)'
  BY <1>1 DEF CallsFit
<1>3. FlightsApart(t)'
  BY DEF TokenInv, FlightsApart, Locked, Flying
<1>4. OrdersCharged(t)' /\ Total(Charged(entry'[t]), Price) <= BudgetMax
  BY DEF TokenInv, OrdersCharged
<1> QED  BY <1>2, <1>3, <1>4 DEF TokenInv

(* The other tokens, when thread p works for one.                          *)
LEMMA OtherToken ==
  ASSUME TypeOK, TypeOK', NEW p \in Threads, OnlyCall(p),
         call'[p].token \in {None, call[p].token},
         NEW u \in Tokens, u # call[p].token, TokenInv(u),
         entry'[u] = entry[u], session'[u] = session[u],
         \A o \in orders' : o \in orders \/ o.token = call[p].token
  PROVE  TokenInv(u)'
<1>1. ASSUME NEW q \in InFlight(u)'
      PROVE  q \in InFlight(u) /\ call'[q] = call[q]
  BY <1>1, SessionsAssumption DEF InFlight, OnlyCall
<1>2. OneGateway(u)'
  BY <1>1 DEF TokenInv, OneGateway
<1> QED  BY <1>1, <1>2, TokenKept

(* The proposal of thread p ends and leaves its ledger alone.              *)
LEMMA TokenReturns ==
  ASSUME TypeOK, TypeOK', NEW p \in Threads, OnlyCall(p), Ends(p),
         NEW t \in Tokens, TokenInv(t), entry'[t] = entry[t], session'[t] = session[t],
         \A o \in orders' : o \in orders \/ o.token # t
  PROVE  TokenInv(t)'
<1>1. ASSUME NEW q \in InFlight(t)'
      PROVE  q \in InFlight(t) /\ call'[q] = call[q]
  BY <1>1 DEF InFlight, OnlyCall, Ends, GoesTo, Free
<1>2. OneGateway(t)'
  BY <1>1 DEF TokenInv, OneGateway
<1> QED  BY <1>1, <1>2, TokenKept

LEMMA EndsToken ==
  ASSUME NEW p \in Threads, Ends(p)
  PROVE  call'[p].token \in {None, call[p].token}
BY FreeIsIdle DEF Ends, GoesTo

(* The lock, when thread p releases it or keeps it.                        *)
LEMMA LocksKept ==
  ASSUME LocksApart, NEW p \in Threads, OnlyCall(p),
         call'[p].pc \in Locked =>
           /\ call[p].pc \in Locked
           /\ call'[p].token = call[p].token /\ call'[p].number = call[p].number
  PROVE  LocksApart'
BY DEF LocksApart, OnlyCall

LEMMA LocksEnd ==
  ASSUME LocksApart, NEW p \in Threads, OnlyCall(p), Ends(p)
  PROVE  LocksApart'
BY LocksKept DEF Ends, GoesTo, Free, Locked

LEMMA RunVerify ==
  ASSUME TypeOK, TypeOK', Working, RunInv, NEW p \in Threads, NEW i \in Intents,
         Verify(p, i)
  PROVE  RunInv'
<1>0. call[p].token \in Tokens
  BY VerifyEffect, BusyToken
<1> PICK t \in Tokens : t = call[p].token
  BY <1>0
<1>1. /\ OnlyCall(p) /\ UNCHANGED <<session, entry, orders>>
      /\ call[p].pc = "ready" /\ LockFree(p)
      /\ \/ Ends(p) /\ UNCHANGED mixed
         \/ /\ GoesTo(p, "evaluate")
            /\ mixed' = IF Meets(p) THEN mixed \cup {t} ELSE mixed
  BY VerifyEffect DEF Elsewhere
<1>2. CASE Ends(p) /\ UNCHANGED mixed
  <2>1. \A u \in Tokens \ mixed' : TokenInv(u)'
    BY <1>1, <1>2, TokenReturns DEF RunInv
  <2> QED  BY <1>1, <1>2, <2>1, LocksEnd DEF RunInv
<1>3. CASE /\ GoesTo(p, "evaluate")
           /\ mixed' = IF Meets(p) THEN mixed \cup {t} ELSE mixed
  <2>1. ASSUME NEW q \in Threads, q # p, call[q].pc \in Locked
        PROVE  call[q].token # t \/ call[q].number # call[p].number
    BY <1>1, <2>1 DEF LockFree, Locked
  <2>2. LocksApart'
    <3>1. /\ \A q \in Threads : q # p => call'[q] = call[q]
          /\ call'[p].token = t /\ call'[p].number = call[p].number
      BY <1>1, <1>3 DEF OnlyCall, GoesTo
    <3> QED  BY <2>1, <3>1 DEF RunInv, LocksApart
  <2>3. ASSUME NEW u \in Tokens \ mixed', u # t
        PROVE  TokenInv(u)'
    <3>1. TokenInv(u) /\ call'[p].token \in {None, t}
      BY <1>3, <2>3 DEF RunInv, GoesTo
    <3> QED  BY <1>1, <2>3, <3>1, OtherToken
  <2>4. ASSUME t \notin mixed'
        PROVE  TokenInv(t)'
    <3>1. TokenInv(t) /\ ~Meets(p)
      BY <1>1, <1>3, <2>4 DEF RunInv
    <3>2. \A q \in InFlight(t) : call[q].number = call[p].number
      BY <3>1 DEF Meets
    <3>3. /\ \A q \in Threads : q # p => call'[q] = call[q]
          /\ call'[p].pc = "evaluate" /\ call'[p].number = call[p].number
      BY <1>1, <1>3 DEF OnlyCall, GoesTo
    <3>4. \A q \in InFlight(t)' : q = p \/ (q \in InFlight(t) /\ call'[q] = call[q])
      BY <3>3 DEF InFlight
    <3>5. OneGateway(t)'
      BY <3>2, <3>3, <3>4 DEF OneGateway
    <3>6. call'[p].pc \in Locked /\ Fits(call'[p], entry[t])
      BY <3>3 DEF Locked, Fits, Flying
    <3> QED  BY <1>1, <3>1, <3>4, <3>5, <3>6, TokenKept
  <2> QED  BY <1>1, <2>2, <2>3, <2>4 DEF RunInv
<1> QED  BY <1>1, <1>2, <1>3

LEMMA RunEvaluate ==
  ASSUME TypeOK, TypeOK', Working, RunInv, NEW p \in Threads, Evaluate(p)
  PROVE  RunInv'
<1>0. call[p].token \in Tokens
  BY EvaluateEffect, BusyToken
<1> PICK t \in Tokens : t = call[p].token
  BY <1>0
<1>1. /\ OnlyCall(p) /\ UNCHANGED <<session, entry, mixed, orders>>
      /\ call[p].pc = "evaluate"
  BY EvaluateEffect DEF Elsewhere
<1>2. CASE Ends(p)
  <2>1. \A u \in Tokens \ mixed' : TokenInv(u)'
    BY <1>1, <1>2, TokenReturns DEF RunInv
  <2> QED  BY <1>1, <1>2, <2>1, LocksEnd DEF RunInv
<1>3. CASE /\ GoesTo(p, "reserve") /\ call'[p].intent = call[p].intent
           /\ entry[t][call[p].intent] = "none"
           /\ Total(Live(t), Price) + Price[call[p].intent] <= BudgetMax
  <2>1. LocksApart'
    BY <1>1, <1>3, LocksKept DEF RunInv, GoesTo, Locked
  <2>2. ASSUME NEW u \in Tokens \ mixed', u # t
        PROVE  TokenInv(u)'
    <3>1. TokenInv(u) /\ call'[p].token \in {None, t}
      BY <1>1, <1>3, <2>2 DEF RunInv, GoesTo
    <3> QED  BY <1>1, <2>2, <3>1, OtherToken
  <2>3. ASSUME t \notin mixed'
        PROVE  TokenInv(t)'
    <3>1. TokenInv(t) /\ p \in InFlight(t)
      BY <1>1, <2>3 DEF RunInv, InFlight
    <3>2. /\ \A q \in Threads : q # p => call'[q] = call[q]
          /\ call'[p].pc = "reserve" /\ call'[p].number = call[p].number
      BY <1>1, <1>3 DEF OnlyCall, GoesTo
    <3>3. \A q \in InFlight(t)' : /\ q \in InFlight(t) /\ call'[q].number = call[q].number
                                  /\ q = p \/ call'[q] = call[q]
      BY <3>1, <3>2 DEF InFlight
    <3>4. OneGateway(t)'
      BY <3>1, <3>3 DEF TokenInv, OneGateway
    <3>5. RoomFor(entry[t], call[p].intent)
      BY <1>1, <1>3, ChargedLive DEF RoomFor
    <3>6. call'[p].pc \in Locked /\ Fits(call'[p], entry[t])
      BY <1>3, <3>2, <3>5 DEF Locked, Fits, Flying
    <3> QED  BY <1>1, <3>1, <3>3, <3>4, <3>6, TokenKept
  <2> QED  BY <1>1, <2>1, <2>2, <2>3 DEF RunInv
<1> QED  BY <1>1, <1>2, <1>3, EvaluateEffect

LEMMA RunAbort ==
  ASSUME TypeOK, TypeOK', RunInv, NEW w \in Workers, Abort(w)
  PROVE  RunInv'
<1>1. /\ w \in Threads /\ OnlyCall(w) /\ UNCHANGED <<session, entry, mixed, orders>>
      /\ GoesTo(w, call[w].pc) /\ call'[w].intent = call[w].intent
  BY AbortEffect DEF Elsewhere, Threads
<1>2. ASSUME NEW t \in Tokens \ mixed'
      PROVE  TokenInv(t)'
  <2>1. TokenInv(t)
    BY <1>1 DEF RunInv
  <2>2. \A q \in InFlight(t)' : /\ q \in InFlight(t) /\ call'[q].pc = call[q].pc
                                /\ call'[q].number = call[q].number
                                /\ call'[q].intent = call[q].intent
    BY <1>1 DEF OnlyCall, GoesTo, InFlight
  <2>3. OneGateway(t)'
    BY <2>1, <2>2 DEF TokenInv, OneGateway
  <2> QED  BY <1>1, <2>1, <2>2, <2>3, TokenKept
<1>3. LocksApart'
  BY <1>1, LocksKept DEF RunInv, GoesTo
<1> QED  BY <1>2, <1>3 DEF RunInv

LEMMA RunEnds ==
  ASSUME TypeOK, TypeOK', RunInv, NEW w \in Workers, EndRun(w)
  PROVE  RunInv'
<1>1. /\ w \in Threads /\ OnlyCall(w) /\ UNCHANGED <<session, entry, mixed, orders>>
      /\ Ends(w)
  BY EndRunEffect DEF Elsewhere, Threads, Ends
<1>2. \A u \in Tokens \ mixed' : TokenInv(u)'
  BY <1>1, TokenReturns DEF RunInv
<1> QED  BY <1>1, <1>2, LocksEnd DEF RunInv

LEMMA RunReserve ==
  ASSUME TypeOK, TypeOK', Working, RunInv, NEW p \in Threads, Reserve(p)
  PROVE  RunInv'
<1>0. call[p].token \in Tokens /\ call[p].intent \in Intents
  BY ReserveEffect
<1> PICK t \in Tokens, i \in Intents : t = call[p].token /\ i = call[p].intent
  BY <1>0
<1>1. /\ OnlyCall(p) /\ UNCHANGED <<session, mixed, orders>> /\ call[p].pc = "reserve"
      /\ \/ call'[p] = Free /\ UNCHANGED entry
         \/ Writes(t, i, "PENDING") /\ GoesTo(p, "send") /\ call'[p].intent = i
  BY ReserveEffect DEF Elsewhere
<1>2. CASE call'[p] = Free /\ UNCHANGED entry
  <2>1. Ends(p)
    BY <1>2 DEF Ends
  <2>2. \A u \in Tokens \ mixed' : TokenInv(u)'
    BY <1>1, <1>2, <2>1, TokenReturns DEF RunInv
  <2> QED  BY <1>1, <2>1, <2>2, LocksEnd DEF RunInv
<1>3. CASE Writes(t, i, "PENDING") /\ GoesTo(p, "send") /\ call'[p].intent = i
  <2>1. LocksApart'
    BY <1>1, <1>3, LocksKept DEF RunInv, GoesTo, Locked
  <2>2. ASSUME NEW u \in Tokens \ mixed', u # t
        PROVE  TokenInv(u)'
    <3>1. TokenInv(u) /\ call'[p].token \in {None, t} /\ entry'[u] = entry[u]
      BY <1>1, <1>3, <2>2 DEF RunInv, GoesTo, Writes
    <3> QED  BY <1>1, <2>2, <3>1, OtherToken
  <2>3. ASSUME t \notin mixed'
        PROVE  TokenInv(t)'
    <3>1. TokenInv(t) /\ p \in InFlight(t)
      BY <1>1, <2>3 DEF RunInv, InFlight
    <3>2. RoomFor(entry[t], i)
      BY <1>1, <3>1 DEF TokenInv, CallsFit, Fits
    <3>3. entry[t] \in EntryMap /\ entry'[t] \in EntryMap
      BY EntryTyped, <1>3 DEF Writes
    <3>4. /\ Charged(entry'[t]) = Charged(entry[t]) \cup {i}
          /\ Total(Charged(entry'[t]), Price) <= BudgetMax
      BY <1>3, <3>2, <3>3, Charges DEF RoomFor, Writes
    <3>5. /\ \A q \in Threads : q # p => call'[q] = call[q]
          /\ call'[p].pc = "send" /\ call'[p].number = call[p].number
      BY <1>1, <1>3 DEF OnlyCall, GoesTo
    <3>6. \A q \in InFlight(t)' : q \in InFlight(t) /\ call'[q].number = call[q].number
      BY <3>1, <3>5 DEF InFlight
    <3>7. OneGateway(t)'
      BY <3>1, <3>6 DEF TokenInv, OneGateway
    <3>8. ASSUME NEW q \in InFlight(t), q # p
          PROVE  /\ q \in Threads /\ call[q].pc \in Flying
                 /\ call[q].intent \in Intents /\ call[q].intent # i
                 /\ entry[t][call[q].intent] = "PENDING" /\ Unplaced(call[q], t)
      <4>1. q \in Threads /\ call[q].token = t /\ call[q].pc \in Locked \cup Flying
        BY <3>8, FlightStages
      <4>2. call[q].pc \notin Locked
        BY <1>1, <3>1, <3>8, <4>1 DEF RunInv, LocksApart, Locked, TokenInv, OneGateway
      <4>3. call[q].intent \in Intents
        BY <4>1, <4>2 DEF Working, Flying
      <4> QED  BY <3>1, <3>2, <3>8, <4>1, <4>2, <4>3 DEF TokenInv, CallsFit, Fits, RoomFor
    <3>9. ASSUME NEW q \in InFlight(t)'
          PROVE  Fits(call'[q], entry'[t]) /\ Unplaced(call[q], t)'
      <4>1. CASE q = p
        <5>1. Fits(call'[q], entry'[t])
          BY <1>3, <3>5, <4>1 DEF Fits, Writes
        <5>2. i \notin Charged(entry[t])
          BY <3>2 DEF RoomFor, Charged
        <5>3. Unplaced(call[q], t)'
          BY <1>1, <1>3, <3>1, <4>1, <5>2 DEF Unplaced, TokenInv, OrdersCharged
        <5> QED  BY <5>1, <5>3
      <4>2. CASE q # p
        <5>1. /\ q \in InFlight(t) /\ call'[q] = call[q]
          BY <3>5, <3>6, <3>9, <4>2, FlightStages
        <5>2. /\ call[q].pc \in Flying /\ entry[t][call[q].intent] = "PENDING"
              /\ call[q].intent \in Intents /\ call[q].intent # i /\ Unplaced(call[q], t)
          BY <3>8, <4>2, <5>1
        <5>3. Fits(call'[q], entry'[t])
          BY <1>3, <5>1, <5>2 DEF Fits, Writes, Flying
        <5>4. Unplaced(call[q], t)'
          BY <1>1, <5>1, <5>2 DEF Unplaced
        <5> QED  BY <5>3, <5>4
      <4> QED  BY <4>1, <4>2
    <3>10. CallsFit(t)'
      BY <3>9 DEF CallsFit
    <3>11. FlightsApart(t)'
      <4>1. ASSUME NEW q \in InFlight(t)', NEW r \in InFlight(t)', q # r,
                   call'[q].pc \in Flying, call'[r].pc \in Flying
            PROVE  call'[q].intent # call'[r].intent
        <5>1. q \in InFlight(t) /\ r \in InFlight(t) /\ q \in Threads /\ r \in Threads
          BY <3>6, <4>1, FlightStages
        <5>2. CASE q # p /\ r # p
          BY <3>1, <3>5, <4>1, <5>1, <5>2 DEF TokenInv, FlightsApart
        <5>3. CASE q = p \/ r = p
          BY <1>3, <3>5, <3>8, <4>1, <5>1, <5>3
        <5> QED  BY <5>2, <5>3
      <4> QED  BY <4>1 DEF FlightsApart
    <3>12. OrdersCharged(t)'
      BY <1>1, <3>1, <3>4 DEF TokenInv, OrdersCharged
    <3> QED  BY <3>4, <3>7, <3>10, <3>11, <3>12 DEF TokenInv
  <2> QED  BY <1>1, <2>1, <2>2, <2>3 DEF RunInv
<1> QED  BY <1>1, <1>2, <1>3

LEMMA RunSend ==
  ASSUME TypeOK, TypeOK', Working, RunInv, NEW p \in Threads,
         NEW placed \in BOOLEAN, NEW answer \in {"ok", "refused", "timeout"},
         Send(p, placed, answer)
  PROVE  RunInv'
<1>0. call[p].token \in Tokens /\ call[p].intent \in Intents
  BY SendEffect
<1> PICK t \in Tokens, i \in Intents : t = call[p].token /\ i = call[p].intent
  BY <1>0
<1> PICK new : new = OrderOf(call[p])
  OBVIOUS
<1>1. /\ OnlyCall(p) /\ UNCHANGED <<session, entry, mixed>> /\ call[p].pc = "send"
      /\ orders' = IF placed THEN orders \cup {new} ELSE orders
  BY SendEffect DEF Elsewhere
<1>2. new.token = t /\ new.number = call[p].number /\ new.intent = i
  BY DEF OrderOf
<1>3. \/ Ends(p)
      \/ /\ call'[p].pc \in {"commit", "fail"}
         /\ call'[p].token = t /\ call'[p].number = call[p].number
         /\ call'[p].intent = i
         /\ call'[p].pc = "fail" => ~placed
  BY SendEffect DEF GoesTo
<1>4. \A o \in orders' : o \in orders \/ (placed /\ o = new)
  BY <1>1
<1>5. LocksApart'
  BY <1>1, <1>3, LocksEnd, LocksKept DEF RunInv, Locked
<1>6. ASSUME NEW u \in Tokens \ mixed', u # t
      PROVE  TokenInv(u)'
  <2>1. TokenInv(u) /\ call'[p].token \in {None, t}
    BY <1>1, <1>3, <1>6, EndsToken DEF RunInv
  <2> QED  BY <1>1, <1>2, <1>4, <1>6, <2>1, OtherToken
<1>7. ASSUME t \notin mixed'
      PROVE  TokenInv(t)'
  <2>1. TokenInv(t) /\ p \in InFlight(t)
    BY <1>1, <1>7 DEF RunInv, InFlight
  <2>2. entry[t][i] = "PENDING"
    BY <1>1, <2>1 DEF TokenInv, CallsFit, Fits, Flying
  <2>3. \A q \in InFlight(t) : q # p /\ call[q].pc \in Flying => call[q].intent # i
    BY <1>1, <2>1 DEF TokenInv, FlightsApart, Flying
  <2>4. ASSUME NEW q \in InFlight(t)'
        PROVE  /\ q \in InFlight(t) /\ call'[q].number = call[q].number
               /\ call'[q].intent = call[q].intent
               /\ \/ q # p /\ call'[q] = call[q]
                  \/ /\ q = p /\ call'[q].pc \in {"commit", "fail"}
                     /\ call'[q].pc = "fail" => ~placed
    BY <1>1, <1>3, <2>4, FreeIsIdle DEF InFlight, OnlyCall, Ends, GoesTo
  <2>5. OneGateway(t)'
    BY <2>1, <2>4 DEF TokenInv, OneGateway
  <2>6. ASSUME NEW q \in InFlight(t)'
        PROVE  Fits(call'[q], entry'[t]) /\ Unplaced(call[q], t)'
    <3>1. CASE q # p
      <4>1. q \in InFlight(t) /\ call'[q] = call[q]
        BY <2>4, <2>6, <3>1
      <4>2. Fits(call[q], entry[t]) /\ Unplaced(call[q], t)
        BY <2>1, <4>1 DEF TokenInv, CallsFit
      <4>3. call[q].pc \in {"send", "fail"} => call[q].intent # i
        BY <2>3, <3>1, <4>1 DEF Flying
      <4>4. Unplaced(call[q], t)'
        BY <1>1, <1>2, <1>4, <4>1, <4>2, <4>3 DEF Unplaced
      <4> QED  BY <1>1, <4>1, <4>2, <4>4
    <3>2. CASE q = p
      <4>1. /\ call'[p].pc \in {"commit", "fail"} /\ call'[p].intent = i
            /\ call'[p].pc = "fail" => ~placed
        BY <2>4, <2>6, <3>2
      <4>2. Fits(call'[p], entry'[t])
        BY <1>1, <2>2, <4>1 DEF Fits
      <4>3. Unplaced(call[p], t)
        BY <2>1 DEF TokenInv, CallsFit
      <4>4. Unplaced(call[p], t)'
        BY <1>1, <4>1, <4>3 DEF Unplaced
      <4> QED  BY <3>2, <4>2, <4>4
    <3> QED  BY <3>1, <3>2
  <2>7. CallsFit(t)'
    BY <2>6 DEF CallsFit
  <2>8. FlightsApart(t)'
    BY <1>1, <2>1, <2>4 DEF TokenInv, FlightsApart, Flying
  <2>9. OrdersCharged(t)'
    BY <1>1, <1>2, <1>4, <2>1, <2>2 DEF TokenInv, OrdersCharged, Charged
  <2> QED  BY <1>1, <2>1, <2>5, <2>7, <2>8, <2>9 DEF TokenInv
<1> QED  BY <1>1, <1>5, <1>6, <1>7 DEF RunInv

LEMMA RunSettle ==
  ASSUME TypeOK, TypeOK', Working, RunInv, NEW p \in Threads, Settle(p)
  PROVE  RunInv'
<1>0. call[p].token \in Tokens /\ call[p].intent \in Intents
  BY SettleEffect
<1> PICK t \in Tokens, i \in Intents : t = call[p].token /\ i = call[p].intent
  BY <1>0
<1>1. /\ OnlyCall(p) /\ UNCHANGED <<session, mixed, orders>>
      /\ call[p].pc \in {"commit", "fail"} /\ Ends(p)
      /\ call'[p].token \in {None, t}
      /\ \/ UNCHANGED entry
         \/ \E s \in {"COMMITTED", "FAILED"} :
              (s = "FAILED" => call[p].pc = "fail") /\ Writes(t, i, s)
  BY SettleEffect, EndsToken DEF Elsewhere
<1>2. LocksApart'
  BY <1>1, LocksEnd DEF RunInv
<1>3. CASE UNCHANGED entry
  <2>1. \A u \in Tokens \ mixed' : TokenInv(u)'
    BY <1>1, <1>3, TokenReturns DEF RunInv
  <2> QED  BY <1>2, <2>1 DEF RunInv
<1>4. ASSUME NEW s \in {"COMMITTED", "FAILED"}, s = "FAILED" => call[p].pc = "fail",
             Writes(t, i, s)
      PROVE  RunInv'
  <2>1. ASSUME NEW u \in Tokens \ mixed', u # t
        PROVE  TokenInv(u)'
    <3>1. TokenInv(u) /\ entry'[u] = entry[u]
      BY <1>1, <1>4, <2>1 DEF RunInv, Writes
    <3> QED  BY <1>1, <2>1, <3>1, OtherToken
  <2>2. ASSUME t \notin mixed'
        PROVE  TokenInv(t)'
    <3>1. TokenInv(t) /\ p \in InFlight(t)
      BY <1>1, <2>2 DEF RunInv, InFlight
    <3>2. entry[t][i] = "PENDING" /\ Unplaced(call[p], t)
      BY <1>1, <3>1 DEF TokenInv, CallsFit, Fits, Flying
    <3>3. /\ entry[t] \in EntryMap /\ entry'[t] \in EntryMap
          /\ Charged(entry'[t]) \subseteq Charged(entry[t])
          /\ s = "COMMITTED" => Charged(entry'[t]) = Charged(entry[t])
          /\ Charged(entry[t]) \ {i} \subseteq Charged(entry'[t])
      BY EntryTyped, <1>4, <3>2 DEF Writes, Charged, EntryMap
    <3>4. /\ Total(Charged(entry'[t]), Price) <= BudgetMax
          /\ \A j \in Intents : RoomFor(entry[t], j) /\ entry'[t][j] = "none"
                                  => RoomFor(entry'[t], j)
      <4>1. /\ Total(Charged(entry'[t]), Price) <= Total(Charged(entry[t]), Price)
            /\ \A j \in Intents : RoomFor(entry[t], j) /\ entry'[t][j] = "none"
                                    => RoomFor(entry'[t], j)
        BY <3>3, ChargesLess
      <4>2. /\ Total(Charged(entry[t]), Price) \in Nat
            /\ Total(Charged(entry'[t]), Price) \in Nat /\ BudgetMax \in Nat
        BY <3>3, ChargedTotal, SessionsAssumption
      <4> QED  BY <3>1, <4>1, <4>2 DEF TokenInv
    <3>5. ASSUME NEW q \in InFlight(t)'
          PROVE  q \in InFlight(t) /\ q # p /\ q \in Threads /\ call'[q] = call[q]
      BY <1>1, <3>5 DEF InFlight, OnlyCall, Ends, GoesTo, Free
    <3>6. OneGateway(t)' /\ FlightsApart(t)'
      BY <3>1, <3>5 DEF TokenInv, OneGateway, FlightsApart
    <3>7. ASSUME NEW q \in InFlight(t)'
          PROVE  Fits(call'[q], entry'[t]) /\ Unplaced(call[q], t)'
      <4>1. /\ q \in InFlight(t) /\ q # p /\ q \in Threads /\ call'[q] = call[q]
            /\ Fits(call[q], entry[t]) /\ Unplaced(call[q], t)
        BY <3>1, <3>5, <3>7 DEF TokenInv, CallsFit
      <4>2. call[q].pc \in Flying \cup {"reserve"} => call[q].intent \in Intents
        BY <4>1 DEF Working, Flying
      <4>3. call[q].pc \in Flying => call[q].intent # i
        BY <1>1, <3>1, <4>1 DEF TokenInv, FlightsApart, Flying
      <4>4. call[q].pc = "reserve" => RoomFor(entry'[t], call[q].intent)
        <5> SUFFICES ASSUME call[q].pc = "reserve"
                     PROVE  RoomFor(entry'[t], call[q].intent)
          OBVIOUS
        <5>1. RoomFor(entry[t], call[q].intent) /\ call[q].intent \in Intents
          BY <4>1, <4>2 DEF Fits
        <5>2. entry[t][call[q].intent] = "none"
          BY <5>1 DEF RoomFor
        <5>3. entry'[t][call[q].intent] = "none"
          BY <1>4, <3>2, <5>1, <5>2 DEF Writes
        <5> QED  BY <3>4, <5>1, <5>3
      <4>5. Fits(call'[q], entry'[t])
        BY <1>4, <4>1, <4>2, <4>3, <4>4 DEF Fits, Writes
      <4>6. Unplaced(call[q], t)'
        BY <1>1, <4>1 DEF Unplaced
      <4> QED  BY <4>5, <4>6
    <3>8. CallsFit(t)'
      BY <3>7 DEF CallsFit
    <3>9. OrdersCharged(t)'
      BY <1>1, <1>4, <3>1, <3>2, <3>3 DEF TokenInv, OrdersCharged, Unplaced
    <3> QED  BY <3>4, <3>6, <3>8, <3>9 DEF TokenInv
  <2> QED  BY <1>2, <2>1, <2>2 DEF RunInv
<1> QED  BY <1>1, <1>3, <1>4

(* The manager ends sessions: what is left of them is empty, or mixed.     *)
LEMMA RunManager ==
  ASSUME TypeOK, TypeOK', Working, Counted, RunInv, ManagerStep
  PROVE  RunInv'
<1>1. PICK T \in SUBSET Tokens : Managed(T)
  BY DEF ManagerStep
<1>2. /\ \A q \in Threads : call'[q] = call[q]
                            \/ (call[q].pc = "idle" /\ call'[q].pc = "ready")
      /\ UNCHANGED orders
  BY DEF ManagerStep, CallsBegin
<1>3. LocksApart'
  BY <1>2 DEF RunInv, LocksApart, Locked
<1>4. \A t \in Tokens : \A q \in InFlight(t)' : q \in InFlight(t) /\ call'[q] = call[q]
  BY <1>2 DEF InFlight
<1>5. ASSUME NEW t \in Tokens \ mixed', t \notin T
      PROVE  TokenInv(t)'
  <2>1. TokenInv(t) /\ entry'[t] = entry[t] /\ session'[t] = session[t]
    BY <1>1, <1>5 DEF RunInv, Managed
  <2>2. OneGateway(t)'
    BY <1>4, <2>1 DEF TokenInv, OneGateway
  <2> QED  BY <1>2, <1>4, <2>1, <2>2, TokenKept
<1>6. ASSUME NEW t \in Tokens \ mixed', t \in T
      PROVE  TokenInv(t)'
  <2>1. /\ entry'[t] = Empty /\ InFlight(t) = {}
        /\ session'[t] = 0 \/ session'[t] = created[t] + 1
    BY <1>1, <1>6 DEF Managed
  <2>2. InFlight(t)' = {}
    BY <1>4, <2>1
  <2>3. \A o \in orders : o.token = t => o.number # session'[t]
    <3>1. created[t] \in Nat
      BY SessionsAssumption DEF TypeOK
    <3>2. \A o \in orders : o.number \in Nat \ {0}
      BY SessionsAssumption DEF TypeOK
    <3>3. \A o \in orders : o.token = t => o.number <= created[t]
      BY DEF Counted
    <3> QED  BY <2>1, <3>1, <3>2, <3>3
  <2>4. OrdersCharged(t)'
    BY <1>2, <2>3 DEF OrdersCharged
  <2>5. (OneGateway(t) /\ CallsFit(t) /\ FlightsApart(t))'
    BY <2>2 DEF OneGateway, CallsFit, FlightsApart
  <2> QED  BY <2>1, <2>4, <2>5, ChargedEmpty DEF TokenInv
<1> QED  BY <1>3, <1>5, <1>6 DEF RunInv

LEMMA RunRestart ==
  ASSUME TypeOK, RunInv, Restart
  PROVE  RunInv'
<1>1. /\ \A p \in Threads : call'[p].pc = "idle"
      /\ \A t \in Tokens : session'[t] = 0
      /\ UNCHANGED <<entry, mixed, orders>>
  BY DEF Restart, Free, files
<1>2. LocksApart'
  BY <1>1 DEF LocksApart, Locked
<1>3. ASSUME NEW t \in Tokens \ mixed'
      PROVE  TokenInv(t)'
  <2>1. InFlight(t)' = {}
    BY <1>1 DEF InFlight
  <2>2. (OneGateway(t) /\ CallsFit(t) /\ FlightsApart(t))'
    BY <2>1 DEF OneGateway, CallsFit, FlightsApart
  <2>3. \A o \in orders : o.number # 0
    BY SessionsAssumption DEF TypeOK
  <2>4. OrdersCharged(t)'
    BY <1>1, <2>3 DEF OrdersCharged
  <2> QED  BY <1>1, <2>2, <2>4 DEF RunInv, TokenInv
<1> QED  BY <1>2, <1>3 DEF RunInv

LEMMA RunInit == Init => RunInv
<1> SUFFICES ASSUME Init PROVE RunInv
  OBVIOUS
<1>1. \A p \in Threads : call[p].pc = "idle"
  BY DEF Init, Free
<1>2. LocksApart
  BY <1>1 DEF LocksApart, Locked
<1>3. ASSUME NEW t \in Tokens PROVE TokenInv(t)
  <2>1. InFlight(t) = {}
    BY <1>1 DEF InFlight
  <2>2. OneGateway(t) /\ CallsFit(t) /\ FlightsApart(t)
    BY <2>1 DEF OneGateway, CallsFit, FlightsApart
  <2>3. OrdersCharged(t) /\ Total(Charged(entry[t]), Price) <= BudgetMax
    BY ChargedEmpty DEF Init, OrdersCharged
  <2> QED  BY <2>2, <2>3 DEF TokenInv
<1> QED  BY <1>2, <1>3 DEF RunInv

LEMMA RunNext ==
  ASSUME TypeOK, TypeOK', Working, Numbered, Counted, RunInv, [Next]_vars
  PROVE  RunInv'
<1>1. ASSUME NEW p \in Threads, Propose(p)
      PROVE  RunInv'
  BY <1>1, RunVerify, RunEvaluate, RunReserve, RunSend, RunSettle DEF Propose
<1>2. ASSUME NEW w \in Workers, Abort(w) \/ EndRun(w)
      PROVE  RunInv'
  BY <1>2, RunAbort, RunEnds
<1>3. CASE Handler
  BY <1>3, HandlerStep, RunManager
<1>4. ASSUME NEW t \in Tokens, NEW newer \in BOOLEAN, CommandRevoke(t, newer)
      PROVE  RunInv'
  BY <1>4, CommandStep, RunManager
<1>5. CASE Restart
  BY <1>5, RunRestart
<1>6. CASE UNCHANGED vars
  BY <1>6, QuietManaged, QuietCalls, RunManager DEF vars, ManagerStep
<1> QED  BY <1>1, <1>2, <1>3, <1>4, <1>5, <1>6 DEF Next

LEMMA RunAlways == Spec => []RunInv
<1>1. Init => RunInv
  BY RunInit
<1>2. TypeOK /\ Working /\ Numbered /\ (TypeOK /\ Working /\ Numbered)'
        /\ Counted /\ RunInv /\ [Next]_vars
        => RunInv'
  BY RunNext
<1> QED  BY <1>1, <1>2, SessionTypes, CountedAlways, PTL DEF Spec

(* The ledger of a session holds no more than the budget, whatever         *)
(* handlers that wait, runs, tools, evictions and restarts do in turn, as  *)
(* long as no two gateways have met on it: the lock is held from the       *)
(* reading of the ledger to the entry that reserves the amount.            *)
THEOREM SessionBudget == Spec => []SessionWithinBudget
<1>1. RunInv => SessionWithinBudget
  BY ChargedLive DEF RunInv, TokenInv, SessionWithinBudget
<1> QED  BY <1>1, RunAlways, PTL

(* An order placed by the session a token has now is charged in its        *)
(* ledger, under the same condition, also when a handler that was put      *)
(* aside or a run of an older session has written to it alone.             *)
THEOREM SessionOrdersCharged == Spec => []CurrentOrderCovered
<1>1. TypeOK /\ RunInv => CurrentOrderCovered
  <2>1. TypeOK => \A o \in orders : o.token \in Tokens
    BY DEF TypeOK
  <2> QED  BY <2>1, ChargedLive DEF RunInv, TokenInv, OrdersCharged, CurrentOrderCovered
<1> QED  BY <1>1, RunAlways, SessionTypes, PTL

-----------------------------------------------------------------------------
(* The guard of a token.                                                   *)
Moneys == [t \in Tokens |-> Money(t)]

LEMMA MoneyIs ==
  ASSUME NEW t \in Tokens
  PROVE  /\ Moneys[t] = Money(t) /\ DOMAIN Money(t) = Intents
         /\ \A i \in Intents :
              /\ Money(t)[i].state = entry[t][i]
              /\ Money(t)[i].amount = IF entry[t][i] = "none" THEN 0 ELSE Price[i]
BY DEF Moneys, Money

LEMMA GuardTotal ==
  ASSUME NEW t, NEW S, NEW a
  PROVE  Promise!Guard(t)!Total(S, a) = Total(S, a)
BY DEF Promise!Guard!Total, Promise!Guard!Units, Promise!Guard!Cardinality,
       Total, Units, Cardinality

LEMMA GuardCardinality ==
  ASSUME NEW t, NEW S
  PROVE  /\ Promise!Guard(t)!Cardinality(S) = Cardinality(S)
         /\ Promise!Cardinality(S) = Cardinality(S)
BY DEF Promise!Guard!Cardinality, Promise!Cardinality, Cardinality

LEMMA RoomIsRoom ==
  ASSUME TypeOK, NEW t \in Tokens, NEW i \in Intents, RoomFor(entry[t], i)
  PROVE  Promise!Guard(t)!Room(i, Price[i])
<1> DEFINE C == Charged(entry[t])
           A == [j \in Intents |-> Moneys[t][j].amount]
<1>1. Promise!Guard(t)!Counted = C
  BY MoneyIs DEF Promise!Guard!Counted, Charged, Moneys
<1>2. Total(C, A) = Total(C, Price)
  <2>1. \A j \in C : A[j] = Price[j]
    BY MoneyIs DEF Charged
  <2> HIDE DEF C, A
  <2> QED  BY <2>1, TotalSame
<1>3. Total(C, A) + Price[i] <= BudgetMax
  BY <1>2 DEF RoomFor
<1>4. Cardinality(C) < Cardinality(Intents) + 1
  <2>1. C \in SUBSET Intents /\ IsFiniteSet(Intents)
    BY SessionsAssumption DEF Charged
  <2>2. IsFiniteSet(C) /\ Cardinality(C) <= Cardinality(Intents)
    BY <2>1, FS_Subset
  <2>3. Cardinality(C) \in Nat /\ Cardinality(Intents) \in Nat
    BY <2>1, <2>2, FS_CardinalityType
  <2> QED  BY <2>2, <2>3
<1>5. Promise!Guard(t)!Total(C, A) = Total(C, A)
  BY GuardTotal
<1>6. Promise!Guard(t)!Cardinality(C) = Cardinality(C)
      /\ Promise!Cardinality(Intents) = Cardinality(Intents)
  BY GuardCardinality
<1>7. A = [j \in Intents |-> [u \in Tokens |-> Money(u)][t][j].amount]
  BY DEF Moneys
<1> HIDE DEF C, A
<1> QED  BY <1>1, <1>3, <1>4, <1>5, <1>6, <1>7 DEF Promise!Guard!Room

(* A write in one ledger is a change of one token's money.                 *)
LEMMA WritesOne ==
  ASSUME TypeOK, NEW t \in Tokens, NEW i \in Intents, NEW s, Writes(t, i, s),
         s # "none"
  PROVE  /\ \A u \in Tokens \ {t} : Moneys'[u] = Moneys[u]
         /\ Moneys'[t] = [Moneys[t] EXCEPT ![i] = [state |-> s, amount |-> Price[i]]]
<1>1. \A u \in Tokens \ {t} : Moneys'[u] = Moneys[u]
  BY DEF Writes, Moneys, Money
<1>2. Moneys'[t] = Money(t)' /\ Moneys[t] = Money(t)
  BY DEF Moneys
<1>3. /\ entry'[t][i] = s
      /\ \A j \in Intents : j # i => entry'[t][j] = entry[t][j]
  BY DEF Writes
<1>4. Money(t)' = [Money(t) EXCEPT ![i] = [state |-> s, amount |-> Price[i]]]
  BY <1>3 DEF Money
<1> QED  BY <1>1, <1>2, <1>4

LEMMA ReserveHolds ==
  ASSUME TypeOK, Working, RunInv, NEW p \in Threads, Reserve(p)
  PROVE  UNCHANGED <<entry, mixed>> \/ \E t \in Tokens : Promise!Spend(t)
<1> SUFFICES ASSUME ~UNCHANGED entry
             PROVE  \E t \in Tokens : Promise!Spend(t)
  BY ReserveEffect
<1>1. PICK t \in Tokens, i \in Intents :
        /\ t = call[p].token /\ i = call[p].intent /\ UNCHANGED mixed
        /\ call[p].pc = "reserve" /\ Writes(t, i, "PENDING")
  BY ReserveEffect
<1>2. /\ \A u \in Tokens \ {t} : Moneys'[u] = Moneys[u]
      /\ Moneys'[t] = [Moneys[t] EXCEPT ![i] = [state |-> "PENDING", amount |-> Price[i]]]
  BY <1>1, WritesOne
<1>3. ASSUME t \notin mixed
      PROVE  Promise!Guard(t)!Hold(i, Price[i])
  <2>1. RoomFor(entry[t], i)
    BY <1>1, <1>3 DEF RunInv, TokenInv, CallsFit, Fits, InFlight
  <2>2. Promise!Guard(t)!Room(i, Price[i])
    BY <2>1, RoomIsRoom
  <2>3. Moneys[t][i].state = "none"
    BY <2>1, MoneyIs DEF RoomFor
  <2> QED  BY <1>2, <2>2, <2>3 DEF Promise!Guard!Hold, Moneys
<1> QED  BY <1>1, <1>2, <1>3 DEF Promise!Spend, Moneys

LEMMA SettleSettles ==
  ASSUME TypeOK, Working, RunInv, NEW p \in Threads, Settle(p)
  PROVE  UNCHANGED <<entry, mixed>> \/ \E t \in Tokens : Promise!Spend(t)
<1> SUFFICES ASSUME ~UNCHANGED entry
             PROVE  \E t \in Tokens : Promise!Spend(t)
  BY SettleEffect
<1>1. PICK t \in Tokens, i \in Intents, s \in {"COMMITTED", "FAILED"} :
        /\ t = call[p].token /\ i = call[p].intent /\ UNCHANGED mixed
        /\ call[p].pc \in {"commit", "fail"} /\ Writes(t, i, s)
  BY SettleEffect
<1>2. /\ \A u \in Tokens \ {t} : Moneys'[u] = Moneys[u]
      /\ Moneys'[t] = [Moneys[t] EXCEPT ![i] = [state |-> s, amount |-> Price[i]]]
  BY <1>1, WritesOne
<1>3. ASSUME t \notin mixed
      PROVE  Promise!Guard(t)!Settle(i, s)
  <2>1. entry[t][i] = "PENDING"
    BY <1>1, <1>3 DEF RunInv, TokenInv, CallsFit, Fits, Flying, InFlight
  <2>2. Moneys[t][i] = [state |-> "PENDING", amount |-> Price[i]] /\ i \in DOMAIN Moneys[t]
    BY <2>1 DEF Moneys, Money
  <2>3. Moneys'[t] = [Moneys[t] EXCEPT ![i].state = s]
    BY <1>2, <2>2
  <2> QED  BY <2>2, <2>3 DEF Promise!Guard!Settle, Moneys
<1> QED  BY <1>1, <1>2, <1>3 DEF Promise!Spend, Moneys

(* What the session manager does to the ledgers: it ends sessions.         *)
LEMMA ManagerEnds ==
  ASSUME TypeOK, ManagerStep
  PROVE  \E T \in SUBSET Tokens : Promise!End(T)
<1>1. PICK T \in SUBSET Tokens : Managed(T)
  BY DEF ManagerStep
<1>2. ASSUME NEW u \in Tokens
      PROVE  Money(u)' = IF u \in T THEN Promise!Nothing ELSE Money(u)
  <2>1. CASE u \in T
    BY <1>1, <2>1 DEF Managed, Money, Empty, Promise!Nothing
  <2>2. CASE u \notin T
    BY <1>1, <2>2 DEF Managed, Money
  <2> QED  BY <2>1, <2>2
<1>3. [u \in Tokens |-> Money(u)]' = [u \in Tokens |-> IF u \in T THEN Promise!Nothing
                                      ELSE [v \in Tokens |-> Money(v)][u]]
  BY <1>2
<1>4. \E U \in SUBSET T : mixed' = (mixed \ T) \cup U
  BY <1>1 DEF Managed
<1> QED  BY <1>3, <1>4 DEF Promise!End

LEMMA GuardStep ==
  TypeOK /\ Working /\ Numbered /\ RunInv /\ [Next]_vars
    => [Promise!Next]_<<[t \in Tokens |-> Money(t)], mixed>>
<1> SUFFICES ASSUME TypeOK, Working, Numbered, RunInv, [Next]_vars
             PROVE  [Promise!Next]_<<[t \in Tokens |-> Money(t)], mixed>>
  OBVIOUS
<1>1. CASE UNCHANGED <<entry, mixed>>
  BY <1>1 DEF Money
<1>2. ASSUME NEW p \in Threads, NEW i \in Intents, Verify(p, i)
      PROVE  UNCHANGED <<entry, mixed>> \/ \E t \in Tokens : Promise!Meet(t)
  <2>1. /\ call[p].token \in Tokens /\ UNCHANGED entry
        /\ UNCHANGED mixed \/ mixed' = mixed \cup {call[p].token}
    BY <1>2, VerifyEffect, BusyToken
  <2>2. UNCHANGED [t \in Tokens |-> Money(t)]
    BY <2>1 DEF Money
  <2> QED  BY <2>1, <2>2 DEF Promise!Meet
<1>3. ASSUME NEW p \in Threads, Propose(p)
      PROVE  \/ UNCHANGED <<entry, mixed>>
             \/ \E t \in Tokens : Promise!Spend(t) \/ Promise!Meet(t)
  <2>1. ASSUME \/ Evaluate(p)
               \/ \E placed \in BOOLEAN, answer \in {"ok", "refused", "timeout"} :
                    Send(p, placed, answer)
        PROVE  UNCHANGED <<entry, mixed>>
    BY <2>1 DEF Evaluate, Send, manager, files
  <2> QED  BY <1>2, <1>3, <2>1, ReserveHolds, SettleSettles DEF Propose
<1>4. ASSUME ManagerStep PROVE Promise!Next
  BY <1>4, ManagerEnds DEF Promise!Next
<1>5. CASE \/ \E w \in Workers : Abort(w) \/ EndRun(w)
           \/ Restart \/ UNCHANGED vars
  BY <1>1, <1>5 DEF Abort, EndRun, Restart, manager, files, vars
<1>6. CASE \/ Handler
           \/ \E t \in Tokens, newer \in BOOLEAN : CommandRevoke(t, newer)
  BY <1>4, <1>6, HandlerStep, CommandStep
<1> QED  BY <1>1, <1>3, <1>5, <1>6 DEF Next, Promise!Next

(* Handlers, runs, tools, the manager and other processes together do with *)
(* a token's money what the guard allows and nothing else, but for a token *)
(* two gateways of which have met, until its session ends.                 *)
THEOREM SessionsImplementTokenGuard == Spec => ImplementsTokenGuard
<1>1. Init => Promise!Init
  BY DEF Init, Money, Empty, Promise!Init, Promise!Nothing
<1> QED
  BY <1>1, GuardStep, RunAlways, SessionTypes, PTL
  DEF Spec, ImplementsTokenGuard, Promise!Spec
=============================================================================
