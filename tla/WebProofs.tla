----------------------------- MODULE WebProofs ------------------------------
(***************************************************************************)
(* Theorems about the audit log, the pages of the web console that show    *)
(* what the gateway did, and the film that is made of them, for every      *)
(* value of their constants.                                               *)
(*                                                                         *)
(* The log, for any number of threads, records and restarts:               *)
(*   ReturnedKept  a record reaches the file before append returns it,     *)
(*                 which alone keeps it there                              *)
(*   ChainHolds    that the chain verifies needs more: while no two        *)
(*                 appends have overlapped, the list in memory is the      *)
(*                 file, or the file without its last record               *)
(* The console, for any presets, limits, tokens and flows under way:       *)
(*   ConsoleTyped  the page's state has its type                           *)
(*   SaidSimulated what the gateway did not answer stands under the banner *)
(*   ScreenTrue    an order said to be bought, now or before, is on the    *)
(*                 rail, and the limits beside a verdict are that order's  *)
(* The other pages, whatever is clicked, answered late or lost:            *)
(*   HistoryKeeps      the rows of the shop and the tag they stand under   *)
(*   OneRunPerPane     the streams of the live agents                      *)
(*   VerdictOfScenario the evaluation on the home page                     *)
(* The film, for any shots, waits, takes and readings:                     *)
(*   SoundFits     the track of a section plays while its shot is seen     *)
(* All of them (MCWeb):                                                    *)
(*   PagesTyped    the state of the page that moves has its type           *)
(*   PagesSafe     what each page promises holds while any of them moves   *)
(***************************************************************************)
EXTENDS MCWeb, MerkleProofs,
        FiniteSetTheorems, SequenceTheorems, TLAPS

-----------------------------------------------------------------------------
(* The audit log.                                                          *)

OpType == [pc : {"idle", "loaded", "linked", "written"},
           list : Threads \cup {Nobody}, rec : Record]

LEMMA FreeType == Free \in OpType
BY DEF Free, OpType, Record

(* The list an append adds its record to is somebody's.                    *)
Working(t) == op[t].pc \in {"linked", "written"}

Typed == TypeOK /\ \A t \in Threads : Working(t) => op[t].list \in Threads

LEMMA TypedInit == Init => Typed
<1> SUFFICES ASSUME Init PROVE Typed
  OBVIOUS
<1>1. op \in [Threads -> OpType]
  BY FreeType DEF Init
<1>2. \A t \in Threads : ~Working(t)
  BY DEF Init, Free, Working
<1>3. file \in Seq(Record) /\ lists \in [Threads -> Seq(Record)]
  <2>1. <<>> \in Seq(Record)
    OBVIOUS
  <2> QED
    BY <2>1, Zenon DEF Init
<1>4. /\ cached \in Threads \cup {Nobody} /\ returned \subseteq Nat
      /\ next \in Nat /\ restarts \in Nat
  BY DEF Init
<1>5. crossed \in BOOLEAN
  BY DEF Init
<1> QED
  BY <1>1, <1>2, <1>3, <1>4, <1>5 DEF Typed, TypeOK, OpType

(* The record an append makes is a record.                                 *)
LEMMA LinkType ==
  ASSUME Typed, NEW t \in Threads, Link(t)
  PROVE  /\ op' = [op EXCEPT ![t] = op'[t]]
         /\ op'[t] \in OpType /\ op'[t].pc = "linked"
         /\ op'[t].list = cached /\ cached \in Threads
         /\ op'[t].rec.id = next
         /\ op'[t].rec.seq = Number(lists[cached])
         /\ op'[t].rec.prev = IF lists[cached] = <<>> THEN Genesis
                              ELSE lists[cached][Len(lists[cached])].id
<1> DEFINE s == lists[cached]
           prev == IF s = <<>> THEN Genesis ELSE s[Len(s)].id
           new == [pc |-> "linked", list |-> cached,
                   rec |-> [seq |-> Number(s), prev |-> prev, id |-> next]]
<1>1. cached \in Threads
  BY DEF Link, Typed, TypeOK
<1>2. s \in Seq(Record)
  BY <1>1 DEF Typed, TypeOK
<1>3. prev \in Nat
  <2>1. CASE s = <<>>
    BY <2>1 DEF Genesis
  <2>2. CASE s # <<>>
    <3>1. Len(s) \in DOMAIN s
      BY <1>2, <2>2
    <3>2. s[Len(s)] \in Record
      BY <1>2, <3>1
    <3> QED
      BY <2>2, <3>2 DEF Record
  <2> QED
    BY <2>1, <2>2
<1>4. Number(s) \in Nat /\ next \in Nat
  BY <1>2 DEF Number, Typed, TypeOK
<1>5. op' = [op EXCEPT ![t] = new]
  BY DEF Link
<1>6. op'[t] = new
  BY <1>5 DEF Typed, TypeOK
<1>7. new \in OpType
  BY <1>1, <1>3, <1>4 DEF OpType, Record
<1>8. /\ new.pc = "linked" /\ new.list = cached /\ new.rec.id = next
      /\ new.rec.seq = Number(s) /\ new.rec.prev = prev
  OBVIOUS
<1> HIDE DEF new
<1> QED
  BY <1>1, <1>5, <1>6, <1>7, <1>8

LEMMA TypedStep == Typed /\ [Next]_vars => Typed'
<1> SUFFICES ASSUME Typed, [Next]_vars PROVE Typed'
  OBVIOUS
<1>0. /\ op \in [Threads -> OpType]
      /\ file \in Seq(Record) /\ lists \in [Threads -> Seq(Record)]
      /\ cached \in Threads \cup {Nobody} /\ returned \subseteq Nat
      /\ next \in Nat /\ restarts \in Nat /\ crossed \in BOOLEAN
      /\ \A t \in Threads : Working(t) => op[t].list \in Threads
  BY DEF Typed, TypeOK, OpType
<1>1. ASSUME NEW t \in Threads, Load(t) PROVE Typed'
  <2>1. [op[t] EXCEPT !.pc = "loaded"] \in OpType
    BY <1>0 DEF OpType
  <2>2. op' \in [Threads -> OpType]
    BY <1>0, <1>1, <2>1 DEF Load
  <2>3. \A u \in Threads : Working(u)' => op'[u].list \in Threads
    BY <1>0, <1>1 DEF Load, Working
  <2>4. lists' \in [Threads -> Seq(Record)] /\ crossed' \in BOOLEAN
    BY <1>0, <1>1 DEF Load
  <2> QED
    BY <1>0, <1>1, <2>2, <2>3, <2>4 DEF Load, Typed, TypeOK, OpType
<1>2. ASSUME NEW t \in Threads, Cache(t) PROVE Typed'
  <2>1. op' \in [Threads -> OpType]
    BY <1>0, <1>2, FreeType DEF Cache
  <2>2. \A u \in Threads : Working(u)' => op'[u].list \in Threads
    BY <1>0, <1>2 DEF Cache, Working, Free
  <2> QED
    BY <1>0, <1>2, <2>1, <2>2 DEF Cache, Typed, TypeOK, OpType
<1>3. ASSUME NEW t \in Threads, Link(t) PROVE Typed'
  <2>1. op' = [op EXCEPT ![t] = op'[t]] /\ op'[t] \in OpType
        /\ op'[t].list \in Threads
    BY <1>3, LinkType
  <2>2. op' \in [Threads -> OpType]
    BY <1>0, <2>1
  <2>3. \A u \in Threads : Working(u)' => op'[u].list \in Threads
    BY <1>0, <2>1 DEF Working
  <2>4. next' \in Nat /\ crossed' \in BOOLEAN
    BY <1>0, <1>3 DEF Link
  <2> QED
    BY <1>0, <1>3, <2>2, <2>3, <2>4 DEF Link, Typed, TypeOK, OpType
<1>4. ASSUME NEW t \in Threads, Write(t) PROVE Typed'
  <2>1. [op[t] EXCEPT !.pc = "written"] \in OpType /\ op[t].rec \in Record
    BY <1>0 DEF OpType
  <2>2. op' \in [Threads -> OpType] /\ file' \in Seq(Record)
    BY <1>0, <1>4, <2>1 DEF Write
  <2>3. \A u \in Threads : Working(u)' => op'[u].list \in Threads
    BY <1>0, <1>4 DEF Write, Working
  <2> QED
    BY <1>0, <1>4, <2>2, <2>3 DEF Write, Typed, TypeOK, OpType
<1>5. ASSUME NEW t \in Threads, Return(t) PROVE Typed'
  <2>1. op[t].rec \in Record /\ op[t].list \in Threads
    BY <1>0, <1>5 DEF OpType, Return, Working
  <2>2. op[t].rec.id \in Nat
    BY <2>1 DEF Record
  <2>a. Append(lists[op[t].list], op[t].rec) \in Seq(Record)
    BY <1>0, <2>1
  <2>b. lists' = [lists EXCEPT ![op[t].list] = Append(lists[op[t].list], op[t].rec)]
    BY <1>5 DEF Return
  <2>c. lists' \in [Threads -> Seq(Record)]
    BY <1>0, <2>1, <2>a, <2>b
  <2>3. lists' \in [Threads -> Seq(Record)] /\ returned' \subseteq Nat
    BY <1>0, <1>5, <2>2, <2>c DEF Return
  <2>4. op' \in [Threads -> OpType]
    BY <1>0, <1>5, FreeType DEF Return
  <2>5. \A u \in Threads : Working(u)' => op'[u].list \in Threads
    BY <1>0, <1>5 DEF Return, Working, Free
  <2> QED
    BY <1>0, <1>5, <2>3, <2>4, <2>5 DEF Return, Typed, TypeOK, OpType
<1>6. CASE Restart
  <2>1. op' \in [Threads -> OpType] /\ \A u \in Threads : ~Working(u)'
    BY <1>6, FreeType DEF Restart, Working, Free
  <2>2. lists' \in [Threads -> Seq(Record)] /\ restarts' \in Nat
    BY <1>0, <1>6 DEF Restart
  <2> QED
    BY <1>0, <1>6, <2>1, <2>2 DEF Restart, Typed, TypeOK, OpType
<1>7. CASE UNCHANGED vars
  BY <1>0, <1>7 DEF vars, Typed, TypeOK, OpType, Working
<1> QED
  BY <1>1, <1>2, <1>3, <1>4, <1>5, <1>6, <1>7 DEF Next

(* The state of the log keeps its type (TypeOK).                           *)
THEOREM AuditTypes == Spec => []TypeOK
<1>1. Typed => TypeOK
  BY DEF Typed
<1> QED
  BY TypedInit, TypedStep, <1>1, PTL DEF Spec

-----------------------------------------------------------------------------
(* A record added to a chain extends it exactly when it follows its last.  *)
LinkedTo(s, r) ==
  /\ r.seq = Len(s) + 1
  /\ r.prev = IF s = <<>> THEN Genesis ELSE s[Len(s)].id

LEMMA IntactAppend ==
  ASSUME NEW s \in Seq(Record), NEW r \in Record
  PROVE  Intact(Append(s, r)) <=> Intact(s) /\ LinkedTo(s, r)
<1> DEFINE a == Append(s, r)
           n == Len(s)
           Linked(c, k) == /\ c[k].seq = k
                           /\ c[k].prev = IF k = 1 THEN Genesis ELSE c[k - 1].id
<1>1. /\ DOMAIN a = 1 .. n + 1 /\ a[n + 1] = r
      /\ \A k \in 1 .. n : a[k] = s[k]
  OBVIOUS
<1>2. DOMAIN s = 1 .. n /\ n \in Nat /\ (s = <<>> <=> n = 0)
  OBVIOUS
<1>3. Intact(a) <=> \A k \in 1 .. n + 1 : Linked(a, k)
  BY <1>1 DEF Intact
<1>4. Intact(s) <=> \A k \in 1 .. n : Linked(s, k)
  BY <1>2 DEF Intact
<1> HIDE DEF a, n
<1>5. ASSUME NEW k \in 1 .. n PROVE Linked(a, k) <=> Linked(s, k)
  <2>1. k \in Nat /\ a[k] = s[k]
    BY <1>1, <1>2
  <2>2. k # 1 => a[k - 1] = s[k - 1]
    BY <1>1, <1>2
  <2> QED
    BY <2>1, <2>2
<1>6. Linked(a, n + 1) <=> LinkedTo(s, r)
  <2>1. n # 0 => a[n + 1 - 1] = s[n]
    BY <1>1, <1>2
  <2>2. Len(s) = n
    BY DEF n
  <2>3. n + 1 = 1 <=> s = <<>>
    BY <1>2
  <2> QED
    BY <1>1, <1>2, <2>1, <2>2, <2>3 DEF LinkedTo
<1>7. 1 .. n + 1 = (1 .. n) \cup {n + 1}
  BY <1>2
<1> HIDE DEF Linked
<1>8. Intact(a) <=> Intact(s) /\ LinkedTo(s, r)
  BY <1>3, <1>4, <1>5, <1>6, <1>7
<1> QED
  BY <1>8 DEF a

LEMMA IdsAppend ==
  ASSUME NEW s \in Seq(Record), NEW r \in Record
  PROVE  Ids(Append(s, r)) = Ids(s) \cup {r.id}
<1>1. /\ DOMAIN Append(s, r) = 1 .. Len(s) + 1 /\ DOMAIN s = 1 .. Len(s)
      /\ \A k \in 1 .. Len(s) : Append(s, r)[k] = s[k]
      /\ Append(s, r)[Len(s) + 1] = r
      /\ Len(s) \in Nat
  OBVIOUS
<1>2. ASSUME NEW x \in Ids(Append(s, r)) PROVE x \in Ids(s) \cup {r.id}
  <2>1. PICK k \in 1 .. Len(s) + 1 : x = Append(s, r)[k].id
    BY <1>1, <1>2 DEF Ids
  <2> QED
    BY <1>1, <2>1 DEF Ids
<1>3. ASSUME NEW x \in Ids(s) PROVE x \in Ids(Append(s, r))
  <2>1. PICK k \in 1 .. Len(s) : x = s[k].id
    BY <1>1, <1>3 DEF Ids
  <2> QED
    BY <1>1, <2>1 DEF Ids
<1>4. r.id \in Ids(Append(s, r))
  BY <1>1 DEF Ids
<1> QED
  BY <1>2, <1>3, <1>4

-----------------------------------------------------------------------------
(* A record whose append is past the write is in the file.                 *)
WrittenKept ==
  \A t \in Threads : op[t].pc = "written" => op[t].rec.id \in Ids(file)

KeptInv == Typed /\ RecordKept /\ WrittenKept

LEMMA KeptStep == KeptInv /\ [Next]_vars => KeptInv'
<1> SUFFICES ASSUME KeptInv, [Next]_vars PROVE RecordKept' /\ WrittenKept'
  BY TypedStep DEF KeptInv
<1>0. op \in [Threads -> OpType] /\ file \in Seq(Record)
  BY DEF KeptInv, Typed, TypeOK, OpType
<1> USE DEF KeptInv, RecordKept, WrittenKept
<1>1. ASSUME NEW t \in Threads, Load(t) PROVE RecordKept' /\ WrittenKept'
  BY <1>0, <1>1 DEF Load
<1>2. ASSUME NEW t \in Threads, Cache(t) PROVE RecordKept' /\ WrittenKept'
  BY <1>0, <1>2 DEF Cache, Free
<1>3. ASSUME NEW t \in Threads, Link(t) PROVE RecordKept' /\ WrittenKept'
  <2>1. op' = [op EXCEPT ![t] = op'[t]] /\ op'[t].pc = "linked"
    BY <1>3, LinkType
  <2> QED
    BY <1>0, <1>3, <2>1 DEF Link
<1>4. ASSUME NEW t \in Threads, Write(t) PROVE RecordKept' /\ WrittenKept'
  <2>1. op[t].rec \in Record
    BY <1>0 DEF OpType
  <2>2. Ids(file') = Ids(file) \cup {op[t].rec.id}
    BY <1>0, <1>4, <2>1, IdsAppend DEF Write
  <2>3. \A u \in Threads : op'[u].rec = op[u].rec
                           /\ (u # t => op'[u].pc = op[u].pc)
    BY <1>0, <1>4 DEF Write
  <2>4. returned' = returned
    BY <1>4 DEF Write
  <2> QED
    BY <2>2, <2>3, <2>4
<1>5. ASSUME NEW t \in Threads, Return(t) PROVE RecordKept' /\ WrittenKept'
  BY <1>0, <1>5 DEF Return, Free
<1>6. CASE Restart
  BY <1>6 DEF Restart, Free
<1>7. CASE UNCHANGED vars
  BY <1>7 DEF vars
<1> QED
  BY <1>1, <1>2, <1>3, <1>4, <1>5, <1>6, <1>7 DEF Next

(* A record that append returned is in the file for good, however many     *)
(* threads append and however often the process restarts (RecordKept).     *)
THEOREM ReturnedKept == Spec => []RecordKept
<1>1. Init => KeptInv
  BY TypedInit DEF Init, KeptInv, RecordKept, WrittenKept, Free
<1>2. KeptInv => RecordKept
  BY DEF KeptInv
<1> QED
  BY <1>1, <1>2, KeptStep, PTL DEF Spec

-----------------------------------------------------------------------------
(* One append at a time: its record follows the file until it is written,  *)
(* and the list lacks it until it is returned.                             *)
Alone == \A t, u \in Threads : op[t].pc # "idle" /\ op[u].pc # "idle" => t = u

Step(t) ==
  CASE op[t].pc = "idle"    -> TRUE
    [] op[t].pc = "loaded"  -> cached = Nobody /\ lists[t] = file
    [] op[t].pc = "linked"  -> /\ op[t].list = cached /\ cached # Nobody
                               /\ LinkedTo(file, op[t].rec)
    [] op[t].pc = "written" -> /\ op[t].list = cached /\ cached # Nobody
                               /\ file = Append(lists[cached], op[t].rec)

Mirror ==
  cached # Nobody /\ (\A t \in Threads : op[t].pc # "written")
    => lists[cached] = file

SerialInv ==
  /\ Alone /\ Mirror
  /\ \A t \in Threads : Step(t)
  /\ ChainIntact
  /\ returned \subseteq Ids(Records)

ChainInv == KeptInv /\ (~crossed => SerialInv)

LEMMA ChainStep == ChainInv /\ [Next]_vars => ChainInv'
<1> SUFFICES ASSUME ChainInv, [Next]_vars, ~crossed' PROVE SerialInv'
  BY KeptStep DEF ChainInv
<1>0. /\ op \in [Threads -> OpType] /\ file \in Seq(Record)
      /\ lists \in [Threads -> Seq(Record)] /\ cached \in Threads \cup {Nobody}
      /\ Nobody \notin Threads
  BY AuditChainAssumption DEF ChainInv, KeptInv, Typed, TypeOK, OpType
<1>a. ~crossed
  BY DEF Next, vars, Load, Cache, Link, Write, Return, Restart
<1>b. /\ Alone /\ Mirror /\ \A t \in Threads : Step(t)
      /\ ChainIntact /\ returned \subseteq Ids(Records) /\ RecordKept
  BY <1>a DEF ChainInv, SerialInv, KeptInv
<1>1. ASSUME NEW t \in Threads, Load(t) PROVE SerialInv'
  <2>1. \A u \in Threads : u # t => op[u].pc = "idle" /\ op'[u] = op[u]
    BY <1>0, <1>1 DEF Load, Crosses
  <2>2. op'[t].pc = "loaded" /\ lists'[t] = file /\ cached = Nobody
    BY <1>0, <1>1 DEF Load
  <2>3. UNCHANGED <<file, cached, returned>>
    BY <1>1 DEF Load
  <2>4. Alone' /\ Mirror' /\ \A u \in Threads : Step(u)'
    BY <2>1, <2>2, <2>3 DEF Alone, Mirror, Step
  <2>5. ChainIntact' /\ (returned \subseteq Ids(Records))'
    BY <1>b, <2>2, <2>3 DEF ChainIntact, Records
  <2> QED
    BY <2>4, <2>5 DEF SerialInv
<1>2. ASSUME NEW t \in Threads, Cache(t) PROVE SerialInv'
  <2>1. op[t].pc = "loaded" /\ cached = Nobody /\ lists[t] = file
    BY <1>b, <1>2 DEF Cache, Step
  <2>2. \A u \in Threads : op'[u].pc = "idle"
    BY <1>0, <1>b, <1>2, <2>1 DEF Cache, Alone, Free
  <2>3. cached' = t /\ UNCHANGED <<file, lists, returned>>
    BY <1>2 DEF Cache
  <2>4. Records' = file /\ Records = file
    BY <1>0, <2>1, <2>3 DEF Records
  <2>5. Alone' /\ Mirror' /\ \A u \in Threads : Step(u)'
    BY <2>1, <2>2, <2>3 DEF Alone, Mirror, Step
  <2> QED
    BY <1>b, <2>3, <2>4, <2>5 DEF SerialInv, ChainIntact
<1>3. ASSUME NEW t \in Threads, Link(t) PROVE SerialInv'
  <2>1. \A u \in Threads : u # t => op[u].pc = "idle" /\ op'[u] = op[u]
    BY <1>0, <1>3 DEF Link, Crosses
  <2>2. op[t].pc = "idle" /\ cached # Nobody
    BY <1>3 DEF Link
  <2>3. lists[cached] = file
    BY <1>b, <2>1, <2>2 DEF Mirror
  <2>4. op'[t].pc = "linked" /\ op'[t].list = cached /\ LinkedTo(file, op'[t].rec)
    BY <1>3, <2>3, LinkType DEF ChainInv, KeptInv, LinkedTo, Number
  <2>5. UNCHANGED <<file, lists, cached, returned>>
    BY <1>3 DEF Link
  <2>6. Alone' /\ Mirror' /\ \A u \in Threads : Step(u)'
    BY <2>1, <2>2, <2>3, <2>4, <2>5 DEF Alone, Mirror, Step
  <2> QED
    BY <1>b, <2>5, <2>6 DEF SerialInv, ChainIntact, Records
<1>4. ASSUME NEW t \in Threads, Write(t) PROVE SerialInv'
  <2>1. op[t].pc = "linked" /\ op[t].list = cached /\ cached # Nobody
        /\ LinkedTo(file, op[t].rec)
    BY <1>b, <1>4 DEF Write, Step
  <2>2. \A u \in Threads : u # t => op[u].pc = "idle" /\ op'[u] = op[u]
    BY <1>0, <1>b, <1>4, <2>1 DEF Write, Alone
  <2>3. lists[cached] = file
    BY <1>b, <2>1, <2>2 DEF Mirror
  <2>4. /\ op'[t].pc = "written" /\ op'[t].list = cached
        /\ op'[t].rec = op[t].rec
    BY <1>0, <1>4, <2>1 DEF Write
  <2>5. file' = Append(file, op[t].rec) /\ UNCHANGED <<lists, cached, returned>>
    BY <1>4 DEF Write
  <2>6. op[t].rec \in Record
    BY <1>0 DEF OpType
  <2>7. Intact(file')
    BY <1>0, <1>b, <2>1, <2>5, <2>6, IntactAppend DEF ChainIntact
  <2>8. Alone' /\ Mirror' /\ \A u \in Threads : Step(u)'
    BY <2>1, <2>2, <2>3, <2>4, <2>5 DEF Alone, Mirror, Step
  <2>9. Records' = Records
    BY <2>1, <2>5 DEF Records
  <2> QED
    BY <1>b, <2>5, <2>7, <2>8, <2>9 DEF SerialInv, ChainIntact
<1>5. ASSUME NEW t \in Threads, Return(t) PROVE SerialInv'
  <2>1. op[t].pc = "written" /\ op[t].list = cached /\ cached # Nobody
        /\ file = Append(lists[cached], op[t].rec)
    BY <1>b, <1>5 DEF Return, Step
  <2>2. \A u \in Threads : op'[u].pc = "idle"
    BY <1>0, <1>b, <1>5, <2>1 DEF Return, Alone, Free
  <2>3. lists'[cached] = file
    BY <1>0, <1>5, <2>1 DEF Return
  <2>4. UNCHANGED <<file, cached>> /\ returned' = returned \cup {op[t].rec.id}
    BY <1>5 DEF Return
  <2>5. Records' = file
    BY <2>1, <2>3, <2>4 DEF Records
  <2>6. op[t].rec \in Record /\ lists[cached] \in Seq(Record)
    BY <1>0, <2>1 DEF OpType
  <2>7. Ids(file) = Ids(lists[cached]) \cup {op[t].rec.id}
    BY <2>1, <2>6, IdsAppend
  <2>8. returned' \subseteq Ids(Records')
    BY <1>b, <2>1, <2>4, <2>5, <2>7 DEF Records
  <2>9. Alone' /\ Mirror' /\ \A u \in Threads : Step(u)'
    BY <2>2, <2>3, <2>4 DEF Alone, Mirror, Step
  <2> QED
    BY <1>b, <2>4, <2>5, <2>8, <2>9 DEF SerialInv, ChainIntact, Ids
<1>6. CASE Restart
  <2>1. (\A u \in Threads : op'[u].pc = "idle") /\ cached' = Nobody
    BY <1>6 DEF Restart, Free
  <2>2. UNCHANGED <<file, returned>>
    BY <1>6 DEF Restart
  <2>3. Records' = file
    BY <2>1, <2>2 DEF Records
  <2>4. Alone' /\ Mirror' /\ \A u \in Threads : Step(u)'
    BY <2>1 DEF Alone, Mirror, Step
  <2> QED
    BY <1>b, <2>2, <2>3, <2>4 DEF SerialInv, ChainIntact, RecordKept, Ids
<1>7. CASE UNCHANGED vars
  BY <1>b, <1>7
  DEF vars, SerialInv, Alone, Mirror, Step, ChainIntact, Records
<1> QED
  BY <1>1, <1>2, <1>3, <1>4, <1>5, <1>6, <1>7 DEF Next

LEMMA ChainInit == Init => ChainInv
<1> SUFFICES ASSUME Init PROVE ChainInv
  OBVIOUS
<1>1. \A t \in Threads : op[t].pc = "idle"
  BY DEF Init, Free
<1>2. file = <<>> /\ cached = Nobody /\ returned = {}
  BY DEF Init
<1>3. Intact(file) /\ Records = file
  BY <1>2 DEF Intact, Records
<1>4. KeptInv
  BY <1>1, <1>2, TypedInit DEF KeptInv, RecordKept, WrittenKept
<1>5. Alone /\ Mirror /\ \A t \in Threads : Step(t)
  BY <1>1, <1>2 DEF Alone, Mirror, Step
<1> QED
  BY <1>2, <1>3, <1>4, <1>5 DEF ChainInv, SerialInv, ChainIntact

(* Until two appends have overlapped, the chain on disk and the chain that *)
(* is served verify, wherever the process was restarted, and every record  *)
(* that append returned is among those the log serves (SerialHolds).       *)
THEOREM ChainHolds == Spec => []SerialHolds
<1>1. ChainInv => SerialHolds
  BY DEF ChainInv, SerialInv, SerialHolds, SerialIntact, RecordServed
<1> QED
  BY ChainInit, ChainStep, <1>1, PTL DEF Spec

-----------------------------------------------------------------------------
(* The judge console.                                                      *)

(* What a flow holds when it waits in a step of a run or of a cut-off.     *)
FlowHolds(r) ==
  /\ r.pc \in {"cut", "quote", "order"} => r.token \in Tokens \cup {Sim}
  /\ r.pc \in {"quote", "order"} => r.kind = "run"
  /\ r.pc \in {"cut", "quote", "order"} /\ r.kind = "run" =>
       r.preset \in Presets /\ r.left \in Nat \ {0}

Held == \A f \in Flows : FlowHolds(flow[f])

TypesInv == ConsoleTypes /\ Held

LEMMA BlankTyped == Blank \in RecType /\ NoAnswer.executed = FALSE
BY ConsoleAssumption DEF Blank, RecType, None, NoAnswer, Answer

LEMMA IdleTyped == Idle \in FlowType /\ FlowHolds(Idle)
BY ConsoleAssumption DEF Idle, FlowType, FlowHolds, NoAnswer, Answer, None

(* A row put in front of the ledger.                                       *)
LEMMA ListedTyped ==
  ASSUME NEW d \in RecType, decisions \in Seq(RecType)
  PROVE  /\ Listed(d) \in Seq(RecType)
         /\ Len(Listed(d)) = Len(decisions) + 1
         /\ Listed(d)[1] = d
         /\ \A i \in 2..(Len(decisions) + 1) : Listed(d)[i] = decisions[i - 1]
BY DEF Listed

(* An outcome, shown by a run, has the type of a row.                      *)
LEMMA OutcomeTyped ==
  ASSUME NEW f \in Flows, TypesInv, flow[f].pc = "order"
  PROVE  /\ Outcome(f) \in RecType
         /\ Outcome(f).live <=> ~Lost(f)
         /\ ~Lost(f) => Outcome(f).executed = flow[f].ans.executed
         /\ ~Lost(f) /\ Outcome(f).verdict = "IDEMPOTENT" => flow[f].ans.verdict = "ALLOW"
         /\ Outcome(f).from = flow[f].token
         /\ Outcome(f).preset = flow[f].preset
         /\ Outcome(f).basket = flow[f].left
<1> DEFINE r == flow[f]
           a == IF Lost(f) THEN Expected[r.preset] ELSE r.ans
<1>1. r \in FlowType /\ FlowHolds(r)
  BY DEF TypesInv, ConsoleTypes, Held
<1>2. r.preset \in Presets /\ r.left \in Nat /\ r.token \in Tokens \cup {Sim}
  BY <1>1 DEF FlowHolds
<1>3. /\ a.verdict \in {"ALLOW", "DENY", "IDEMPOTENT", "REVOKED", "cut", "none"}
      /\ a.executed \in BOOLEAN /\ a.stopped \in 0..NParts
  <2>1. CASE Lost(f)
    BY <2>1, <1>2, ConsoleAssumption DEF Presets
  <2>2. CASE ~Lost(f)
    BY <2>2, <1>1 DEF FlowType
  <2> QED
    BY <2>1, <2>2
<1>4. ~Lost(f) => a.verdict # "IDEMPOTENT" /\ a = flow[f].ans
  BY <1>1 DEF FlowType
<1> QED
  BY <1>2, <1>3, <1>4 DEF Outcome, Rec, RecType, Lost

-----------------------------------------------------------------------------
(* Types.                                                                  *)

LEMMA TypesInit == ConsoleInit => TypesInv
<1> SUFFICES ASSUME ConsoleInit PROVE TypesInv
  OBVIOUS
<1>1. Blank \in RecType /\ Idle \in FlowType /\ FlowHolds(Idle)
  BY BlankTyped, IdleTyped
<1>2. flow \in [Flows -> FlowType] /\ Held
  BY <1>1, ConsoleAssumption DEF ConsoleInit, Flows, FlowType, Held, FlowHolds, Idle
<1>3. decisions \in Seq(RecType) /\ results \in [Presets -> RecType]
  BY <1>1 DEF ConsoleInit
<1>4. timers \in [Parts -> Seq(RowState)] /\ clauseRowStates \in [Parts -> RowState]
  BY DEF ConsoleInit, AllIdle, RowState
<1>5. /\ clicks \in 0..MaxClicks /\ resets \in 0..MaxResets /\ issued \in 0..MaxTokens
      /\ revoked \subseteq Tokens /\ placed \cup uncommitted \subseteq Tokens \X Presets \X (Nat \ {0})
  BY ConsoleAssumption DEF ConsoleInit
<1> QED
  BY <1>1, <1>2, <1>3, <1>4, <1>5 DEF ConsoleInit, TypesInv, ConsoleTypes

(* One flow takes a step and keeps its type; the others keep theirs.       *)
LEMMA FlowMoves ==
  ASSUME NEW f \in Flows, NEW r \in FlowType, FlowHolds(r), TypesInv,
         flow' = [flow EXCEPT ![f] = r]
  PROVE  flow' \in [Flows -> FlowType] /\ Held'
BY DEF TypesInv, ConsoleTypes, Held, FlowHolds, Tokens

LEMMA ResetTyped == ASSUME NEW f \in Flows, TypesInv, Reset(f) PROVE TypesInv'
<1> DEFINE r == [Idle EXCEPT !.kind = "open", !.pc = "open"]
<1>1. r \in FlowType /\ FlowHolds(r)
  BY IdleTyped DEF Idle, FlowType, FlowHolds
<1>2. flow' \in [Flows -> FlowType] /\ Held'
  BY <1>1, FlowMoves DEF Reset
<1>3. /\ decisions' \in Seq(RecType) /\ results' \in [Presets -> RecType]
      /\ currentDisplay' \in RecType /\ clauseRowStates' \in [Parts -> RowState]
  BY BlankTyped DEF Reset, AllIdle, RowState
<1>4. resets' \in 0..MaxResets
  BY ConsoleAssumption DEF Reset, TypesInv, ConsoleTypes
<1> QED
  BY <1>2, <1>3, <1>4 DEF Reset, TypesInv, ConsoleTypes, Server, Ledger

LEMMA RunPresetTyped ==
  ASSUME NEW f \in Flows, NEW p \in Presets, TypesInv, RunPreset(f, p) PROVE TypesInv'
<1> DEFINE cut == p \in RevokeFirst /\ ~isRevoked
           r == [Idle EXCEPT !.kind = "run", !.pc = IF cut THEN "cut" ELSE Ask(p),
                             !.token = session, !.preset = p, !.left = Orders[p]]
<1>1. session \in Tokens \cup {Sim} /\ Orders[p] \in Nat \ {0}
  BY ConsoleAssumption DEF RunPreset, CanRun, TypesInv, ConsoleTypes, Presets
<1>2. r \in FlowType /\ FlowHolds(r)
  BY <1>1, IdleTyped DEF Idle, FlowType, FlowHolds, Ask
<1>3. flow' \in [Flows -> FlowType] /\ Held'
  BY <1>2, FlowMoves DEF RunPreset
<1>4. /\ loading' \in BOOLEAN
      /\ currentDisplay' \in RecType /\ clauseRowStates' \in [Parts -> RowState]
  <2>1. CASE cut
    BY <2>1 DEF RunPreset, TypesInv, ConsoleTypes
  <2>2. CASE ~cut
    BY <2>2, BlankTyped DEF RunPreset, Clear, AllIdle, RowState
  <2> QED
    BY <2>1, <2>2
<1> QED
  BY <1>3, <1>4, ConsoleAssumption, SMTT(40) DEF RunPreset, TypesInv, ConsoleTypes, Server, Ledger, Tokens

LEMMA CutOffTyped == ASSUME NEW f \in Flows, TypesInv, CutOff(f) PROVE TypesInv'
<1> DEFINE r == [Idle EXCEPT !.kind = "revoke", !.pc = "cut", !.token = session]
<1>1. r \in FlowType /\ FlowHolds(r)
  BY IdleTyped DEF Idle, FlowType, FlowHolds, CutOff, CanCut, TypesInv, ConsoleTypes
<1>2. flow' \in [Flows -> FlowType] /\ Held'
  BY <1>1, FlowMoves DEF CutOff
<1> QED
  BY <1>2, ConsoleAssumption, SMTT(40) DEF CutOff, TypesInv, ConsoleTypes, Server, Ledger, Shown, Tokens

AnswerType == [verdict : {"ALLOW", "DENY", "cut", "none"},
               executed : BOOLEAN, stopped : 0..NParts]

(* An answer names the limit that refused, which is a set one.             *)
AnswerSound(a) == (a.executed => a.verdict = "ALLOW") /\ a.stopped \notin Unset
FlowOrder(r) == <<r.token, r.preset, r.left>>

(* What the service may answer to an order: typed and sound; bought only   *)
(* with a token that is its own, and executed only when the order was not  *)
(* on the rail.                                                            *)
LEMMA VerdictsTyped ==
  ASSUME NEW f \in Flows, NEW a \in Verdicts(f)
  PROVE  /\ a \in AnswerType /\ AnswerSound(a)
         /\ a.executed \/ a.verdict = "ALLOW" => flow[f].token # Sim
         /\ a.executed => OrderOf(f) \notin placed
         /\ a.verdict = "ALLOW" => a.executed \/ OrderOf(f) \in placed
<1>1. NParts \in Nat /\ 0 \in 0..NParts /\ 0 \notin Unset
  BY ConsoleAssumption
<1>2. ASSUME NEW i \in {0} \cup (Parts \ Unset), a = Answer("DENY", FALSE, i)
      PROVE  a \in AnswerType /\ AnswerSound(a) /\ ~a.executed /\ a.verdict = "DENY"
  <2>1. i \in 0..NParts /\ i \notin Unset
    BY <1>1 DEF Parts
  <2> QED
    BY <1>2, <2>1 DEF Answer, AnswerType, AnswerSound
<1>3. CASE a = NoAnswer
  <2>1. a \in AnswerType /\ AnswerSound(a) /\ ~a.executed /\ a.verdict = "none"
    BY <1>1, <1>3 DEF NoAnswer, Answer, AnswerType, AnswerSound
  <2> QED
    BY <2>1
<1>4. CASE a = Answer("ALLOW", FALSE, 0) /\ flow[f].token # Sim /\ OrderOf(f) \in placed
  <2>1. a \in AnswerType /\ AnswerSound(a) /\ ~a.executed
    BY <1>1, <1>4 DEF Answer, AnswerType, AnswerSound
  <2> QED
    BY <1>4, <2>1
<1>5. CASE a = Answer("ALLOW", TRUE, 0) /\ flow[f].token # Sim /\ OrderOf(f) \notin placed
  <2>1. a \in AnswerType /\ AnswerSound(a) /\ a.executed
    BY <1>1, <1>5 DEF Answer, AnswerType, AnswerSound
  <2> QED
    BY <1>5, <2>1
<1>6. CASE \E i \in {0} \cup (Parts \ Unset) : a = Answer("DENY", FALSE, i)
  <2>1. a \in AnswerType /\ AnswerSound(a) /\ ~a.executed /\ a.verdict = "DENY"
    BY <1>2, <1>6
  <2> QED
    BY <2>1
<1> QED
  BY <1>3, <1>4, <1>5, <1>6 DEF Verdicts

LEMMA SentSound ==
  /\ Answer("DENY", FALSE, 0) \in AnswerType /\ AnswerSound(Answer("DENY", FALSE, 0))
  /\ Answer("cut", FALSE, 0) \in AnswerType /\ AnswerSound(Answer("cut", FALSE, 0))
  /\ NoAnswer \in AnswerType /\ AnswerSound(NoAnswer)
  /\ \A v, i : Answer(v, FALSE, i).executed = FALSE /\ Answer(v, FALSE, i).verdict = v
BY ConsoleAssumption DEF Answer, NoAnswer, AnswerType, AnswerSound

(* The flow of f with another state of its request and another answer.     *)
Got(f, n, a) == [flow[f] EXCEPT !.net = n, !.ans = a]

LEMMA GotTyped ==
  ASSUME NEW f \in Flows, TypesInv, NEW n \in {"heard", "answered", "lost"},
         NEW a \in AnswerType
  PROVE  /\ Got(f, n, a) \in FlowType /\ FlowHolds(Got(f, n, a))
         /\ Got(f, n, a).net = n /\ Got(f, n, a).ans = a /\ Got(f, n, a).pc = flow[f].pc
         /\ FlowOrder(Got(f, n, a)) = FlowOrder(flow[f])
<1>1. flow[f] \in FlowType /\ FlowHolds(flow[f])
  BY DEF TypesInv, ConsoleTypes, Held
<1>2. Got(f, n, a) \in FlowType
  BY <1>1 DEF Got, FlowType, AnswerType
<1>3. /\ Got(f, n, a).net = n /\ Got(f, n, a).ans = a /\ Got(f, n, a).pc = flow[f].pc
      /\ Got(f, n, a).token = flow[f].token /\ Got(f, n, a).preset = flow[f].preset
      /\ Got(f, n, a).left = flow[f].left /\ Got(f, n, a).kind = flow[f].kind
  BY <1>1 DEF Got, FlowType
<1>4. FlowHolds(Got(f, n, a))
  BY <1>1, <1>3 DEF FlowHolds
<1> QED
  BY <1>2, <1>3, <1>4 DEF FlowOrder

LEMMA GotIs ==
  ASSUME NEW f \in Flows, TypesInv, NEW n, NEW a
  PROVE  /\ [flow EXCEPT ![f].net = n, ![f].ans = a] = [flow EXCEPT ![f] = Got(f, n, a)]
         /\ [flow EXCEPT ![f].net = n] = [flow EXCEPT ![f] = Got(f, n, flow[f].ans)]
         /\ flow[f].ans \in AnswerType
<1>1. flow \in [Flows -> FlowType] /\ flow[f] \in FlowType
  BY DEF TypesInv, ConsoleTypes
<1>2. flow[f].ans \in AnswerType
  BY <1>1 DEF FlowType, AnswerType
<1>3. [flow[f] EXCEPT !.net = n] = Got(f, n, flow[f].ans)
  BY <1>1 DEF Got, FlowType
<1> QED
  BY <1>1, <1>2, <1>3 DEF Got

(* A request moves: it is heard, served or lost.  What arrives is sound,   *)
(* it says `bought' only of an order that is then on the rail, and         *)
(* `executed' only of one that was not there before.                       *)
Request(f, n, a) ==
  /\ n \in {"heard", "answered", "lost"} /\ a \in AnswerType
  /\ flow' = [flow EXCEPT ![f] = Got(f, n, a)]
  /\ AnswerSound(a) \/ a = flow[f].ans
  /\ n = "answered" /\ flow[f].pc = "order" =>
       /\ a.executed \/ a.verdict = "ALLOW" => FlowOrder(flow[f]) \in placed'
       /\ a.executed => FlowOrder(flow[f]) \notin placed
  /\ placed \subseteq placed' /\ placed' \subseteq placed \cup {FlowOrder(flow[f])}
  /\ placed' # placed => FlowOrder(flow[f]) \notin placed

LEMMA SendsIs ==
  ASSUME NEW f \in Flows, TypesInv, NEW a \in AnswerType, AnswerSound(a), Sends(f, a),
         flow[f].pc = "order" =>
           /\ a.executed \/ a.verdict = "ALLOW" => FlowOrder(flow[f]) \in placed'
           /\ a.executed => FlowOrder(flow[f]) \notin placed,
         placed' \in {placed, placed \cup {FlowOrder(flow[f])}},
         placed' # placed => FlowOrder(flow[f]) \notin placed
  PROVE  \E n, b : Request(f, n, b)
<1>1. CASE flow' = [flow EXCEPT ![f].net = "answered", ![f].ans = a]
  <2>1. flow' = [flow EXCEPT ![f] = Got(f, "answered", a)]
    <3>1. flow \in [Flows -> FlowType]
      BY DEF TypesInv, ConsoleTypes
    <3> QED
      BY <1>1, <3>1 DEF Got
  <2>2. Request(f, "answered", a)
    <3>1. placed \subseteq placed' /\ placed' \subseteq placed \cup {FlowOrder(flow[f])}
      OBVIOUS
    <3> QED
      BY <2>1, <3>1, Zenon DEF Request
  <2> QED
    BY <2>2
<1>2. CASE flow' = [flow EXCEPT ![f].net = "lost"]
  <2>1. flow' = [flow EXCEPT ![f] = Got(f, "lost", flow[f].ans)] /\ flow[f].ans \in AnswerType
    BY <1>2, GotIs
  <2>2. Request(f, "lost", flow[f].ans)
    BY <2>1 DEF Request
  <2> QED
    BY <2>2
<1> QED
  BY <1>1, <1>2 DEF Sends

LEMMA RequestMoves ==
  ASSUME NEW f \in Flows, TypesInv, Hear(f) \/ Serve(f) \/ Lose(f)
  PROVE  /\ \E n, a : Request(f, n, a)
         /\ UNCHANGED <<session, isRevoked, loading, decisions, results, currentDisplay,
                        clauseRowStates, timers, clicks, resets, issued>>
<1>1. UNCHANGED <<session, isRevoked, loading, decisions, results, currentDisplay,
                  clauseRowStates, timers, clicks, resets, issued>>
  BY DEF Hear, Serve, Lose, Shown, Server
<1>2. CASE Hear(f)
  <2>1. placed' = placed
    BY <1>2 DEF Hear, Server, Ledger
  <2>2. CASE flow[f].token \in revoked
    <3>1. flow' = [flow EXCEPT ![f].net = "answered", ![f].ans = Answer("cut", FALSE, 0)]
      BY <1>2, <2>2 DEF Hear
    <3>2. flow' = [flow EXCEPT ![f] = Got(f, "answered", Answer("cut", FALSE, 0))]
      <4>1. flow \in [Flows -> FlowType]
        BY DEF TypesInv, ConsoleTypes
      <4> QED
        BY <3>1, <4>1 DEF Got
    <3> DEFINE a == Answer("cut", FALSE, 0)
    <3>3. a \in AnswerType /\ AnswerSound(a) /\ a.executed = FALSE /\ a.verdict = "cut"
      BY SentSound
    <3>4. flow' = [flow EXCEPT ![f] = Got(f, "answered", a)]
      BY <3>2
    <3> HIDE DEF a
    <3>5. Request(f, "answered", a)
      BY <2>1, <3>3, <3>4 DEF Request
    <3> QED
      BY <1>1, <3>5
  <2>3. CASE flow[f].token \notin revoked
    <3>1. flow' = [flow EXCEPT ![f].net = "heard", ![f].ans = flow[f].ans]
      BY <1>2, <2>3 DEF Hear, TypesInv, ConsoleTypes
    <3>2. flow' = [flow EXCEPT ![f] = Got(f, "heard", flow[f].ans)] /\ flow[f].ans \in AnswerType
      BY <3>1, GotIs
    <3>3. Request(f, "heard", flow[f].ans)
      BY <2>1, <3>2 DEF Request
    <3> QED
      BY <1>1, <3>3
  <2> QED
    BY <2>2, <2>3
<1>3. CASE Lose(f)
  <2>1. placed' = placed /\ flow' = [flow EXCEPT ![f].net = "lost"]
    BY <1>3 DEF Lose, Server, Ledger
  <2>2. flow' = [flow EXCEPT ![f] = Got(f, "lost", flow[f].ans)] /\ flow[f].ans \in AnswerType
    BY <2>1, GotIs
  <2>3. Request(f, "lost", flow[f].ans)
    BY <2>1, <2>2 DEF Request
  <2> QED
    BY <1>1, <2>3
<1>4. CASE Serve(f)
  <2>0. OrderOf(f) = FlowOrder(flow[f])
    BY DEF OrderOf, FlowOrder
  <2>1. CASE Place(f)
    <3>1. PICK a \in Verdicts(f) :
            /\ Sends(f, a)
            /\ placed' = IF a.executed THEN placed \cup {FlowOrder(flow[f])} ELSE placed
      BY <2>0, <2>1 DEF Place
    <3>2. /\ a \in AnswerType /\ AnswerSound(a)
          /\ a.executed => FlowOrder(flow[f]) \notin placed
          /\ a.verdict = "ALLOW" => a.executed \/ FlowOrder(flow[f]) \in placed
      BY <2>0, VerdictsTyped
    <3>3. a.executed \/ a.verdict = "ALLOW" => FlowOrder(flow[f]) \in placed'
      BY <3>1, <3>2
    <3>4. \E n, b : Request(f, n, b)
      BY <3>1, <3>2, <3>3, SendsIs
    <3> QED
      BY <1>1, <3>4
  <2>2. CASE RailFails(f)
    <3>1. /\ Sends(f, Answer("DENY", FALSE, 0)) /\ FlowOrder(flow[f]) \notin placed
          /\ placed' \in {placed, placed \cup {FlowOrder(flow[f])}}
      BY <2>0, <2>2 DEF RailFails
    <3>2. \E n, b : Request(f, n, b)
      BY <3>1, SentSound, SendsIs
    <3> QED
      BY <1>1, <3>2
  <2>3. CASE flow[f].pc = "cut" /\ CutToken(f) /\ UNCHANGED Ledger
    <3>1. Sends(f, NoAnswer) /\ placed' = placed
      BY <2>3 DEF CutToken, Ledger
    <3>2. \E n, b : Request(f, n, b)
      BY <2>3, <3>1, SentSound, SendsIs
    <3> QED
      BY <1>1, <3>2
  <2> QED
    BY <1>4, <2>1, <2>2, <2>3 DEF Serve
<1> QED
  BY <1>2, <1>3, <1>4

(* Orders are placed, left uncommitted and cut off with tokens of the pool.*)
LEMMA ServerTyped ==
  ASSUME NEW f \in Flows, TypesInv, Hear(f) \/ Serve(f) \/ Lose(f)
  PROVE  /\ revoked' \subseteq Tokens
         /\ placed' \cup uncommitted' \subseteq Tokens \X Presets \X (Nat \ {0})
<1>1. /\ revoked \subseteq Tokens /\ FlowHolds(flow[f])
      /\ placed \cup uncommitted \subseteq Tokens \X Presets \X (Nat \ {0})
  BY DEF TypesInv, ConsoleTypes, Held
<1>2. CASE Hear(f) \/ Lose(f)
  BY <1>1, <1>2 DEF Hear, Lose, Server, Ledger
<1>3. CASE flow[f].pc = "order" /\ (Place(f) \/ RailFails(f)) /\ revoked' = revoked
  <2>1. flow[f].token # Sim => OrderOf(f) \in Tokens \X Presets \X (Nat \ {0})
    <3>1. flow[f].preset \in Presets /\ flow[f].left \in Nat \ {0}
          /\ flow[f].token \in Tokens \cup {Sim}
      BY <1>1, <1>3 DEF FlowHolds
    <3> QED
      BY <3>1 DEF OrderOf
  <2>2. CASE Place(f)
    <3>1. PICK a \in Verdicts(f) :
            placed' = IF a.executed THEN placed \cup {OrderOf(f)} ELSE placed
      BY <2>2 DEF Place
    <3>2. a.executed => flow[f].token # Sim
      BY VerdictsTyped
    <3> QED
      BY <1>1, <1>3, <2>1, <2>2, <3>1, <3>2 DEF Place
  <2>3. CASE RailFails(f)
    BY <1>1, <1>3, <2>1, <2>3 DEF RailFails
  <2> QED
    BY <1>3, <2>2, <2>3
<1>4. CASE flow[f].pc = "cut" /\ CutToken(f) /\ UNCHANGED Ledger
  <2>1. flow[f].token \in Tokens \cup {Sim}
    BY <1>1, <1>4 DEF FlowHolds
  <2> QED
    BY <1>1, <1>4, <2>1 DEF CutToken, Ledger
<1> QED
  BY <1>2, <1>3, <1>4 DEF Serve

LEMMA RequestTyped ==
  ASSUME NEW f \in Flows, TypesInv, Hear(f) \/ Serve(f) \/ Lose(f) PROVE TypesInv'
<1>1. PICK n, a : Request(f, n, a)
  BY RequestMoves
<1>2. flow' \in [Flows -> FlowType] /\ Held'
  BY <1>1, GotTyped, FlowMoves DEF Request
<1>3. UNCHANGED <<session, isRevoked, loading, decisions, results, currentDisplay,
                  clauseRowStates, timers, clicks, resets, issued>>
  BY RequestMoves
<1>4. /\ revoked' \subseteq Tokens
      /\ placed' \cup uncommitted' \subseteq Tokens \X Presets \X (Nat \ {0})
  BY ServerTyped
<1> QED
  BY <1>2, <1>3, <1>4 DEF TypesInv, ConsoleTypes

LEMMA OpenedTyped == ASSUME NEW f \in Flows, TypesInv, Opened(f) PROVE TypesInv'
<1>1. flow' \in [Flows -> FlowType] /\ Held'
  BY IdleTyped, FlowMoves DEF Opened
<1>2. session' \in Tokens \cup {None, Sim} /\ issued' \in 0..MaxTokens
  BY ConsoleAssumption DEF Opened, TypesInv, ConsoleTypes, Tokens
<1> QED
  BY <1>1, <1>2 DEF Opened, TypesInv, ConsoleTypes, Shown, Ledger

(* The row of a cut-off.                                                   *)
LEMMA CutRow ==
  ASSUME NEW f \in Flows, TypesInv, flow[f].pc = "cut"
  PROVE  Rec("REVOKED", FALSE, ~Lost(f), 0, flow[f].token, "none", 0) \in RecType
BY ConsoleAssumption
DEF TypesInv, ConsoleTypes, Held, FlowHolds, Rec, RecType, Lost

LEMMA RevokedTyped == ASSUME NEW f \in Flows, TypesInv, Revoked(f) PROVE TypesInv'
<1> DEFINE r == flow[f]
           d == Rec("REVOKED", FALSE, ~Lost(f), 0, r.token, "none", 0)
           asks == [r EXCEPT !.pc = Ask(r.preset), !.net = "sent"]
<1>1. r \in FlowType /\ FlowHolds(r) /\ r.pc = "cut"
  BY DEF TypesInv, ConsoleTypes, Held, Revoked, Arrived
<1>2. d \in RecType
  BY <1>1, CutRow
<1>3. isRevoked' = TRUE /\ decisions' \in Seq(RecType)
  BY <1>2, ListedTyped DEF Revoked, TypesInv, ConsoleTypes
<1>4. CASE r.kind = "run"
  <2>1. asks \in FlowType /\ FlowHolds(asks)
    BY <1>1, <1>4 DEF FlowType, FlowHolds, Ask
  <2>2. flow' = [flow EXCEPT ![f] = asks]
    BY <1>4 DEF Revoked, TypesInv, ConsoleTypes
  <2>3. flow' \in [Flows -> FlowType] /\ Held'
    BY <2>1, <2>2, FlowMoves
  <2>4. /\ loading' \in BOOLEAN /\ currentDisplay' \in RecType
        /\ clauseRowStates' \in [Parts -> RowState]
    BY <1>4, BlankTyped DEF Revoked, Clear, AllIdle, RowState
  <2> QED
    BY <1>3, <2>3, <2>4 DEF Revoked, TypesInv, ConsoleTypes, Server, Ledger
<1>5. CASE r.kind # "run"
  <2>1. flow' \in [Flows -> FlowType] /\ Held'
    BY <1>5, IdleTyped, FlowMoves DEF Revoked
  <2>2. /\ loading' \in BOOLEAN /\ currentDisplay' \in RecType
        /\ clauseRowStates' \in [Parts -> RowState]
    BY <1>2, <1>5 DEF Revoked, RowState, TypesInv, ConsoleTypes
  <2> QED
    BY <1>3, <2>1, <2>2 DEF Revoked, TypesInv, ConsoleTypes, Server, Ledger
<1> QED
  BY <1>4, <1>5

LEMMA QuotedTyped == ASSUME NEW f \in Flows, TypesInv, Quoted(f) PROVE TypesInv'
<1> DEFINE r == [flow[f] EXCEPT !.pc = "order", !.net = "sent"]
<1>1. r \in FlowType /\ FlowHolds(r)
  BY ZenonT(40) DEF TypesInv, ConsoleTypes, Held, FlowType, FlowHolds, Quoted
<1>2. flow' = [flow EXCEPT ![f] = r]
  BY DEF Quoted, TypesInv, ConsoleTypes
<1>3. flow' \in [Flows -> FlowType] /\ Held'
  BY <1>1, <1>2, FlowMoves
<1> QED
  BY <1>3 DEF Quoted, TypesInv, ConsoleTypes, Shown, Server, Ledger

LEMMA FinishTyped == ASSUME NEW f \in Flows, TypesInv, Finish(f) PROVE TypesInv'
<1> DEFINE r == flow[f]
           d == Outcome(f)
           asks == [r EXCEPT !.pc = Ask(r.preset), !.net = "sent", !.left = @ - 1,
                             !.ans = NoAnswer]
<1>1. r \in FlowType /\ FlowHolds(r) /\ r.pc = "order"
  BY DEF TypesInv, ConsoleTypes, Held, Finish, Arrived
<1>2. d \in RecType
  BY <1>1, OutcomeTyped
<1>3. decisions' \in Seq(RecType)
  BY <1>2, ListedTyped DEF Finish, TypesInv, ConsoleTypes
<1>4. results' \in [Presets -> RecType]
  BY <1>2 DEF Finish, TypesInv, ConsoleTypes
<1>5. timers' \in [Parts -> Seq(RowState)]
  <2>1. \A i \in Parts : Colour(d, i) \in RowState
    BY DEF Colour, RowState
  <2> QED
    BY <2>1 DEF Finish, TypesInv, ConsoleTypes
<1>6. CASE r.left > 1
  <2>1. asks \in FlowType /\ FlowHolds(asks)
    <3>1. NoAnswer \in [verdict : {"ALLOW", "DENY", "cut", "none"},
                         executed : BOOLEAN, stopped : 0..NParts]
      BY ConsoleAssumption DEF NoAnswer, Answer
    <3>2. Ask(r.preset) \in {"quote", "order"} /\ r.left - 1 \in Nat \ {0}
      BY <1>1, <1>6 DEF Ask, FlowHolds
    <3>3. r.kind = "run" /\ r.preset \in Presets /\ r.token \in Tokens \cup {Sim}
      BY <1>1 DEF FlowHolds
    <3> QED
      BY <1>1, <3>1, <3>2, <3>3 DEF FlowType, FlowHolds
  <2>2. flow' = [flow EXCEPT ![f] = asks]
    BY <1>6 DEF Finish, TypesInv, ConsoleTypes
  <2>3. flow' \in [Flows -> FlowType] /\ Held'
    BY <2>1, <2>2, FlowMoves
  <2>4. /\ loading' \in BOOLEAN /\ currentDisplay' \in RecType
        /\ clauseRowStates' \in [Parts -> RowState]
    BY <1>6, BlankTyped DEF Finish, AllIdle, RowState
  <2> QED
    BY <1>3, <1>4, <1>5, <2>3, <2>4 DEF Finish, TypesInv, ConsoleTypes, Server, Ledger
<1>7. CASE ~(r.left > 1)
  <2>1. flow' \in [Flows -> FlowType] /\ Held'
    BY <1>7, IdleTyped, FlowMoves DEF Finish
  <2>2. /\ loading' \in BOOLEAN /\ currentDisplay' \in RecType
        /\ clauseRowStates' \in [Parts -> RowState]
    BY <1>2, <1>7 DEF Finish, TypesInv, ConsoleTypes
  <2> QED
    BY <1>3, <1>4, <1>5, <2>1, <2>2 DEF Finish, TypesInv, ConsoleTypes, Server, Ledger
<1> QED
  BY <1>6, <1>7

LEMMA PaintTyped == ASSUME NEW i \in Parts, TypesInv, Paint(i) PROVE TypesInv'
<1>1. timers[i] \in Seq(RowState) /\ timers[i] # <<>>
  BY DEF TypesInv, ConsoleTypes, Paint
<1>2. Head(timers[i]) \in RowState /\ Tail(timers[i]) \in Seq(RowState)
  BY <1>1
<1>3. /\ clauseRowStates' \in [Parts -> RowState]
      /\ timers' \in [Parts -> Seq(RowState)]
  BY <1>2 DEF Paint, TypesInv, ConsoleTypes
<1> QED
  BY <1>3 DEF Paint, TypesInv, ConsoleTypes, Server, Ledger, Held, FlowHolds

LEMMA TypesStep == TypesInv /\ [ConsoleNext]_consoleVars => TypesInv'
<1> SUFFICES ASSUME TypesInv, [ConsoleNext]_consoleVars PROVE TypesInv'
  OBVIOUS
<1>1. ASSUME NEW f \in Flows, Click(f) PROVE TypesInv'
  BY <1>1, ResetTyped, CutOffTyped, RunPresetTyped DEF Click
<1>2. ASSUME NEW f \in Flows, Hear(f) \/ Serve(f) \/ Lose(f) PROVE TypesInv'
  BY <1>2, RequestTyped
<1>3. ASSUME NEW f \in Flows, Continue(f) PROVE TypesInv'
  BY <1>3, OpenedTyped, RevokedTyped, QuotedTyped, FinishTyped DEF Continue
<1>4. ASSUME NEW i \in Parts, Paint(i) PROVE TypesInv'
  BY <1>4, PaintTyped
<1>5. CASE UNCHANGED consoleVars
  BY <1>5 DEF consoleVars, TypesInv, ConsoleTypes, Held, FlowHolds
<1> QED
  BY <1>1, <1>2, <1>3, <1>4, <1>5 DEF ConsoleNext

(* The page with no fairness: whatever the network withholds.              *)
ConsoleMoves == ConsoleInit /\ [][ConsoleNext]_consoleVars

(* The page's state, its flows and the service keep their types, for any   *)
(* presets, limits and bounds (ConsoleTypes).                              *)
THEOREM ConsoleTyped == ConsoleMoves => []ConsoleTypes
<1>1. TypesInv => ConsoleTypes
  BY DEF TypesInv
<1> QED
  BY TypesInit, TypesStep, <1>1, PTL DEF ConsoleMoves

-----------------------------------------------------------------------------
(* The banner of simulated outcomes.                                       *)

(* A row put in front of the ledger takes no row away.                     *)
LEMMA BannerStays ==
  ASSUME TypesInv, NEW d \in RecType, decisions' = Listed(d)
  PROVE  /\ AnySimulated => AnySimulated'
         /\ ~d.live => AnySimulated'
<1>1. decisions \in Seq(RecType)
  BY DEF TypesInv, ConsoleTypes
<1>2. /\ Len(decisions') = Len(decisions) + 1 /\ decisions' \in Seq(RecType)
      /\ decisions'[1] = d
      /\ \A i \in 2..(Len(decisions) + 1) : decisions'[i] = decisions[i - 1]
  BY <1>1, ListedTyped
<1>3. ASSUME AnySimulated PROVE AnySimulated'
  <2>1. PICK i \in DOMAIN decisions : ~decisions[i].live
    BY <1>3 DEF AnySimulated
  <2>2. i + 1 \in DOMAIN decisions' /\ decisions'[i + 1] = decisions[i]
    BY <1>1, <1>2, <2>1
  <2> QED
    BY <2>1, <2>2 DEF AnySimulated
<1>4. ASSUME ~d.live PROVE AnySimulated'
  <2>1. 1 \in DOMAIN decisions'
    BY <1>1, <1>2
  <2> QED
    BY <1>2, <1>4, <2>1 DEF AnySimulated
<1> QED
  BY <1>3, <1>4

LEMMA SaidInit == ConsoleInit => SimulatedSaid
BY DEF ConsoleInit, SimulatedSaid, Blank, Presets

LEMMA SaidStep ==
  TypesInv /\ SimulatedSaid /\ [ConsoleNext]_consoleVars => SimulatedSaid'
<1> SUFFICES ASSUME TypesInv, SimulatedSaid, [ConsoleNext]_consoleVars
             PROVE  SimulatedSaid'
  OBVIOUS
<1>0. Blank.live = TRUE
  BY DEF Blank
<1>1. ASSUME NEW f \in Flows, Reset(f) PROVE SimulatedSaid'
  BY <1>0, <1>1 DEF Reset, SimulatedSaid
<1>2. ASSUME NEW f \in Flows, NEW p \in Presets, RunPreset(f, p) PROVE SimulatedSaid'
  BY <1>0, <1>2 DEF RunPreset, Clear, SimulatedSaid, AnySimulated
<1>3. ASSUME UNCHANGED <<decisions, results, currentDisplay>> PROVE SimulatedSaid'
  BY <1>3 DEF SimulatedSaid, AnySimulated
<1>4. ASSUME NEW f \in Flows, Revoked(f) PROVE SimulatedSaid'
  <2> DEFINE d == Rec("REVOKED", FALSE, ~Lost(f), 0, flow[f].token, "none", 0)
  <2>1. d \in RecType
    BY <1>4, CutRow DEF Revoked, Arrived
  <2>2. decisions' = Listed(d) /\ results' = results
    BY <1>4 DEF Revoked
  <2>3. currentDisplay' = Blank \/ currentDisplay' = d
    BY <1>4 DEF Revoked, Clear
  <2>4. (AnySimulated => AnySimulated') /\ (~d.live => AnySimulated')
    BY <2>1, <2>2, BannerStays
  <2> HIDE DEF d
  <2> QED
    BY <1>0, <2>2, <2>3, <2>4 DEF SimulatedSaid
<1>5. ASSUME NEW f \in Flows, Finish(f) PROVE SimulatedSaid'
  <2> DEFINE d == Outcome(f)
  <2>1. d \in RecType
    BY <1>5, OutcomeTyped DEF Finish, Arrived
  <2>2. decisions' = Listed(d) /\ results' = [results EXCEPT ![flow[f].preset] = d]
    BY <1>5 DEF Finish
  <2>3. currentDisplay' = Blank \/ currentDisplay' = d
    BY <1>5 DEF Finish
  <2>4. (AnySimulated => AnySimulated') /\ (~d.live => AnySimulated')
    BY <2>1, <2>2, BannerStays
  <2>5. \A p \in Presets : results'[p] = results[p] \/ results'[p] = d
    BY <2>2 DEF TypesInv, ConsoleTypes
  <2> HIDE DEF d
  <2> QED
    BY <1>0, <2>3, <2>4, <2>5 DEF SimulatedSaid
<1>6. CASE UNCHANGED consoleVars
  BY <1>3, <1>6 DEF consoleVars
<1>7. ASSUME NEW f \in Flows, CutOff(f) \/ Opened(f) \/ Quoted(f) PROVE SimulatedSaid'
  BY <1>3, <1>7 DEF CutOff, Opened, Quoted, Shown
<1>9. ASSUME NEW f \in Flows, Hear(f) \/ Serve(f) \/ Lose(f) PROVE SimulatedSaid'
  BY <1>3, <1>9, RequestMoves
<1>8. ASSUME NEW i \in Parts, Paint(i) PROVE SimulatedSaid'
  BY <1>3, <1>8 DEF Paint
<1> QED
  BY <1>1, <1>2, <1>4, <1>5, <1>6, <1>7, <1>8, <1>9 DEF ConsoleNext, Click, Continue

(* Whatever the page shows that the gateway did not answer, in the panel   *)
(* or on a preset's chip, stands under the banner.                         *)
THEOREM SaidSimulated == ConsoleMoves => []SimulatedSaid
BY TypesInit, TypesStep, SaidInit, SaidStep, PTL DEF ConsoleMoves

-----------------------------------------------------------------------------
(* Live rows and the rail.                                                 *)

(* A row of an order that went through, and a flow that has such an answer *)
(* and has not shown it yet.                                               *)
Through(d) == d.live /\ d.executed
Answered(r) == r.pc = "order" /\ r.net = "answered" /\ r.ans.executed
RowOrder(d) == <<d.from, d.preset, d.basket>>

RowsProduced ==
  /\ \A i \in DOMAIN decisions : Through(decisions[i]) => RowOrder(decisions[i]) \in placed
  /\ \A i, j \in DOMAIN decisions :
       Through(decisions[i]) /\ Through(decisions[j])
         /\ RowOrder(decisions[i]) = RowOrder(decisions[j]) => i = j

(* An answer is shown once: its order is placed, no row has it yet, and no *)
(* other flow has it.                                                      *)
AnswersFresh ==
  /\ \A f \in Flows : Answered(flow[f]) =>
       /\ FlowOrder(flow[f]) \in placed
       /\ \A i \in DOMAIN decisions :
            Through(decisions[i]) => RowOrder(decisions[i]) # FlowOrder(flow[f])
  /\ \A f, g \in Flows :
       Answered(flow[f]) /\ Answered(flow[g]) /\ FlowOrder(flow[f]) = FlowOrder(flow[g])
         => f = g

ProducedInv == RowsProduced /\ AnswersFresh

LEMMA ProducedInit == ConsoleInit => ProducedInv
BY DEF ConsoleInit, ProducedInv, RowsProduced, AnswersFresh, Answered, Idle, Flows

(* A flow moves to a step in which it has no answer; rows and orders stay. *)
LEMMA FlowQuiet ==
  ASSUME TypesInv, ProducedInv, NEW f \in Flows, NEW r, ~Answered(r),
         flow' = [flow EXCEPT ![f] = r], decisions' = decisions, placed \subseteq placed'
  PROVE  ProducedInv'
<1>1. \A g \in Flows : flow'[g] = IF g = f THEN r ELSE flow[g]
  BY DEF TypesInv, ConsoleTypes
<1>2. RowsProduced'
  BY DEF ProducedInv, RowsProduced
<1>3. \A g \in Flows : Answered(flow'[g]) => g # f /\ flow'[g] = flow[g]
  BY <1>1
<1>4. AnswersFresh'
  BY <1>3 DEF ProducedInv, AnswersFresh
<1> QED
  BY <1>2, <1>4 DEF ProducedInv

LEMMA ClickProduced ==
  ASSUME TypesInv, ProducedInv, NEW f \in Flows, Click(f) PROVE ProducedInv'
<1>1. CASE Reset(f)
  <2>1. \A g \in Flows : Answered(flow'[g]) => Answered(flow[g]) /\ flow'[g] = flow[g]
    BY <1>1 DEF Reset, Idle, Answered, TypesInv, ConsoleTypes
  <2>2. decisions' = <<>> /\ placed' = placed
    BY <1>1 DEF Reset, Server, Ledger
  <2> QED
    BY <2>1, <2>2 DEF ProducedInv, RowsProduced, AnswersFresh
<1>2. CASE CutOff(f)
  <2> DEFINE r == [Idle EXCEPT !.kind = "revoke", !.pc = "cut", !.token = session]
  <2>1. ~Answered(r)
    BY DEF Idle, Answered
  <2>2. flow' = [flow EXCEPT ![f] = r] /\ UNCHANGED <<decisions, placed>>
    BY <1>2 DEF CutOff, Shown, Server, Ledger
  <2> QED
    BY <2>1, <2>2, FlowQuiet
<1>3. ASSUME NEW p \in Presets, RunPreset(f, p) PROVE ProducedInv'
  <2> DEFINE cut == p \in RevokeFirst /\ ~isRevoked
             r == [Idle EXCEPT !.kind = "run", !.pc = IF cut THEN "cut" ELSE Ask(p),
                               !.token = session, !.preset = p, !.left = Orders[p]]
  <2>1. ~Answered(r)
    BY DEF Idle, Answered
  <2>2. flow' = [flow EXCEPT ![f] = r] /\ UNCHANGED <<decisions, placed>>
    BY <1>3 DEF RunPreset, Server, Ledger
  <2> QED
    BY <2>1, <2>2, FlowQuiet
<1> QED
  BY <1>1, <1>2, <1>3 DEF Click

LEMMA RequestProduced ==
  ASSUME TypesInv, ProducedInv, NEW f \in Flows, Hear(f) \/ Serve(f) \/ Lose(f)
  PROVE  ProducedInv'
<1>1. PICK n, a : Request(f, n, a)
  BY RequestMoves
<1>2. decisions' = decisions /\ placed \subseteq placed'
  BY <1>1, RequestMoves DEF Request
<1> DEFINE r == Got(f, n, a)
<1>3. /\ flow' = [flow EXCEPT ![f] = r]
      /\ r.net = n /\ r.ans = a /\ r.pc = flow[f].pc /\ FlowOrder(r) = FlowOrder(flow[f])
  BY <1>1, GotTyped DEF Request
<1> HIDE DEF r
<1>4. CASE ~Answered(r)
  BY <1>2, <1>3, <1>4, FlowQuiet
<1>5. CASE Answered(r)
  <2>1. FlowOrder(flow[f]) \notin placed /\ FlowOrder(flow[f]) \in placed'
    BY <1>1, <1>3, <1>5 DEF Answered, Request
  <2>2. \A g \in Flows : flow'[g] = IF g = f THEN r ELSE flow[g]
    BY <1>3 DEF TypesInv, ConsoleTypes
  <2>3. RowsProduced'
    BY <1>2 DEF ProducedInv, RowsProduced
  <2>4. \A i \in DOMAIN decisions :
          Through(decisions[i]) => RowOrder(decisions[i]) # FlowOrder(flow[f])
    BY <2>1 DEF ProducedInv, RowsProduced
  <2>5. \A g \in Flows \ {f} :
          /\ flow'[g] = flow[g]
          /\ Answered(flow[g]) => FlowOrder(flow[g]) # FlowOrder(flow[f])
    BY <2>1, <2>2 DEF ProducedInv, AnswersFresh
  <2>6. FlowOrder(flow'[f]) = FlowOrder(flow[f])
    BY <1>3, <2>2
  <2>7. AnswersFresh'
    BY <1>2, <2>1, <2>4, <2>5, <2>6 DEF ProducedInv, AnswersFresh
  <2> QED
    BY <2>3, <2>7 DEF ProducedInv
<1> QED
  BY <1>4, <1>5

(* Each row of the longer ledger is the new one or an old one.             *)
LEMMA ListedRows ==
  ASSUME TypesInv, NEW d \in RecType, decisions' = Listed(d)
  PROVE  \A i \in DOMAIN decisions' :
           decisions'[i] = d \/ \E j \in DOMAIN decisions : decisions'[i] = decisions[j]
<1>1. decisions \in Seq(RecType)
  BY DEF TypesInv, ConsoleTypes
<1>2. /\ DOMAIN decisions' = 1..(Len(decisions) + 1) /\ DOMAIN decisions = 1..Len(decisions)
      /\ decisions'[1] = d /\ Len(decisions) \in Nat
      /\ \A i \in 2..(Len(decisions) + 1) : decisions'[i] = decisions[i - 1]
  BY <1>1, ListedTyped
<1>3. \A i \in DOMAIN decisions' :
        i = 1 \/ (i - 1 \in DOMAIN decisions /\ decisions'[i] = decisions[i - 1])
  BY <1>2
<1> QED
  BY <1>2, <1>3

(* A row is put in front: one that did not go through, or one whose order  *)
(* is placed and in no row.                                                *)
LEMMA RowAdded ==
  ASSUME TypesInv, RowsProduced, NEW d \in RecType, decisions' = Listed(d), placed' = placed,
         Through(d) => /\ RowOrder(d) \in placed
                       /\ \A i \in DOMAIN decisions :
                            Through(decisions[i]) => RowOrder(decisions[i]) # RowOrder(d)
  PROVE  /\ RowsProduced'
         /\ \A i \in DOMAIN decisions' :
              decisions'[i] = d \/ \E j \in DOMAIN decisions : decisions'[i] = decisions[j]
<1>1. decisions \in Seq(RecType)
  BY DEF TypesInv, ConsoleTypes
<1>2. /\ DOMAIN decisions' = 1..(Len(decisions) + 1) /\ DOMAIN decisions = 1..Len(decisions)
      /\ decisions'[1] = d /\ Len(decisions) \in Nat
      /\ \A i \in 2..(Len(decisions) + 1) : decisions'[i] = decisions[i - 1]
  BY <1>1, ListedTyped
<1>3. \A i \in DOMAIN decisions' :
        i = 1 \/ (i - 1 \in DOMAIN decisions /\ decisions'[i] = decisions[i - 1])
  BY <1>2
<1>4. \A i \in DOMAIN decisions' : Through(decisions'[i]) => RowOrder(decisions'[i]) \in placed
  BY <1>2, <1>3 DEF RowsProduced
<1>5. ASSUME NEW i \in DOMAIN decisions', NEW j \in DOMAIN decisions',
             Through(decisions'[i]), Through(decisions'[j]),
             RowOrder(decisions'[i]) = RowOrder(decisions'[j])
      PROVE  i = j
  <2>1. CASE i = 1 \/ j = 1
    BY <1>2, <1>3, <1>5, <2>1
  <2>2. CASE i # 1 /\ j # 1
    <3>1. i - 1 = j - 1
      BY <1>3, <1>5, <2>2 DEF RowsProduced
    <3> QED
      BY <1>2, <3>1
  <2> QED
    BY <2>1, <2>2
<1> QED
  BY <1>2, <1>3, <1>4, <1>5 DEF RowsProduced

LEMMA RevokedProduced ==
  ASSUME TypesInv, ProducedInv, NEW f \in Flows, Revoked(f) PROVE ProducedInv'
<1> DEFINE d == Rec("REVOKED", FALSE, ~Lost(f), 0, flow[f].token, "none", 0)
<1>1. d \in RecType /\ ~Through(d)
  BY CutRow DEF Revoked, Arrived, Through, Rec
<1>2. decisions' = Listed(d) /\ placed' = placed
  BY DEF Revoked, Server, Ledger
<1> HIDE DEF d
<1>3. /\ RowsProduced'
      /\ \A i \in DOMAIN decisions' :
           decisions'[i] = d \/ \E j \in DOMAIN decisions : decisions'[i] = decisions[j]
  BY <1>1, <1>2, RowAdded DEF ProducedInv
<1>4. \A g \in Flows : Answered(flow'[g]) => flow'[g] = flow[g]
  <2>1. flow[f] \in FlowType /\ flow \in [Flows -> FlowType]
    BY DEF TypesInv, ConsoleTypes
  <2>2. \/ flow' = [flow EXCEPT ![f] = Idle]
        \/ flow' = [flow EXCEPT ![f].pc = Ask(flow[f].preset), ![f].net = "sent"]
    BY DEF Revoked
  <2>3. ~Answered(Idle) /\ ~Answered([flow[f] EXCEPT !.pc = Ask(flow[f].preset),
                                                    !.net = "sent"])
    BY <2>1 DEF Answered, Idle, FlowType
  <2>4. ~Answered(flow'[f])
    BY <2>1, <2>2, <2>3
  <2>5. \A g \in Flows \ {f} : flow'[g] = flow[g]
    BY <2>1, <2>2
  <2> QED
    BY <2>4, <2>5
<1>5. AnswersFresh'
  BY <1>1, <1>2, <1>3, <1>4 DEF ProducedInv, AnswersFresh
<1> QED
  BY <1>3, <1>5 DEF ProducedInv

LEMMA FinishProduced ==
  ASSUME TypesInv, ProducedInv, NEW f \in Flows, Finish(f) PROVE ProducedInv'
<1> DEFINE d == Outcome(f)
<1>1. /\ d \in RecType /\ RowOrder(d) = FlowOrder(flow[f])
      /\ Through(d) => Answered(flow[f])
  BY OutcomeTyped
  DEF Finish, Arrived, Lost, Answered, Through, RowOrder, FlowOrder, TypesInv,
      ConsoleTypes, FlowType
<1>2. decisions' = Listed(d) /\ placed' = placed
  BY DEF Finish, Server, Ledger
<1>3. Through(d) => /\ RowOrder(d) \in placed
                    /\ \A i \in DOMAIN decisions :
                         Through(decisions[i]) => RowOrder(decisions[i]) # RowOrder(d)
  BY <1>1 DEF ProducedInv, AnswersFresh
<1>4. \A g \in Flows : Answered(flow'[g]) => g # f /\ flow'[g] = flow[g]
  BY DEF Finish, Answered, Idle, TypesInv, ConsoleTypes, FlowType
<1> HIDE DEF d
<1>5. /\ RowsProduced'
      /\ \A i \in DOMAIN decisions' :
           decisions'[i] = d \/ \E j \in DOMAIN decisions : decisions'[i] = decisions[j]
  BY <1>1, <1>2, <1>3, RowAdded DEF ProducedInv
<1>6. \A g \in Flows : Answered(flow'[g]) /\ Through(d) => FlowOrder(flow[g]) # RowOrder(d)
  BY <1>1, <1>4 DEF ProducedInv, AnswersFresh
<1>7. AnswersFresh'
  BY <1>2, <1>4, <1>5, <1>6 DEF ProducedInv, AnswersFresh
<1> QED
  BY <1>5, <1>7 DEF ProducedInv

LEMMA ProducedStep ==
  TypesInv /\ ProducedInv /\ [ConsoleNext]_consoleVars => ProducedInv'
<1> SUFFICES ASSUME TypesInv, ProducedInv, [ConsoleNext]_consoleVars PROVE ProducedInv'
  OBVIOUS
<1>2. ASSUME NEW f \in Flows, Opened(f) PROVE ProducedInv'
  <2>1. flow' = [flow EXCEPT ![f] = Idle] /\ UNCHANGED <<decisions, placed>>
    BY <1>2 DEF Opened, Shown, Ledger
  <2> QED
    BY <2>1, FlowQuiet DEF Answered, Idle
<1>3. ASSUME NEW f \in Flows, Quoted(f) PROVE ProducedInv'
  <2> DEFINE r == [flow[f] EXCEPT !.pc = "order", !.net = "sent"]
  <2>1. flow' = [flow EXCEPT ![f] = r] /\ UNCHANGED <<decisions, placed>>
    BY <1>3 DEF Quoted, Shown, Server, Ledger, TypesInv, ConsoleTypes
  <2>2. ~Answered(r)
    BY DEF Answered, TypesInv, ConsoleTypes, FlowType
  <2> QED
    BY <2>1, <2>2, FlowQuiet
<1>4. ASSUME UNCHANGED <<flow, decisions, placed>> PROVE ProducedInv'
  BY <1>4 DEF ProducedInv, RowsProduced, AnswersFresh
<1>5. ASSUME NEW i \in Parts, Paint(i) PROVE ProducedInv'
  BY <1>4, <1>5 DEF Paint, Server, Ledger
<1>6. CASE UNCHANGED consoleVars
  BY <1>4, <1>6 DEF consoleVars
<1> QED
  BY <1>2, <1>3, <1>5, <1>6, ClickProduced, RequestProduced, RevokedProduced,
     FinishProduced DEF ConsoleNext, Continue

(* An outcome that says its order is on the rail, now or before; and a     *)
(* flow with the answer of one.                                            *)
Bought(d) == d.live /\ (d.executed \/ d.verdict = "IDEMPOTENT")
Owned(r) == /\ r.pc = "order" /\ r.net = "answered"
            /\ r.ans.executed \/ r.ans.verdict = "ALLOW"

(* What the rows, the panel and the chips say was bought is on the rail,   *)
(* and so is what an answer under way says.                                *)
ShownInv ==
  /\ \A f \in Flows : Owned(flow[f]) => FlowOrder(flow[f]) \in placed
  /\ \A i \in DOMAIN decisions : Bought(decisions[i]) => RowOrder(decisions[i]) \in placed
  /\ \A p \in Presets : Bought(results[p]) => RowOrder(results[p]) \in placed
  /\ Bought(currentDisplay) => RowOrder(currentDisplay) \in placed

LEMMA ShownInit == ConsoleInit => ShownInv
BY DEF ConsoleInit, ShownInv, Bought, Owned, Blank, Idle, Flows

(* Orders stay on the rail; an outcome put on screen does not say its      *)
(* order was bought, or the order is there, and so with an answer.         *)
LEMMA ShownStays ==
  ASSUME ShownInv, placed \subseteq placed', NEW d, Bought(d) => RowOrder(d) \in placed',
         \A i \in DOMAIN decisions' :
           decisions'[i] = d \/ \E j \in DOMAIN decisions : decisions'[i] = decisions[j],
         \A p \in Presets : results'[p] = results[p] \/ results'[p] = d,
         currentDisplay' = currentDisplay \/ currentDisplay' = d \/ currentDisplay' = Blank,
         \A g \in Flows : Owned(flow'[g]) =>
           flow'[g] = flow[g] \/ FlowOrder(flow'[g]) \in placed'
  PROVE  ShownInv'
<1>1. ~Bought(Blank)
  BY DEF Bought, Blank
<1>2. \A p \in Presets : Bought(results'[p]) => RowOrder(results'[p]) \in placed'
  BY DEF ShownInv
<1>3. Bought(currentDisplay') => RowOrder(currentDisplay') \in placed'
  BY <1>1 DEF ShownInv
<1>4. \A i \in DOMAIN decisions' : Bought(decisions'[i]) => RowOrder(decisions'[i]) \in placed'
  BY DEF ShownInv
<1>5. \A g \in Flows : Owned(flow'[g]) => FlowOrder(flow'[g]) \in placed'
  BY DEF ShownInv
<1> QED
  BY <1>2, <1>3, <1>4, <1>5 DEF ShownInv, Bought, RowOrder, Owned, FlowOrder

(* One flow moves to a step in which it has no such answer.                *)
LEMMA OthersOwn ==
  ASSUME TypesInv, NEW f \in Flows, NEW r, ~Owned(r), flow' = [flow EXCEPT ![f] = r]
  PROVE  \A g \in Flows : Owned(flow'[g]) => flow'[g] = flow[g]
<1>1. \A g \in Flows : flow'[g] = IF g = f THEN r ELSE flow[g]
  BY DEF TypesInv, ConsoleTypes
<1> QED
  BY <1>1

LEMMA ClickOwns ==
  ASSUME TypesInv, NEW f \in Flows, Click(f)
  PROVE  \A g \in Flows : Owned(flow'[g]) => flow'[g] = flow[g]
<1>1. CASE Reset(f)
  <2> DEFINE r == [Idle EXCEPT !.kind = "open", !.pc = "open"]
  <2>1. ~Owned(r) /\ flow' = [flow EXCEPT ![f] = r]
    BY <1>1 DEF Reset, Idle, Owned
  <2> QED
    BY <2>1, OthersOwn
<1>2. CASE CutOff(f)
  <2> DEFINE r == [Idle EXCEPT !.kind = "revoke", !.pc = "cut", !.token = session]
  <2>1. ~Owned(r) /\ flow' = [flow EXCEPT ![f] = r]
    BY <1>2 DEF CutOff, Idle, Owned
  <2> QED
    BY <2>1, OthersOwn
<1>3. ASSUME NEW p \in Presets, RunPreset(f, p)
      PROVE  \A g \in Flows : Owned(flow'[g]) => flow'[g] = flow[g]
  <2> DEFINE cut == p \in RevokeFirst /\ ~isRevoked
             r == [Idle EXCEPT !.kind = "run", !.pc = IF cut THEN "cut" ELSE Ask(p),
                               !.token = session, !.preset = p, !.left = Orders[p]]
  <2>1. ~Owned(r)
    BY DEF Idle, Owned
  <2>2. flow' = [flow EXCEPT ![f] = r]
    BY <1>3 DEF RunPreset
  <2> QED
    BY <2>1, <2>2, OthersOwn
<1> QED
  BY <1>1, <1>2, <1>3 DEF Click

LEMMA ContinueOwns ==
  ASSUME TypesInv, NEW f \in Flows, Continue(f)
  PROVE  \A g \in Flows : Owned(flow'[g]) => flow'[g] = flow[g]
<1>0. flow[f] \in FlowType /\ flow \in [Flows -> FlowType]
  BY DEF TypesInv, ConsoleTypes
<1>1. ~Owned(Idle)
  BY DEF Owned, Idle
<1>2. CASE flow' = [flow EXCEPT ![f] = Idle]
  BY <1>1, <1>2, OthersOwn
<1>3. CASE Revoked(f) \/ Quoted(f) \/ Finish(f)
  <2>1. flow'[f].net = "sent" \/ flow'[f] = Idle
    <3>1. CASE Revoked(f)
      <4> DEFINE asks == [flow[f] EXCEPT !.pc = Ask(flow[f].preset), !.net = "sent"]
      <4>1. flow' = [flow EXCEPT ![f] = asks] \/ flow' = [flow EXCEPT ![f] = Idle]
        BY <1>0, <3>1 DEF Revoked
      <4>2. asks.net = "sent"
        BY <1>0 DEF FlowType
      <4> HIDE DEF asks
      <4> QED
        BY <1>0, <4>1, <4>2
    <3>2. CASE Quoted(f)
      BY <1>0, <3>2 DEF Quoted, FlowType
    <3>3. CASE Finish(f)
      BY <1>0, <3>3 DEF Finish, FlowType
    <3> QED
      BY <1>3, <3>1, <3>2, <3>3
  <2>2. \A g \in Flows \ {f} : flow'[g] = flow[g]
    BY <1>0, <1>3 DEF Revoked, Quoted, Finish
  <2>3. ~Owned(flow'[f])
    BY <1>1, <2>1 DEF Owned
  <2> QED
    BY <2>2, <2>3
<1> QED
  BY <1>2, <1>3 DEF Continue, Opened

LEMMA RequestShown ==
  ASSUME TypesInv, ShownInv, NEW f \in Flows, Hear(f) \/ Serve(f) \/ Lose(f)
  PROVE  ShownInv'
<1>1. PICK n, a : Request(f, n, a)
  BY RequestMoves
<1>2. UNCHANGED <<decisions, results, currentDisplay>> /\ placed \subseteq placed'
  BY <1>1, RequestMoves DEF Request
<1> DEFINE r == Got(f, n, a)
<1>3. /\ flow' = [flow EXCEPT ![f] = r]
      /\ r.net = n /\ r.ans = a /\ r.pc = flow[f].pc /\ FlowOrder(r) = FlowOrder(flow[f])
  BY <1>1, GotTyped DEF Request
<1> HIDE DEF r
<1>4. \A g \in Flows : flow'[g] = IF g = f THEN r ELSE flow[g]
  BY <1>3 DEF TypesInv, ConsoleTypes
<1>5. Owned(r) => FlowOrder(r) \in placed'
  BY <1>1, <1>3 DEF Owned, Request
<1>6. ~Bought(Blank)
  BY DEF Bought, Blank
<1> QED
  BY <1>2, <1>4, <1>5, <1>6, ShownStays

LEMMA ShownStep ==
  TypesInv /\ ShownInv /\ [ConsoleNext]_consoleVars => ShownInv'
<1> SUFFICES ASSUME TypesInv, ShownInv, [ConsoleNext]_consoleVars PROVE ShownInv'
  OBVIOUS
<1>0. ~Bought(Blank)
  BY DEF Bought, Blank
<1>1. ASSUME NEW f \in Flows, Reset(f) PROVE ShownInv'
  <2>1. /\ \A p \in Presets : results'[p] = Blank
        /\ currentDisplay' = Blank /\ placed' = placed /\ DOMAIN decisions' = {}
    BY <1>1 DEF Reset, Server, Ledger
  <2>2. \A g \in Flows : Owned(flow'[g]) => flow'[g] = flow[g]
    BY <1>1, ClickOwns DEF Click
  <2> QED
    BY <1>0, <2>1, <2>2, ShownStays
<1>2. ASSUME NEW f \in Flows, NEW p \in Presets, RunPreset(f, p) PROVE ShownInv'
  <2>1. /\ currentDisplay' = currentDisplay \/ currentDisplay' = Blank
        /\ results' = results /\ placed' = placed /\ decisions' = decisions
    BY <1>2 DEF RunPreset, Clear, Server, Ledger
  <2>2. \A g \in Flows : Owned(flow'[g]) => flow'[g] = flow[g]
    BY <1>2, ClickOwns DEF Click
  <2> QED
    BY <1>0, <2>1, <2>2, ShownStays
<1>3. ASSUME NEW f \in Flows, Revoked(f) PROVE ShownInv'
  <2> DEFINE d == Rec("REVOKED", FALSE, ~Lost(f), 0, flow[f].token, "none", 0)
  <2>1. ~Bought(d)
    BY DEF Bought, Rec
  <2>2. d \in RecType
    BY <1>3, CutRow DEF Revoked, Arrived
  <2>3. /\ currentDisplay' = d \/ currentDisplay' = Blank
        /\ results' = results /\ placed' = placed /\ decisions' = Listed(d)
    BY <1>3 DEF Revoked, Clear, Server, Ledger
  <2>4. \A g \in Flows : Owned(flow'[g]) => flow'[g] = flow[g]
    BY <1>3, ContinueOwns DEF Continue
  <2> HIDE DEF d
  <2>5. \A i \in DOMAIN decisions' :
          decisions'[i] = d \/ \E j \in DOMAIN decisions : decisions'[i] = decisions[j]
    BY <2>2, <2>3, ListedRows
  <2> QED
    BY <2>1, <2>3, <2>4, <2>5, ShownStays
<1>4. ASSUME NEW f \in Flows, Finish(f) PROVE ShownInv'
  <2> DEFINE d == Outcome(f)
  <2>1. d \in RecType /\ RowOrder(d) = FlowOrder(flow[f]) /\ (Bought(d) => Owned(flow[f]))
    BY <1>4, OutcomeTyped
    DEF Finish, Arrived, Lost, Owned, Bought, RowOrder, FlowOrder
  <2>2. Bought(d) => RowOrder(d) \in placed
    BY <2>1 DEF ShownInv
  <2>3. /\ results' = [results EXCEPT ![flow[f].preset] = d] /\ placed' = placed
        /\ currentDisplay' = d \/ currentDisplay' = Blank
        /\ decisions' = Listed(d)
    BY <1>4 DEF Finish, Server, Ledger
  <2>4. \A p \in Presets : results'[p] = results[p] \/ results'[p] = d
    BY <2>3 DEF TypesInv, ConsoleTypes
  <2>5. \A g \in Flows : Owned(flow'[g]) => flow'[g] = flow[g]
    BY <1>4, ContinueOwns DEF Continue
  <2> HIDE DEF d
  <2>6. \A i \in DOMAIN decisions' :
          decisions'[i] = d \/ \E j \in DOMAIN decisions : decisions'[i] = decisions[j]
    BY <2>1, <2>3, ListedRows
  <2> QED
    BY <2>2, <2>3, <2>4, <2>5, <2>6, ShownStays
<1>5. ASSUME UNCHANGED <<decisions, results, currentDisplay, placed>>,
             \A g \in Flows : Owned(flow'[g]) => flow'[g] = flow[g]
      PROVE  ShownInv'
  BY <1>0, <1>5, ShownStays
<1>6. ASSUME NEW f \in Flows, CutOff(f) PROVE ShownInv'
  <2>1. \A g \in Flows : Owned(flow'[g]) => flow'[g] = flow[g]
    BY <1>6, ClickOwns DEF Click
  <2> QED
    BY <1>5, <1>6, <2>1 DEF CutOff, Shown, Server, Ledger
<1>7. ASSUME NEW f \in Flows, Opened(f) \/ Quoted(f) PROVE ShownInv'
  <2>1. \A g \in Flows : Owned(flow'[g]) => flow'[g] = flow[g]
    BY <1>7, ContinueOwns DEF Continue
  <2> QED
    BY <1>5, <1>7, <2>1 DEF Opened, Quoted, Shown, Server, Ledger
<1>8. ASSUME NEW i \in Parts, Paint(i) PROVE ShownInv'
  BY <1>5, <1>8 DEF Paint, Server, Ledger
<1>9. CASE UNCHANGED consoleVars
  BY <1>5, <1>9 DEF consoleVars
<1> QED
  BY <1>1, <1>2, <1>3, <1>4, <1>6, <1>7, <1>8, <1>9, RequestShown
  DEF ConsoleNext, Click, Continue

LEMMA BoughtSays ==
  ASSUME NEW d, d.live
  PROVE  /\ Says(d) \in {"through", "already"} \/ OutcomeChip(d) \in {"through", "already"}
              => Bought(d)
         /\ Says(d) = "through" => Through(d)
BY DEF Says, OutcomeChip, Bought, Through

LEMMA LiveProduced == ConsoleMoves => []LiveIsProduced
<1>1. RowsProduced /\ ShownInv => LiveIsProduced
  <2> SUFFICES ASSUME RowsProduced, ShownInv PROVE LiveIsProduced
    OBVIOUS
  <2> DEFINE said == {"through", "already"}
  <2>1. \A i \in DOMAIN decisions :
          decisions[i].live /\ RowSays(i) \in said => RowOrder(decisions[i]) \in placed
    BY BoughtSays DEF RowSays, ShownInv
  <2>2. \A p \in Presets :
          results[p].live /\ ListChip(p) \in said => RowOrder(results[p]) \in placed
    BY BoughtSays DEF ListChip, ShownInv
  <2>3. currentDisplay.live /\ Says(currentDisplay) \in said
          => RowOrder(currentDisplay) \in placed
    BY BoughtSays DEF ShownInv
  <2>4. \A i \in DOMAIN decisions :
          decisions[i].live /\ RowSays(i) = "through" => Through(decisions[i])
    BY BoughtSays DEF RowSays
  <2> QED
    BY <2>1, <2>2, <2>3, <2>4 DEF RowsProduced, LiveIsProduced, RowOrder
<1>2. ProducedInv => RowsProduced
  BY DEF ProducedInv
<1> QED
  BY TypesInit, TypesStep, ProducedInit, ProducedStep, ShownInit, ShownStep, <1>1, <1>2, PTL
  DEF ConsoleMoves

-----------------------------------------------------------------------------
(* The limits beside a verdict.                                            *)

(* A row is `ALLOW' exactly when it executed, and names a set limit.       *)
RowSound(d) == (d.executed <=> d.verdict = "ALLOW") /\ d.stopped \notin Unset

(* The colour limit i is left with when its timers have fired.             *)
Settles(ts, c) == IF ts = <<>> THEN c ELSE ts[Len(ts)]

(* The outcome on screen is the last one whose timers were started.        *)
RowsInv ==
  /\ \A f \in Flows : AnswerSound(flow[f].ans)
  /\ currentDisplay.preset # "none" =>
       /\ RowSound(currentDisplay)
       /\ \A i \in Parts :
            Settles(timers[i], clauseRowStates[i]) = Colour(currentDisplay, i)

LEMMA NoAnswerSound == AnswerSound(NoAnswer) /\ Idle.ans = NoAnswer
BY ConsoleAssumption DEF NoAnswer, Answer, AnswerSound, Idle

LEMMA OutcomeSound ==
  ASSUME NEW f \in Flows, TypesInv, RowsInv, flow[f].pc = "order"
  PROVE  RowSound(Outcome(f))
<1> DEFINE r == flow[f]
           a == IF Lost(f) THEN Expected[r.preset] ELSE r.ans
           v == IF a.verdict = "cut" THEN "REVOKED"
                ELSE IF ~Lost(f) /\ a.verdict = "ALLOW" /\ ~a.executed THEN "IDEMPOTENT"
                ELSE a.verdict
<1>1. r.preset \in Presets
  BY DEF TypesInv, Held, FlowHolds
<1>2. a.stopped \notin Unset /\ (a.executed => a.verdict = "ALLOW")
  BY <1>1, ConsoleAssumption DEF RowsInv, AnswerSound, Presets
<1>3. Lost(f) => (a.executed <=> a.verdict = "ALLOW")
  BY <1>1, ConsoleAssumption DEF Presets
<1>4. a.executed <=> v = "ALLOW"
  BY <1>2, <1>3
<1>5. Outcome(f).executed = a.executed /\ Outcome(f).verdict = v
        /\ Outcome(f).stopped = a.stopped
  BY DEF Outcome, Rec
<1> QED
  BY <1>2, <1>4, <1>5 DEF RowSound

(* The flows' answers stay sound when one flow takes a sound one.          *)
LEMMA AnswersStay ==
  ASSUME TypesInv, RowsInv, NEW f \in Flows, NEW r, flow' = [flow EXCEPT ![f] = r],
         AnswerSound(r.ans)
  PROVE  \A g \in Flows : AnswerSound(flow'[g].ans)
<1>1. \A g \in Flows : flow'[g] = IF g = f THEN r ELSE flow[g]
  BY DEF TypesInv, ConsoleTypes
<1> QED
  BY <1>1 DEF RowsInv

LEMMA RowsInit == ConsoleInit => RowsInv
BY NoAnswerSound, ConsoleAssumption DEF ConsoleInit, RowsInv, Blank, Idle, Flows

(* Steps that leave the panel and its timers alone, or empty the panel.    *)
LEMMA PanelStays ==
  ASSUME RowsInv, \A g \in Flows : AnswerSound(flow'[g].ans),
         \/ UNCHANGED <<currentDisplay, clauseRowStates, timers>>
         \/ currentDisplay'.preset = "none"
  PROVE  RowsInv'
BY DEF RowsInv, Colour, RowSound

LEMMA TailLast ==
  ASSUME NEW S, NEW ts \in Seq(S), ts # <<>>, Len(ts) # 1
  PROVE  Tail(ts) # <<>> /\ Tail(ts)[Len(Tail(ts))] = ts[Len(ts)]
<1>1. /\ Tail(ts) \in Seq(S) /\ Len(Tail(ts)) = Len(ts) - 1
      /\ \A k \in 1..Len(Tail(ts)) : Tail(ts)[k] = ts[k + 1]
  BY HeadTailProperties
<1>2. Len(ts) \in Nat /\ Len(ts) # 0
  BY EmptySeq
<1>3. /\ Len(Tail(ts)) \in 1..Len(Tail(ts)) /\ Len(Tail(ts)) + 1 = Len(ts)
      /\ Len(Tail(ts)) # 0
  BY <1>1, <1>2
<1>4. Tail(ts) # <<>>
  BY <1>3, Len(<<>>) = 0, Zenon
<1> QED
  BY <1>1, <1>3, <1>4

LEMMA PaintRows ==
  ASSUME TypesInv, RowsInv, NEW i \in Parts, Paint(i) PROVE RowsInv'
<1>1. /\ timers \in [Parts -> Seq(RowState)] /\ clauseRowStates \in [Parts -> RowState]
      /\ timers[i] # <<>>
      /\ clauseRowStates' = [clauseRowStates EXCEPT ![i] = Head(timers[i])]
      /\ timers' = [timers EXCEPT ![i] = Tail(timers[i])]
      /\ UNCHANGED <<flow, currentDisplay>>
  BY DEF Paint, TypesInv, ConsoleTypes
<1>2. \A j \in Parts \ {i} : timers'[j] = timers[j] /\ clauseRowStates'[j] = clauseRowStates[j]
  BY <1>1
<1>3. Settles(timers'[i], clauseRowStates'[i]) = Settles(timers[i], clauseRowStates[i])
  <2> DEFINE ts == timers[i]
  <2>1. /\ ts \in Seq(RowState) /\ ts # <<>>
        /\ timers'[i] = Tail(ts) /\ clauseRowStates'[i] = Head(ts)
    BY <1>1
  <2> HIDE DEF ts
  <2>2. CASE Len(ts) = 1
    <3>1. Tail(ts) = <<>> /\ Head(ts) = ts[Len(ts)]
      BY <2>1, <2>2
    <3> QED
      BY <2>1, <2>2, <3>1 DEF Settles, ts
  <2>3. CASE Len(ts) # 1
    <3>1. Tail(ts) # <<>> /\ Tail(ts)[Len(Tail(ts))] = ts[Len(ts)]
      BY <2>1, <2>3, TailLast
    <3> QED
      BY <2>1, <3>1 DEF Settles, ts
  <2> QED
    BY <2>2, <2>3
<1>4. \A j \in Parts : Settles(timers'[j], clauseRowStates'[j])
                          = Settles(timers[j], clauseRowStates[j])
  BY <1>2, <1>3
<1> QED
  BY <1>1, <1>4 DEF RowsInv, RowSound, Colour

LEMMA FinishRows ==
  ASSUME TypesInv, RowsInv, NEW f \in Flows, Finish(f) PROVE RowsInv'
<1> DEFINE r == flow[f]
           d == Outcome(f)
           asks == [r EXCEPT !.pc = Ask(r.preset), !.net = "sent", !.left = @ - 1,
                             !.ans = NoAnswer]
<1>1. r.pc = "order" /\ flow \in [Flows -> FlowType]
  BY DEF Finish, Arrived, TypesInv, ConsoleTypes
<1>2. RowSound(d)
  BY <1>1, OutcomeSound
<1>3. CASE r.left > 1
  <2>1. flow' = [flow EXCEPT ![f] = asks] /\ currentDisplay' = Blank
    BY <1>1, <1>3 DEF Finish
  <2>2. asks.ans = NoAnswer
    BY <1>1 DEF FlowType
  <2> HIDE DEF asks
  <2>3. \A g \in Flows : AnswerSound(flow'[g].ans)
    BY <2>1, <2>2, NoAnswerSound, AnswersStay
  <2> QED
    BY <2>1, <2>3, PanelStays DEF Blank
<1>4. CASE ~(r.left > 1)
  <2>1. flow' = [flow EXCEPT ![f] = Idle] /\ currentDisplay' = d
    BY <1>4 DEF Finish
  <2>2. \A g \in Flows : AnswerSound(flow'[g].ans)
    BY <2>1, NoAnswerSound, AnswersStay
  <2>3. timers' = [i \in Parts |-> Append(timers[i], Colour(d, i))]
    BY DEF Finish
  <2> HIDE DEF d
  <2>4. ASSUME NEW i \in Parts
        PROVE  Settles(timers'[i], clauseRowStates'[i]) = Colour(d, i)
    <3>1. timers[i] \in Seq(RowState) /\ timers'[i] = Append(timers[i], Colour(d, i))
      BY <2>3 DEF TypesInv, ConsoleTypes
    <3> DEFINE ts == timers[i]
               c == Colour(d, i)
    <3>2. Append(ts, c) # <<>> /\ Append(ts, c)[Len(Append(ts, c))] = c
      <4> HIDE DEF c
      <4> QED
        BY <3>1
    <3> QED
      BY <3>1, <3>2 DEF Settles
  <2>5. \A i \in Parts : Colour(currentDisplay', i) = Colour(d, i)
    BY <2>1
  <2> QED
    BY <1>2, <2>1, <2>2, <2>4, <2>5 DEF RowsInv, RowSound, Colour
<1> QED
  BY <1>3, <1>4

LEMMA RowsStep == TypesInv /\ RowsInv /\ [ConsoleNext]_consoleVars => RowsInv'
<1> SUFFICES ASSUME TypesInv, RowsInv, [ConsoleNext]_consoleVars PROVE RowsInv'
  OBVIOUS
<1>0. /\ flow \in [Flows -> FlowType] /\ Blank.preset = "none"
      /\ AnswerSound(Idle.ans)
  BY NoAnswerSound DEF TypesInv, ConsoleTypes, Blank
<1>1. ASSUME NEW f \in Flows, NEW r, flow' = [flow EXCEPT ![f] = r], AnswerSound(r.ans),
             \/ UNCHANGED <<currentDisplay, clauseRowStates, timers>>
             \/ currentDisplay'.preset = "none"
      PROVE  RowsInv'
  BY <1>1, AnswersStay, PanelStays
<1>2. ASSUME NEW f \in Flows, Reset(f) PROVE RowsInv'
  <2> DEFINE r == [Idle EXCEPT !.kind = "open", !.pc = "open"]
  <2>1. r.ans = Idle.ans
    BY DEF Idle
  <2>2. flow' = [flow EXCEPT ![f] = r] /\ currentDisplay' = Blank
    BY <1>2 DEF Reset
  <2> HIDE DEF r
  <2> QED
    BY <1>0, <1>1, <2>1, <2>2
<1>3. ASSUME NEW f \in Flows, NEW p \in Presets, RunPreset(f, p) PROVE RowsInv'
  <2> DEFINE cut == p \in RevokeFirst /\ ~isRevoked
             r == [Idle EXCEPT !.kind = "run", !.pc = IF cut THEN "cut" ELSE Ask(p),
                               !.token = session, !.preset = p, !.left = Orders[p]]
  <2>1. r.ans = Idle.ans
    BY DEF Idle
  <2>2. flow' = [flow EXCEPT ![f] = r]
    BY <1>3 DEF RunPreset
  <2>3. \/ UNCHANGED <<currentDisplay, clauseRowStates, timers>> \/ currentDisplay' = Blank
    BY <1>3 DEF RunPreset, Clear
  <2> HIDE DEF r
  <2> QED
    BY <1>0, <1>1, <2>1, <2>2, <2>3
<1>4. ASSUME NEW f \in Flows, CutOff(f) PROVE RowsInv'
  <2> DEFINE r == [Idle EXCEPT !.kind = "revoke", !.pc = "cut", !.token = session]
  <2>1. r.ans = Idle.ans
    BY DEF Idle
  <2>2. flow' = [flow EXCEPT ![f] = r] /\ UNCHANGED <<currentDisplay, clauseRowStates, timers>>
    BY <1>4 DEF CutOff, Shown
  <2> HIDE DEF r
  <2> QED
    BY <1>0, <1>1, <2>1, <2>2
<1>5. ASSUME NEW f \in Flows, Hear(f) \/ Serve(f) \/ Lose(f) PROVE RowsInv'
  <2>1. PICK n, a : Request(f, n, a)
    BY <1>5, RequestMoves
  <2>2. AnswerSound(a)
    BY <2>1 DEF Request, RowsInv
  <2>3. flow' = [flow EXCEPT ![f] = Got(f, n, a)] /\ Got(f, n, a).ans = a
    BY <2>1, GotTyped DEF Request
  <2>4. UNCHANGED <<currentDisplay, clauseRowStates, timers>>
    BY <1>5, RequestMoves
  <2> QED
    BY <1>1, <2>2, <2>3, <2>4
<1>6. ASSUME NEW f \in Flows, Quoted(f) PROVE RowsInv'
  <2> DEFINE r == [flow[f] EXCEPT !.pc = "order", !.net = "sent"]
  <2>1. flow' = [flow EXCEPT ![f] = r] /\ r.ans = flow[f].ans
    BY <1>0, <1>6 DEF Quoted, FlowType
  <2>2. UNCHANGED <<currentDisplay, clauseRowStates, timers>> /\ AnswerSound(flow[f].ans)
    BY <1>6 DEF Quoted, Shown, RowsInv
  <2> HIDE DEF r
  <2> QED
    BY <1>1, <2>1, <2>2
<1>7. ASSUME NEW f \in Flows, Opened(f) PROVE RowsInv'
  <2>1. flow' = [flow EXCEPT ![f] = Idle] /\ UNCHANGED <<currentDisplay, clauseRowStates, timers>>
    BY <1>7 DEF Opened, Shown
  <2> QED
    BY <1>0, <1>1, <2>1
<1>8. ASSUME NEW f \in Flows, Revoked(f) PROVE RowsInv'
  <2>1. currentDisplay'.preset = "none"
    BY <1>8 DEF Revoked, Clear, Blank, Rec
  <2>2. CASE flow[f].kind = "run"
    <3> DEFINE r == [flow[f] EXCEPT !.pc = Ask(flow[f].preset), !.net = "sent"]
    <3>1. flow' = [flow EXCEPT ![f] = r] /\ r.ans = flow[f].ans /\ AnswerSound(flow[f].ans)
      BY <1>0, <1>8, <2>2 DEF Revoked, FlowType, RowsInv
    <3> HIDE DEF r
    <3> QED
      BY <1>1, <2>1, <3>1
  <2>3. CASE flow[f].kind # "run"
    <3>1. flow' = [flow EXCEPT ![f] = Idle]
      BY <1>8, <2>3 DEF Revoked
    <3> QED
      BY <1>0, <1>1, <2>1, <3>1
  <2> QED
    BY <2>2, <2>3
<1>9. ASSUME NEW f \in Flows, Finish(f) PROVE RowsInv'
  BY <1>9, FinishRows
<1>10. ASSUME NEW i \in Parts, Paint(i) PROVE RowsInv'
  BY <1>10, PaintRows
<1>11. CASE UNCHANGED consoleVars
  BY <1>11 DEF consoleVars, RowsInv, RowSound, Colour
<1> QED
  BY <1>2, <1>3, <1>4, <1>5, <1>6, <1>7, <1>8, <1>9, <1>10, <1>11
  DEF ConsoleNext, Click, Continue

LEMMA RowsMatch == RowsInv => RowsMatchVerdict
<1> SUFFICES ASSUME RowsInv, \A i \in Parts : timers[i] = <<>>, currentDisplay.preset # "none"
             PROVE  LET d == currentDisplay IN
                    /\ d.executed \/ (d.live /\ Says(d) = "already")
                         => RowIs("allow") = Parts \ Unset
                    /\ Says(d) = "refused" => RowIs("deny") = {d.stopped} \cap Parts
  BY DEF RowsMatchVerdict
<1> DEFINE d == currentDisplay
<1>1. \A i \in Parts : clauseRowStates[i] = Colour(d, i)
  BY DEF RowsInv, Settles
<1>2. RowSound(d)
  BY DEF RowsInv
<1>3. ASSUME d.executed \/ (d.live /\ Says(d) = "already")
      PROVE  RowIs("allow") = Parts \ Unset
  BY <1>1, <1>2, <1>3 DEF RowIs, Colour, Says, RowSound
<1>4. ASSUME Says(d) = "refused" PROVE RowIs("deny") = {d.stopped} \cap Parts
  <2>1. \A i \in Parts : clauseRowStates[i] = "deny" <=> d.stopped = i
    BY <1>1, <1>2, <1>4, ConsoleAssumption DEF Colour, Says, RowSound, Parts
  <2> QED
    BY <1>2, <2>1 DEF RowIs, RowSound
<1> QED
  BY <1>3, <1>4

(* The page says of an order what became of it (ScreenIsTrue): its live    *)
(* rows are orders on the rail, one each, what nobody answered stands      *)
(* under the banner, and when the timers have fired the limits beside a    *)
(* verdict are those of that order, for any number of flows and timers.    *)
THEOREM ScreenTrue == ConsoleMoves => []ScreenIsTrue
<1>1. ConsoleMoves => []RowsMatchVerdict
  BY TypesInit, TypesStep, RowsInit, RowsStep, RowsMatch, PTL DEF ConsoleMoves
<1>2. ScreenIsTrue <=> LiveIsProduced /\ SimulatedSaid /\ RowsMatchVerdict
  BY DEF ScreenIsTrue
<1> QED
  BY LiveProduced, SaidSimulated, <1>1, <1>2, PTL

-----------------------------------------------------------------------------
(* The order history.  A restart numbers on from the file, which holds     *)
(* every order ever recorded; the rows are its last ones.                  *)

ShopRow == [id : Nat, week : Nat, no : Nat]
ShopTag == Nat \X Nat
BodyType == [week : Nat, orders : Seq(ShopRow), rev : Nat, life : Nat, tag : ShopTag]
PollType == [n : Nat, none : ShopTag, pc : {"sent", "tagged", "answered"},
             status : Nat, body : BodyType]

Numbered(s) == \A i, j \in DOMAIN s : i < j => s[i].id < s[j].id
UpTo(s, n, w) == \A i \in DOMAIN s : s[i].id <= n /\ s[i].week <= w

ShopTyped ==
  /\ journal \in Seq(ShopRow) /\ rows \in Seq(ShopRow)
  /\ weeks \in Nat /\ seq \in Nat /\ rev \in Nat /\ life \in Nat
  /\ body \in BodyType /\ etag \in ShopTag /\ polled \in Nat
  /\ polls \subseteq PollType

JournalInv ==
  /\ seq = Len(journal)
  /\ Numbered(journal) /\ UpTo(journal, seq, weeks)
  /\ Numbered(rows) /\ UpTo(rows, seq, weeks)

(* What a body must be when it is shown, and what a handler between its    *)
(* tag and its rows has read: the store has not fallen behind that tag.    *)
Sound(b) ==
  /\ Numbered(b.orders)
  /\ \A i \in DOMAIN b.orders : b.orders[i].week <= b.week
  /\ b.life > 0 => b.tag[2] <= b.rev /\ b.tag[1] <= b.week

Serving(p) ==
  CASE p.pc = "answered" -> Sound(p.body)
    [] p.pc = "tagged" -> p.body.tag[1] <= weeks /\ p.body.tag[2] <= rev
    [] p.pc = "sent" -> p.body = NoBody

ShopInv ==
  /\ ShopTyped /\ JournalInv /\ Sound(body)
  /\ \A p \in polls : Serving(p)

LEMMA NoBodySound == NoBody \in BodyType /\ Sound(NoBody) /\ NoTag \in ShopTag
<1>1. NoBody \in BodyType /\ NoTag \in ShopTag
  BY DEF NoBody, NoTag, BodyType, ShopTag
<1>2. NoBody.orders = <<>> /\ NoBody.life = 0 /\ DOMAIN <<>> = {}
  BY DEF NoBody
<1>3. Sound(NoBody)
  BY <1>2 DEF Sound, Numbered
<1> QED  BY <1>1, <1>3

LEMMA TrimKeeps ==
  ASSUME NEW s \in Seq(ShopRow), Numbered(s), NEW n \in Nat, NEW w \in Nat, UpTo(s, n, w)
  PROVE  Trim(s) \in Seq(ShopRow) /\ Numbered(Trim(s)) /\ UpTo(Trim(s), n, w)
<1>1. CASE Len(s) <= MaxRows
  <2>1. Trim(s) = s
    BY <1>1, StoreAssumption DEF Trim
  <2> QED  BY <2>1
<1>2. CASE Len(s) > MaxRows
  <2> DEFINE m == Len(s) - MaxRows + 1
             t == SubSeq(s, m, Len(s))
  <2>1. Len(s) \in Nat /\ m \in 1 .. Len(s) + 1 /\ Len(s) - m + 1 = MaxRows
    BY <1>2, StoreAssumption
  <2>2. \A i \in m .. Len(s) : s[i] \in ShopRow
    BY <2>1
  <2>3. /\ t \in Seq(ShopRow)
        /\ Len(t) = IF m <= Len(s) THEN Len(s) - m + 1 ELSE 0
        /\ \A i \in 1 .. Len(s) - m + 1 : t[i] = s[m + i - 1]
    <3> HIDE DEF m
    <3> QED  BY <2>1, <2>2, SubSeqProperties
  <2>4. Len(t) = MaxRows /\ DOMAIN t = 1 .. MaxRows
    BY <2>1, <2>3, StoreAssumption, SMTT(40)
  <2>5. \A i \in DOMAIN t : m + i - 1 \in DOMAIN s /\ t[i] = s[m + i - 1]
    BY <2>1, <2>3, <2>4, StoreAssumption, SMTT(40)
  <2>6. Trim(s) = t
    BY <1>2, StoreAssumption DEF Trim
  <2> HIDE DEF t, m
  <2>7. UpTo(t, n, w)
    BY <2>5 DEF UpTo
  <2>8. Numbered(t)
    <3> SUFFICES ASSUME NEW i \in DOMAIN t, NEW j \in DOMAIN t, i < j
                 PROVE  t[i].id < t[j].id
      BY DEF Numbered
    <3>1. i \in Nat /\ j \in Nat /\ m \in Nat
      BY <2>1, <2>4, StoreAssumption
    <3>2. m + i - 1 < m + j - 1
      BY <3>1
    <3> QED  BY <2>5, <3>2 DEF Numbered
  <2> QED  BY <2>3, <2>6, <2>7, <2>8
<1>3. Len(s) \in Nat
  OBVIOUS
<1> QED  BY <1>1, <1>2, <1>3, StoreAssumption

LEMMA AppendKeeps ==
  ASSUME NEW s \in Seq(ShopRow), NEW n \in Nat, NEW w \in Nat,
         Numbered(s), UpTo(s, n, w),
         NEW o \in ShopRow, o.id = n + 1, o.week = w
  PROVE  /\ Append(s, o) \in Seq(ShopRow)
         /\ Numbered(Append(s, o)) /\ UpTo(Append(s, o), n + 1, w)
<1> DEFINE t == Append(s, o)
<1>1. /\ t \in Seq(ShopRow) /\ Len(t) = Len(s) + 1 /\ Len(s) \in Nat
      /\ DOMAIN s = 1 .. Len(s) /\ DOMAIN t = 1 .. Len(s) + 1
      /\ \A i \in 1 .. Len(s) : t[i] = s[i]
      /\ t[Len(s) + 1] = o
  BY AppendProperties
<1>2. \A i \in DOMAIN s : s[i].id \in Nat /\ s[i].week \in Nat
  <2> SUFFICES ASSUME NEW i \in DOMAIN s PROVE s[i].id \in Nat /\ s[i].week \in Nat
    OBVIOUS
  <2>1. s[i] \in ShopRow
    BY <1>1
  <2> QED  BY <2>1 DEF ShopRow
<1> HIDE DEF t
<1>3. UpTo(t, n + 1, w)
  BY <1>1, <1>2 DEF UpTo
<1>4. Numbered(t)
  <2> SUFFICES ASSUME NEW i \in DOMAIN t, NEW j \in DOMAIN t, i < j
               PROVE  t[i].id < t[j].id
    BY DEF Numbered
  <2>1. i \in 1 .. Len(s) /\ t[i] = s[i] /\ i \in DOMAIN s
    BY <1>1
  <2>2. CASE j = Len(s) + 1
    <3>1. s[i].id <= n /\ s[i].id \in Nat
      BY <1>2, <2>1 DEF UpTo
    <3> QED  BY <1>1, <2>1, <2>2, <3>1
  <2>3. CASE j # Len(s) + 1
    <3>1. j \in DOMAIN s /\ t[j] = s[j]
      BY <1>1, <2>3
    <3> QED  BY <2>1, <3>1 DEF Numbered
  <2> QED  BY <2>2, <2>3
<1> QED  BY <1>1, <1>3, <1>4 DEF t

LEMMA ShopStart == ShopInit => ShopInv
<1> SUFFICES ASSUME ShopInit PROVE ShopInv
  OBVIOUS
<1>1. ShopTyped
  BY NoBodySound DEF ShopInit, ShopTyped
<1>2. Len(journal) = 0 /\ DOMAIN journal = {} /\ rows = journal /\ seq = 0
  BY DEF ShopInit
<1>3. JournalInv
  BY <1>2 DEF JournalInv, Numbered, UpTo
<1>4. Sound(body) /\ polls = {}
  BY NoBodySound DEF ShopInit
<1> QED  BY <1>1, <1>3, <1>4 DEF ShopInv

(* A revision counted or a week begun takes no tag back.                   *)
LEMMA TagsStay ==
  ASSUME ShopInv, NEW p \in polls, weeks' \in Nat, rev' \in Nat, weeks <= weeks', rev <= rev'
  PROVE  Serving(p)'
<1>1. p \in PollType /\ Serving(p) /\ weeks \in Nat /\ rev \in Nat
  BY DEF ShopInv, ShopTyped
<1>2. p.body.tag[1] \in Nat /\ p.body.tag[2] \in Nat
  BY <1>1 DEF PollType, BodyType, ShopTag
<1>3. CASE p.pc = "tagged"
  <2>1. p.body.tag[1] <= weeks /\ p.body.tag[2] <= rev
    BY <1>1, <1>3 DEF Serving
  <2>2. p.body.tag[1] <= weeks' /\ p.body.tag[2] <= rev'
    BY <1>1, <1>2, <2>1
  <2> QED  BY <1>3, <2>2 DEF Serving
<1>4. CASE p.pc = "sent"
  <2>1. p.body = NoBody
    BY <1>1, <1>4 DEF Serving
  <2> QED  BY <1>4, <2>1 DEF Serving
<1>5. CASE p.pc = "answered"
  <2>1. Sound(p.body)
    BY <1>1, <1>5 DEF Serving
  <2> QED  BY <1>5, <2>1 DEF Serving
<1>6. p.pc \in {"sent", "tagged", "answered"}
  BY <1>1 DEF PollType
<1> QED  BY <1>3, <1>4, <1>5, <1>6

LEMMA RecordOrderStep ==
  ASSUME ShopInv, RecordOrder
  PROVE  ShopInv'
<1> DEFINE o == Order(seq + 1, weeks, Len(journal) + 1)
<1>1. /\ seq' = seq + 1 /\ rev' = rev + 1
      /\ journal' = Append(journal, o) /\ rows' = Trim(Append(rows, o))
      /\ UNCHANGED <<weeks, life, body, etag, polls, polled>>
  BY DEF RecordOrder, Page
<1>2. /\ journal \in Seq(ShopRow) /\ rows \in Seq(ShopRow) /\ weeks \in Nat /\ seq \in Nat
      /\ rev \in Nat /\ seq = Len(journal)
      /\ Numbered(journal) /\ UpTo(journal, seq, weeks)
      /\ Numbered(rows) /\ UpTo(rows, seq, weeks)
  BY DEF ShopInv, ShopTyped, JournalInv
<1>3. o \in ShopRow /\ o.id = seq + 1 /\ o.week = weeks
  BY <1>2 DEF Order, ShopRow
<1> HIDE DEF o
<1>4. /\ journal' \in Seq(ShopRow) /\ Numbered(journal') /\ UpTo(journal', seq', weeks)
      /\ Len(journal') = Len(journal) + 1
  BY <1>1, <1>2, <1>3, AppendKeeps, AppendProperties
<1>5. rows' \in Seq(ShopRow) /\ Numbered(rows') /\ UpTo(rows', seq', weeks)
  <2>1. /\ Append(rows, o) \in Seq(ShopRow)
        /\ Numbered(Append(rows, o)) /\ UpTo(Append(rows, o), seq + 1, weeks)
    BY <1>2, <1>3, AppendKeeps
  <2>2. seq + 1 \in Nat
    BY <1>2
  <2>3. /\ Trim(Append(rows, o)) \in Seq(ShopRow) /\ Numbered(Trim(Append(rows, o)))
        /\ UpTo(Trim(Append(rows, o)), seq + 1, weeks)
    BY <1>2, <2>1, <2>2, TrimKeeps
  <2> QED  BY <1>1, <2>3
<1>6. ShopTyped' /\ JournalInv'
  BY <1>1, <1>2, <1>4, <1>5 DEF ShopInv, ShopTyped, JournalInv
<1>7. \A p \in polls : Serving(p)'
  <2>1. weeks' \in Nat /\ rev' \in Nat /\ weeks <= weeks' /\ rev <= rev'
    BY <1>1, <1>2
  <2> QED  BY <2>1, TagsStay
<1> QED  BY <1>1, <1>6, <1>7 DEF ShopInv

LEMMA RestartStoreStep ==
  ASSUME ShopInv, RestartStore
  PROVE  ShopInv'
<1>1. /\ life' = life + 1 /\ rev' = 0 /\ rows' = Trim(journal) /\ seq' = Len(journal)
      /\ polls' = {p \in polls : p.pc = "answered"}
      /\ UNCHANGED <<journal, weeks, body, etag, polled>>
  BY DEF RestartStore, LoadOrders, Page
<1>2. /\ journal \in Seq(ShopRow) /\ weeks \in Nat /\ seq \in Nat /\ seq = Len(journal)
      /\ Numbered(journal) /\ UpTo(journal, seq, weeks)
  BY DEF ShopInv, ShopTyped, JournalInv
<1>3. rows' \in Seq(ShopRow) /\ Numbered(rows') /\ UpTo(rows', seq, weeks)
  BY <1>1, <1>2, TrimKeeps
<1>4. ShopTyped' /\ JournalInv'
  BY <1>1, <1>2, <1>3 DEF ShopInv, ShopTyped, JournalInv
<1>5. \A p \in polls' : Serving(p)'
  BY <1>1 DEF ShopInv, Serving
<1> QED  BY <1>1, <1>4, <1>5 DEF ShopInv

LEMMA AdvanceWeekStep ==
  ASSUME ShopInv, AdvanceWeek
  PROVE  ShopInv'
<1>1. /\ \/ weeks' = weeks + 1 /\ rev' = rev + 1
         \/ UNCHANGED <<weeks, rev>>
      /\ UNCHANGED <<journal, rows, seq, life, body, etag, polls, polled>>
      /\ \A p \in polls : p.pc # "tagged"
  BY DEF AdvanceWeek, Page
<1>2. /\ weeks \in Nat /\ seq \in Nat /\ rev \in Nat
      /\ journal \in Seq(ShopRow) /\ rows \in Seq(ShopRow)
      /\ UpTo(journal, seq, weeks) /\ UpTo(rows, seq, weeks)
  BY DEF ShopInv, ShopTyped, JournalInv
<1>3. \A s \in Seq(ShopRow) : UpTo(s, seq, weeks) => UpTo(s, seq, weeks')
  <2> SUFFICES ASSUME NEW s \in Seq(ShopRow), UpTo(s, seq, weeks), NEW i \in DOMAIN s
               PROVE  s[i].id <= seq /\ s[i].week <= weeks'
    BY DEF UpTo
  <2>1. s[i].week \in Nat /\ s[i].week <= weeks /\ s[i].id <= seq
    <3>1. s[i] \in ShopRow
      OBVIOUS
    <3> QED  BY <3>1 DEF UpTo, ShopRow
  <2> QED  BY <1>1, <1>2, <2>1
<1>4. ShopTyped' /\ JournalInv'
  BY <1>1, <1>2, <1>3 DEF ShopInv, ShopTyped, JournalInv
<1>5. \A p \in polls : Serving(p)'
  <2>1. weeks' \in Nat /\ rev' \in Nat /\ weeks <= weeks' /\ rev <= rev'
    BY <1>1, <1>2
  <2> QED  BY <2>1, TagsStay
<1> QED  BY <1>1, <1>4, <1>5 DEF ShopInv

(* A step that only moves polls and the page.                              *)
LEMMA PollsMove ==
  ASSUME ShopInv, UNCHANGED Store, NEW q, q \in PollType, Serving(q),
         polls' \subseteq polls \cup {q}, body' = body \/ (body' = q.body /\ q.pc = "answered"),
         etag' \in ShopTag, polled' \in Nat
  PROVE  ShopInv'
<1>1. UNCHANGED <<journal, rows, weeks, seq, rev, life>>
  BY DEF Store
<1>2. q.body \in BodyType
  BY DEF PollType
<1>3. ShopTyped' /\ JournalInv'
  BY <1>1, <1>2 DEF ShopInv, ShopTyped, JournalInv
<1>4. Sound(body)'
  BY DEF ShopInv, Serving
<1>5. \A p \in polls' : Serving(p)'
  BY <1>1 DEF ShopInv, Serving
<1> QED  BY <1>3, <1>4, <1>5 DEF ShopInv

LEMMA ServeTagStep ==
  ASSUME ShopInv, NEW p \in polls, ServeTag(p)
  PROVE  ShopInv'
<1>1. /\ p \in PollType /\ p.pc = "sent" /\ p.body = NoBody
      /\ weeks \in Nat /\ rev \in Nat /\ etag \in ShopTag /\ polled \in Nat
  BY DEF ShopInv, ShopTyped, ServeTag, Serving
<1>2. UNCHANGED Store /\ UNCHANGED <<body, etag, polled>>
  BY DEF ServeTag, Page
<1> DEFINE a == [p EXCEPT !.pc = "answered", !.status = 304]
           g == [p EXCEPT !.pc = "tagged", !.body.tag = Tag]
<1>3. polls' \subseteq polls \cup {a} \/ polls' \subseteq polls \cup {g}
  BY DEF ServeTag
<1>4. CASE polls' \subseteq polls \cup {a}
  <2>1. a \in PollType
    <3>1. 304 \in Nat
      OBVIOUS
    <3> QED  BY <1>1, <3>1, ZenonT(40) DEF PollType
  <2>2. a.pc = "answered" /\ a.body = p.body
    BY <1>1 DEF PollType
  <2> HIDE DEF a
  <2>3. Serving(a)
    BY <1>1, <2>2, NoBodySound DEF Serving
  <2> QED  BY <1>1, <1>2, <1>4, <2>1, <2>3, PollsMove
<1>5. CASE polls' \subseteq polls \cup {g}
  <2>1. Tag \in ShopTag /\ Tag[1] = weeks /\ Tag[2] = rev
    BY <1>1 DEF Tag, ShopTag
  <2>2. g \in PollType /\ g.pc = "tagged" /\ g.body.tag = Tag
    BY <1>1, <2>1 DEF PollType, BodyType
  <2> HIDE DEF g
  <2>3. Serving(g)
    BY <1>1, <2>1, <2>2 DEF Serving
  <2> QED  BY <1>1, <1>2, <1>5, <2>2, <2>3, PollsMove
<1> QED  BY <1>3, <1>4, <1>5

LEMMA ServeRowsStep ==
  ASSUME ShopInv, NEW p \in polls, ServeRows(p)
  PROVE  ShopInv'
<1>1. /\ p \in PollType /\ p.pc = "tagged"
      /\ p.body.tag[1] <= weeks /\ p.body.tag[2] <= rev
      /\ weeks \in Nat /\ rev \in Nat /\ life \in Nat /\ rows \in Seq(ShopRow)
      /\ etag \in ShopTag /\ polled \in Nat
      /\ Numbered(rows) /\ UpTo(rows, seq, weeks)
  BY DEF ShopInv, ShopTyped, JournalInv, ServeRows, Serving
<1> DEFINE b == [p.body EXCEPT !.week = weeks, !.orders = rows, !.rev = rev, !.life = life]
           a == [p EXCEPT !.pc = "answered", !.status = 200, !.body = b]
<1>2. /\ UNCHANGED Store /\ UNCHANGED <<body, etag, polled>>
      /\ polls' \subseteq polls \cup {a}
  BY DEF ServeRows, Page
<1>3. /\ b \in BodyType /\ b.week = weeks /\ b.orders = rows /\ b.rev = rev
      /\ b.tag = p.body.tag
  BY <1>1 DEF PollType, BodyType
<1> HIDE DEF b
<1>4. Sound(b)
  BY <1>1, <1>3 DEF Sound, UpTo
<1>5. a \in PollType /\ a.pc = "answered" /\ a.body = b
  BY <1>1, <1>3, ZenonT(40) DEF PollType
<1> HIDE DEF a
<1>6. Serving(a)
  BY <1>4, <1>5 DEF Serving
<1> QED  BY <1>1, <1>2, <1>5, <1>6, PollsMove

LEMMA PageSteps ==
  ASSUME ShopInv,
         \/ \E p \in polls : LosePoll(p) \/ Polled(p)
         \/ Poll \/ Advance \/ NoToken \/ Advanced
  PROVE  ShopInv'
<1>0. etag \in ShopTag /\ polled \in Nat /\ NoTag \in ShopTag
  BY NoBodySound DEF ShopInv, ShopTyped
<1> DEFINE fresh(t) == [n |-> polled + 1, none |-> t, pc |-> "sent", status |-> 0,
                        body |-> NoBody]
<1>1. ASSUME NEW t \in ShopTag PROVE fresh(t) \in PollType /\ Serving(fresh(t))
  BY <1>0, NoBodySound DEF PollType, Serving
<1>2. NewPoll = fresh(etag) /\ [NewPoll EXCEPT !.none = NoTag] = fresh(NoTag)
  BY DEF NewPoll
<1>3. \A p \in polls : p \in PollType /\ Serving(p) /\ p.body.tag \in ShopTag
  BY DEF ShopInv, ShopTyped, PollType, BodyType
<1> HIDE DEF fresh
<1>4. ASSUME NEW p \in polls, LosePoll(p) PROVE ShopInv'
  BY <1>0, <1>3, <1>4, PollsMove DEF LosePoll
<1>5. ASSUME NEW p \in polls, Polled(p) PROVE ShopInv'
  <2>1. /\ UNCHANGED Store /\ polls' \subseteq polls \cup {p} /\ polled' = polled
        /\ body' = body \/ body' = p.body
        /\ etag' = etag \/ etag' = p.body.tag
        /\ p.pc = "answered"
    BY <1>5 DEF Polled
  <2> QED  BY <1>0, <1>3, <2>1, PollsMove
<1>6. CASE Poll
  BY <1>0, <1>1, <1>2, <1>6, PollsMove DEF Poll, Page
<1>7. CASE Advance
  <2>1. UNCHANGED Store /\ UNCHANGED <<body, etag, polls, polled>>
    BY <1>7 DEF Advance
  <2> QED  BY <1>0, <1>1, <2>1, PollsMove
<1>8. CASE NoToken
  <2>1. UNCHANGED Store /\ UNCHANGED <<body, etag, polls, polled>>
    BY <1>8 DEF NoToken
  <2> QED  BY <1>0, <1>1, <2>1, PollsMove
<1>9. CASE Advanced
  BY <1>0, <1>1, <1>2, <1>9, PollsMove DEF Advanced
<1> QED  BY <1>4, <1>5, <1>6, <1>7, <1>8, <1>9

LEMMA SoundHistory == ShopInv => HistoryIsSound
<1> SUFFICES ASSUME ShopInv PROVE HistoryIsSound
  OBVIOUS
<1>1. \A b \in Bodies : Sound(b)
  BY DEF Bodies, ShopInv, Serving
<1>2. NumbersDistinct /\ BodyNotBehindTag
  BY <1>1 DEF Sound, Numbered, NumbersDistinct, BodyNotBehindTag
<1>3. \A o \in Range(body.orders) : o.week <= body.week
  BY DEF Range, ShopInv, Sound
<1>4. FiguresAreThisWeek
  BY <1>3 DEF FiguresAreThisWeek, Sections, ThisWeek
<1> QED  BY <1>2, <1>4 DEF HistoryIsSound

LEMMA ShopStep == ShopInv /\ [ShopNext]_storeVars => ShopInv'
<1> SUFFICES ASSUME ShopInv, [ShopNext]_storeVars PROVE ShopInv'
  OBVIOUS
<1>1. CASE UNCHANGED storeVars
  BY <1>1 DEF storeVars, ShopInv, ShopTyped, JournalInv, Serving
<1>2. CASE ShopNext
  BY <1>2, RecordOrderStep, RestartStoreStep, AdvanceWeekStep, ServeTagStep,
     ServeRowsStep, PageSteps DEF ShopNext
<1> QED  BY <1>1, <1>2

(* For any rows kept, orders, weeks, restarts and polls, and however a     *)
(* thread records between the tag and the rows of an answer: no page shows *)
(* two orders under one number, or a body that misses what its tag counts. *)
THEOREM HistoryKeeps == ShopSpec => []HistoryIsSound
BY ShopStart, ShopStep, SoundHistory, PTL DEF ShopSpec

-----------------------------------------------------------------------------
(* The agents' panes.  Every run but the last was aborted, and while one   *)
(* of them has not noticed, the last has read nothing yet; what the last   *)
(* has on the wire goes on where the pane it writes ends.                  *)

Streamed == {"start", "step", "verdict", "done", "error", "cut"}
EventType == [run : Nat, event : Streamed \cup {"none"}, n : Nat, executed : BOOLEAN,
              seq : Nat]
PaneType == [events : Seq(EventType), running : BOOLEAN, queued : BOOLEAN,
             stopped : BOOLEAN, error : BOOLEAN, steps : Nat]

AgentTyped ==
  /\ arms \in [Modes -> PaneType]
  /\ wire \in [Runs -> Seq(EventType)] /\ last \in [Runs -> EventType]
  /\ proc \in [Runs -> Modes \cup {"none", "end"}]
  /\ clicked \in 0 .. MaxRuns /\ aborted = 1 .. clicked - 1
  /\ \A k \in Runs : k > clicked => /\ proc[k] = "none" /\ wire[k] = <<>>
                                    /\ last[k] = NoEvent(k)

(* The verdicts among the events of a pane, and what is said of orders by  *)
(* the event it ends with.                                                 *)
VerdictsIn(es, ex) == {i \in DOMAIN es : es[i].event = "verdict" /\ es[i].executed = ex}
CountIn(es) == Cardinality(VerdictsIn(es, TRUE)) + Cardinality(VerdictsIn(es, FALSE))

Tip(k, es) == IF es = <<>> THEN NoEvent(k) ELSE es[Len(es)]

Tallied(d, c) ==
  /\ d.event \in {"none", "start", "verdict", "done"} => c = d.n
  /\ d.event = "step" => c + 1 = d.n

PaneHolds(m) ==
  LET es == arms[m].events IN
  /\ \A i \in DOMAIN es : es[i].run = clicked /\ es[i].seq = i
  /\ Tallied(Tip(clicked, es), CountIn(es))
  /\ arms[m].stopped => /\ Tip(clicked, es).event \in {"done", "error", "cut"}
                        /\ CountIn(es) = arms[m].steps

Chained(k, d, ws, b) ==
  \A i \in DOMAIN ws :
    /\ ws[i].run = k /\ ws[i].seq = b + i /\ ws[i].event # "none"
    /\ Follows(IF i = 1 THEN d ELSE ws[i - 1], ws[i])

Streaming(k) ==
  LET es == arms[proc[k]].events IN
  /\ Chained(k, Tip(k, es), wire[k], Len(es))
  /\ last[k] = IF wire[k] = <<>> THEN Tip(k, es) ELSE wire[k][Len(wire[k])]

AgentInv ==
  /\ AgentTyped
  /\ \A m \in Modes : PaneHolds(m)
  /\ \A k \in Runs : k = clicked =>
       /\ proc[k] \in Modes => Streaming(k)
       /\ ~Quiet => proc[k] = "enforce"

LEMMA NoEventTyped == ASSUME NEW k \in Nat PROVE NoEvent(k) \in EventType
BY DEF NoEvent, Event, EventType

LEMMA CountNone == CountIn(<<>>) = 0 /\ \A k : Tip(k, <<>>) = NoEvent(k)
<1>1. VerdictsIn(<<>>, TRUE) = {} /\ VerdictsIn(<<>>, FALSE) = {}
  BY DEF VerdictsIn
<1>2. Cardinality(VerdictsIn(<<>>, TRUE)) = 0 /\ Cardinality(VerdictsIn(<<>>, FALSE)) = 0
  BY <1>1, FS_EmptySet
<1> DEFINE a == Cardinality(VerdictsIn(<<>>, TRUE))
           b == Cardinality(VerdictsIn(<<>>, FALSE))
<1>3. CountIn(<<>>) = a + b /\ a = 0 /\ b = 0
  BY <1>2 DEF CountIn
<1> HIDE DEF a, b
<1>4. CountIn(<<>>) = 0
  BY <1>3
<1> QED  BY <1>4 DEF Tip

LEMMA VerdictsFinite ==
  ASSUME NEW es \in Seq(EventType), NEW ex \in BOOLEAN
  PROVE  IsFiniteSet(VerdictsIn(es, ex)) /\ Cardinality(VerdictsIn(es, ex)) \in Nat
<1>1. IsFiniteSet(1 .. Len(es)) /\ VerdictsIn(es, ex) \subseteq 1 .. Len(es)
  BY FS_Interval DEF VerdictsIn
<1> QED  BY <1>1, FS_Subset, FS_CardinalityType

LEMMA CountAppend ==
  ASSUME NEW es \in Seq(EventType), NEW e \in EventType
  PROVE  /\ CountIn(es) \in Nat
         /\ CountIn(Append(es, e)) = CountIn(es) + (IF e.event = "verdict" THEN 1 ELSE 0)
<1> DEFINE n == Len(es) + 1
           t == Append(es, e)
<1>1. /\ t \in Seq(EventType) /\ DOMAIN es = 1 .. Len(es) /\ DOMAIN t = 1 .. n
      /\ Len(es) \in Nat /\ n \notin DOMAIN es
      /\ \A i \in DOMAIN es : t[i] = es[i]
      /\ t[n] = e /\ DOMAIN t = DOMAIN es \cup {n}
  BY AppendProperties
<1> HIDE DEF n, t
<1>2. \A ex \in BOOLEAN : /\ IsFiniteSet(VerdictsIn(es, ex)) /\ n \notin VerdictsIn(es, ex)
                          /\ Cardinality(VerdictsIn(es, ex)) \in Nat
  BY <1>1, VerdictsFinite DEF VerdictsIn
<1>3. \A ex \in BOOLEAN :
        VerdictsIn(t, ex) = IF e.event = "verdict" /\ e.executed = ex
                            THEN VerdictsIn(es, ex) \cup {n} ELSE VerdictsIn(es, ex)
  BY <1>1 DEF VerdictsIn
<1>4. \A ex \in BOOLEAN :
        Cardinality(VerdictsIn(t, ex)) =
          Cardinality(VerdictsIn(es, ex)) + (IF e.event = "verdict" /\ e.executed = ex THEN 1 ELSE 0)
  <2> SUFFICES ASSUME NEW ex \in BOOLEAN
               PROVE  Cardinality(VerdictsIn(t, ex)) = Cardinality(VerdictsIn(es, ex))
                        + (IF e.event = "verdict" /\ e.executed = ex THEN 1 ELSE 0)
    OBVIOUS
  <2>1. CASE e.event = "verdict" /\ e.executed = ex
    <3>1. VerdictsIn(t, ex) = VerdictsIn(es, ex) \cup {n}
      BY <1>3, <2>1
    <3>2. Cardinality(VerdictsIn(es, ex) \cup {n}) = Cardinality(VerdictsIn(es, ex)) + 1
      BY <1>2, FS_AddElement
    <3> QED  BY <2>1, <3>1, <3>2
  <2>2. CASE ~(e.event = "verdict" /\ e.executed = ex)
    <3>1. VerdictsIn(t, ex) = VerdictsIn(es, ex)
      BY <1>3, <2>2
    <3> QED  BY <1>2, <2>2, <3>1
  <2> QED  BY <2>1, <2>2
<1>5. e.executed \in BOOLEAN
  BY DEF EventType
<1> DEFINE a == Cardinality(VerdictsIn(es, TRUE))
           b == Cardinality(VerdictsIn(es, FALSE))
           f == Cardinality(VerdictsIn(t, TRUE))
           g == Cardinality(VerdictsIn(t, FALSE))
<1>6. /\ a \in Nat /\ b \in Nat
      /\ f = a + (IF e.event = "verdict" /\ e.executed = TRUE THEN 1 ELSE 0)
      /\ g = b + (IF e.event = "verdict" /\ e.executed = FALSE THEN 1 ELSE 0)
  BY <1>2, <1>4
<1>7. CountIn(es) = a + b /\ CountIn(t) = f + g
  BY DEF CountIn
<1> HIDE DEF a, b, f, g
<1>8. f + g = a + b + (IF e.event = "verdict" THEN 1 ELSE 0)
  <2>1. CASE e.executed = TRUE
    BY <1>6, <2>1
  <2>2. CASE e.executed = FALSE
    BY <1>6, <2>2
  <2> QED  BY <1>5, <2>1, <2>2
<1> QED  BY <1>6, <1>7, <1>8 DEF t

LEMMA ChainedAppend ==
  ASSUME NEW k, NEW d, NEW ws \in Seq(EventType), NEW b \in Nat, Chained(k, d, ws, b),
         NEW e \in EventType, e.run = k, e.seq = b + Len(ws) + 1, e.event # "none",
         Follows(IF ws = <<>> THEN d ELSE ws[Len(ws)], e)
  PROVE  Chained(k, d, Append(ws, e), b)
<1> DEFINE t == Append(ws, e)
<1>1. /\ Len(ws) \in Nat /\ DOMAIN ws = 1 .. Len(ws) /\ DOMAIN t = 1 .. Len(ws) + 1
      /\ \A i \in 1 .. Len(ws) : t[i] = ws[i]
      /\ t[Len(ws) + 1] = e
  BY AppendProperties
<1>2. ws = <<>> <=> Len(ws) = 0
  BY EmptySeq
<1> HIDE DEF t
<1>3. ASSUME NEW i \in DOMAIN t
      PROVE  /\ t[i].run = k /\ t[i].seq = b + i /\ t[i].event # "none"
             /\ Follows(IF i = 1 THEN d ELSE t[i - 1], t[i])
  <2>1. CASE i \in 1 .. Len(ws)
    <3>1. t[i] = ws[i] /\ (i # 1 => t[i - 1] = ws[i - 1]) /\ i \in DOMAIN ws
      BY <1>1, <2>1
    <3> QED  BY <3>1 DEF Chained
  <2>2. CASE i = Len(ws) + 1
    <3>1. t[i] = e /\ (i = 1 <=> ws = <<>>) /\ (i # 1 => t[i - 1] = ws[Len(ws)])
      BY <1>1, <1>2, <2>2
    <3>2. e.seq = b + i
      BY <1>1, <2>2
    <3> QED  BY <3>1, <3>2
  <2> QED  BY <1>1, <2>1, <2>2
<1> QED  BY <1>3 DEF Chained, t

LEMMA ChainedTail ==
  ASSUME NEW k, NEW d, NEW ws \in Seq(EventType), NEW b \in Nat, Chained(k, d, ws, b), ws # <<>>
  PROVE  /\ Head(ws) \in EventType /\ Head(ws).run = k /\ Head(ws).seq = b + 1
         /\ Head(ws).event # "none" /\ Follows(d, Head(ws))
         /\ Tail(ws) \in Seq(EventType) /\ Chained(k, Head(ws), Tail(ws), b + 1)
         /\ ws[Len(ws)] = IF Tail(ws) = <<>> THEN Head(ws) ELSE Tail(ws)[Len(Tail(ws))]
<1> DEFINE h == Head(ws)
           t == Tail(ws)
<1>1. /\ Len(ws) \in Nat \ {0} /\ DOMAIN ws = 1 .. Len(ws) /\ h = ws[1]
      /\ t \in Seq(EventType) /\ Len(t) = Len(ws) - 1 /\ DOMAIN t = 1 .. Len(t)
      /\ \A i \in 1 .. Len(t) : t[i] = ws[i + 1]
      /\ h \in EventType
  BY HeadTailProperties, EmptySeq
<1>2. t = <<>> <=> Len(t) = 0
  BY <1>1, EmptySeq
<1> HIDE DEF h, t
<1>3. h.run = k /\ h.seq = b + 1 /\ h.event # "none" /\ Follows(d, h)
  BY <1>1 DEF Chained
<1>4. ASSUME NEW i \in DOMAIN t
      PROVE  /\ t[i].run = k /\ t[i].seq = b + 1 + i /\ t[i].event # "none"
             /\ Follows(IF i = 1 THEN h ELSE t[i - 1], t[i])
  <2>1. PICK j \in DOMAIN ws : j = i + 1
    BY <1>1
  <2>2. /\ i \in Nat /\ i >= 1 /\ t[i] = ws[j] /\ j # 1 /\ j - 1 = i
        /\ b + 1 + i = b + j
    <3>1. i \in Nat /\ i >= 1
      BY <1>1
    <3>2. t[i] = ws[i + 1]
      BY <1>1
    <3>3. t[i] = ws[j]
      BY <2>1, <3>2
    <3> QED  BY <2>1, <3>1, <3>3
  <2>3. /\ ws[j].run = k /\ ws[j].seq = b + j /\ ws[j].event # "none"
        /\ Follows(IF j = 1 THEN d ELSE ws[j - 1], ws[j])
    BY DEF Chained
  <2>4. Follows(ws[i], ws[j])
    BY <2>2, <2>3
  <2>5. ws[i] = IF i = 1 THEN h ELSE t[i - 1]
    BY <1>1
  <2> QED  BY <2>2, <2>3, <2>4, <2>5
<1>5. Chained(k, h, t, b + 1)
  BY <1>4 DEF Chained
<1>6. ws[Len(ws)] = IF t = <<>> THEN h ELSE t[Len(t)]
  <2>1. CASE Len(t) = 0
    BY <1>1, <1>2, <2>1
  <2>2. CASE Len(t) # 0
    BY <1>1, <1>2, <2>2
  <2> QED  BY <2>1, <2>2
<1> QED  BY <1>1, <1>3, <1>5, <1>6 DEF h, t

(* One event read keeps the pane: an order proposed waits for its verdict, *)
(* and only a pane where none waits says it is done.                       *)
LEMMA TallyGrows ==
  ASSUME NEW k, NEW es \in Seq(EventType), NEW e \in EventType, e.event # "none",
         Tip(k, es) \in EventType, Follows(Tip(k, es), e), Tallied(Tip(k, es), CountIn(es))
  PROVE  /\ Tallied(e, CountIn(Append(es, e)))
         /\ e.event = "done" => CountIn(Append(es, e)) = e.n
         /\ Tip(k, es).event \in {"done", "error", "cut"} => e.event \in {"error", "cut"}
<1> DEFINE d == Tip(k, es)
           c == CountIn(es)
           f == CountIn(Append(es, e))
<1>1. c \in Nat /\ f = c + (IF e.event = "verdict" THEN 1 ELSE 0)
  BY CountAppend
<1>2. /\ d.n \in Nat /\ e.n \in Nat
      /\ e.event \in Streamed /\ d.event \in Streamed \cup {"none"}
  BY DEF EventType
<1> HIDE DEF d, c, f
<1>3. /\ e.n = IF e.event = "step" THEN d.n + 1 ELSE d.n
      /\ e.event = "start" => d.event = "none"
      /\ e.event \in {"step", "done"} => d.event \in {"start", "verdict"}
      /\ e.event = "verdict" => d.event = "step"
  BY <1>2 DEF Follows, d, Streamed
<1>4. /\ d.event \in {"none", "start", "verdict", "done"} => c = d.n
      /\ d.event = "step" => c + 1 = d.n
  BY DEF Tallied, d, c
<1>5. e.event \in {"start", "done"} => f = e.n
  BY <1>1, <1>2, <1>3, <1>4
<1>6. e.event = "verdict" => f = e.n
  BY <1>1, <1>2, <1>3, <1>4
<1>7. e.event = "step" => f + 1 = e.n
  BY <1>1, <1>2, <1>3, <1>4
<1>8. d.event \in {"done", "error", "cut"} => e.event \in {"error", "cut"}
  BY <1>2, <1>3 DEF Streamed
<1> QED  BY <1>5, <1>6, <1>7, <1>8 DEF Tallied, d, f
LEMMA AgentStart == AgentInit => AgentInv
<1> SUFFICES ASSUME AgentInit PROVE AgentInv
  OBVIOUS
<1>0. MaxRuns \in Nat
  BY AgentAssumption
<1>1. Empty \in PaneType /\ Empty.events = <<>> /\ Empty.stopped = FALSE
  BY DEF Empty, PaneType
<1>2. \A m \in Modes : arms[m] = Empty
  BY DEF AgentInit
<1>3. \A k \in Runs : NoEvent(k) \in EventType
  BY NoEventTyped DEF Runs
<1>4. AgentTyped
  BY <1>0, <1>1, <1>3 DEF AgentInit, AgentTyped, Runs
<1>5. \A m \in Modes : PaneHolds(m)
  <2> SUFFICES ASSUME NEW m \in Modes PROVE PaneHolds(m)
    OBVIOUS
  <2>1. arms[m].events = <<>> /\ arms[m].stopped = FALSE
    BY <1>1, <1>2
  <2>2. Tallied(Tip(clicked, <<>>), CountIn(<<>>))
    BY CountNone DEF Tallied, NoEvent, Event
  <2> QED  BY <2>1, <2>2 DEF PaneHolds
<1>6. \A k \in Runs : k # clicked
  BY DEF AgentInit, Runs
<1> QED  BY <1>4, <1>5, <1>6 DEF AgentInv

(* Only the last run of all can be read while the page is quiet.           *)
LEMMA OnlyLast ==
  ASSUME AgentInv, NEW k \in Runs, proc[k] \in Modes, k \notin aborted
  PROVE  k = clicked
<1>1. /\ k \in 1 .. MaxRuns /\ clicked \in 0 .. MaxRuns /\ aborted = 1 .. clicked - 1
      /\ MaxRuns \in Nat
      /\ k > clicked => proc[k] = "none"
  BY AgentAssumption DEF AgentInv, AgentTyped, Runs
<1>2. ~(k > clicked)
  BY <1>1 DEF Modes
<1> QED  BY <1>1, <1>2

LEMMA TipTyped ==
  ASSUME NEW k \in Nat, NEW es \in Seq(EventType)
  PROVE  Tip(k, es) \in EventType
<1>1. CASE es = <<>>
  BY <1>1, NoEventTyped DEF Tip
<1>2. CASE es # <<>>
  <2>1. Len(es) \in DOMAIN es
    BY <1>2, EmptySeq
  <2> QED  BY <1>2, <2>1 DEF Tip
<1> QED  BY <1>1, <1>2

LEMMA LastSeq ==
  ASSUME AgentInv, NEW k \in Runs, k = clicked, proc[k] \in Modes
  PROVE  last[k].seq = Len(arms[proc[k]].events) + Len(wire[k])
<1> DEFINE es == arms[proc[k]].events
           ws == wire[k]
<1>1. es \in Seq(EventType) /\ ws \in Seq(EventType)
  BY DEF AgentInv, AgentTyped, PaneType
<1>2. /\ Chained(k, Tip(k, es), ws, Len(es))
      /\ last[k] = IF ws = <<>> THEN Tip(k, es) ELSE ws[Len(ws)]
      /\ \A i \in DOMAIN es : es[i].seq = i
  BY DEF AgentInv, Streaming, PaneHolds
<1> SUFFICES last[k].seq = Len(es) + Len(ws)
  OBVIOUS
<1> HIDE DEF es, ws
<1>5. Len(es) \in Nat
  BY <1>1
<1>3. CASE ws = <<>>
  <2>1. Len(ws) = 0 /\ last[k] = Tip(k, es)
    BY <1>2, <1>3
  <2>2. CASE es = <<>>
    BY EmptySeq, <1>5, <2>1, <2>2 DEF Tip, NoEvent, Event
  <2>3. CASE es # <<>>
    <3>1. Len(es) \in DOMAIN es /\ Len(es) \in Nat
      BY <1>1, <2>3, EmptySeq
    <3> QED  BY <1>2, <2>1, <2>3, <3>1 DEF Tip
  <2> QED  BY <2>2, <2>3
<1>4. CASE ws # <<>>
  <2>1. Len(ws) \in DOMAIN ws
    BY <1>1, <1>4, EmptySeq
  <2>2. ws[Len(ws)].seq = Len(es) + Len(ws)
    BY <1>2, <2>1 DEF Chained
  <2> QED  BY <1>2, <1>4, <2>2
<1> QED  BY <1>3, <1>4

(* The stream of the last run is left alone.                               *)
LEMMA StreamStays ==
  ASSUME NEW k \in Runs, Streaming(k), proc[k] \in Modes,
         clicked' = clicked, proc'[k] = proc[k], wire'[k] = wire[k], last'[k] = last[k],
         arms'[proc[k]].events = arms[proc[k]].events
  PROVE  Streaming(k)'
BY DEF Streaming

LEMMA SendKeeps ==
  ASSUME AgentInv, NEW k \in Runs, Send(k)
  PROVE  AgentInv'
<1>1. /\ wire \in [Runs -> Seq(EventType)] /\ last \in [Runs -> EventType]
      /\ arms \in [Modes -> PaneType] /\ clicked \in 0 .. MaxRuns /\ MaxRuns \in Nat
      /\ aborted = 1 .. clicked - 1 /\ Runs = 1 .. MaxRuns
      /\ \A j \in Runs : j > clicked => proc[j] = "none"
  BY AgentAssumption DEF AgentInv, AgentTyped, Runs
<1>2. PICK e : /\ \E kind \in Streamed, n \in 0 .. MaxProposals, ex \in BOOLEAN :
                    e = Event(k, kind, n, ex, last[k].seq + 1)
               /\ Follows(last[k], e)
               /\ wire' = [wire EXCEPT ![k] = Append(wire[k], e)]
               /\ last' = [last EXCEPT ![k] = e]
  BY DEF Send, Streamed
<1>3. UNCHANGED <<arms, aborted, proc, clicked>> /\ proc[k] \in Modes
  BY DEF Send
<1>4. /\ e \in EventType /\ e.run = k /\ e.seq = last[k].seq + 1 /\ e.event # "none"
  <2>1. last[k].seq \in Nat /\ k \in Nat
    BY <1>1 DEF EventType
  <2> QED  BY <1>2, <2>1, AgentAssumption DEF Event, EventType, Streamed
<1>5. /\ wire'[k] = Append(wire[k], e) /\ last'[k] = e
      /\ \A j \in Runs : j # k => wire'[j] = wire[j] /\ last'[j] = last[j]
  BY <1>1, <1>2
<1>6. ~(k > clicked)
  BY <1>1, <1>3 DEF Modes
<1>7. AgentTyped'
  <2>1. wire' \in [Runs -> Seq(EventType)] /\ last' \in [Runs -> EventType]
    BY <1>1, <1>2, <1>4, AppendProperties
  <2>2. \A j \in Runs : j > clicked => wire'[j] = <<>> /\ last'[j] = NoEvent(j)
    BY <1>5, <1>6 DEF AgentInv, AgentTyped
  <2> QED  BY <1>3, <2>1, <2>2 DEF AgentInv, AgentTyped
<1>8. ASSUME NEW m \in Modes PROVE PaneHolds(m)'
  BY <1>3 DEF AgentInv, PaneHolds, Tip
<1>9. ASSUME NEW j \in Runs, j = clicked, proc[j] \in Modes PROVE Streaming(j)'
  <2>1. Streaming(j)
    BY <1>9 DEF AgentInv
  <2>2. CASE j # k
    BY <1>3, <1>5, <1>9, <2>1, <2>2, StreamStays
  <2>3. CASE j = k
    <3> DEFINE es == arms[proc[k]].events
               ws == wire[k]
    <3>1. es \in Seq(EventType) /\ ws \in Seq(EventType) /\ Len(es) \in Nat
      BY <1>1, <1>3 DEF PaneType
    <3>2. /\ Chained(k, Tip(k, es), ws, Len(es))
          /\ last[k] = IF ws = <<>> THEN Tip(k, es) ELSE ws[Len(ws)]
      BY <2>1, <2>3 DEF Streaming
    <3>3. last[k].seq = Len(es) + Len(ws)
      BY <1>9, <2>3, LastSeq
    <3>4. arms'[proc'[k]].events = es /\ wire'[k] = Append(ws, e) /\ last'[k] = e
          /\ e.run = clicked
      BY <1>3, <1>4, <1>5, <1>9, <2>3
    <3> HIDE DEF es, ws
    <3>5. Len(ws) \in Nat /\ Append(ws, e) # <<>> /\ Append(ws, e)[Len(Append(ws, e))] = e
      BY <1>4, <3>1, AppendProperties
    <3>6. Chained(k, Tip(k, es), Append(ws, e), Len(es))
      BY <1>2, <1>4, <3>1, <3>2, <3>3, <3>4, <3>5, ChainedAppend
    <3> QED  BY <2>3, <3>4, <3>5, <3>6 DEF Streaming
  <2> QED  BY <2>2, <2>3
<1>10. Quiet' = Quiet
  BY <1>3 DEF Quiet
<1> QED  BY <1>3, <1>7, <1>8, <1>9, <1>10 DEF AgentInv

(* The reading of one event: it goes on where the pane ends.               *)
LEMMA ReadKeeps ==
  ASSUME AgentInv, NEW k \in Runs, ReadEvent(k)
  PROVE  AgentInv'
<1> DEFINE m == proc[k]
           es == arms[m].events
           ws == wire[k]
           e == Head(ws)
           new == OnEvent(arms[m], e)
<1>1. /\ Quiet /\ m \in Modes /\ ws # <<>>
      /\ arms' = [arms EXCEPT ![m] = new] /\ wire' = [wire EXCEPT ![k] = Tail(ws)]
      /\ UNCHANGED <<aborted, proc, last, clicked>>
  BY DEF ReadEvent
<1>2. k = clicked
  BY <1>1, OnlyLast DEF Quiet
<1>3. /\ wire \in [Runs -> Seq(EventType)] /\ arms \in [Modes -> PaneType]
      /\ arms[m] \in PaneType /\ es \in Seq(EventType) /\ ws \in Seq(EventType)
      /\ k \in Nat /\ Len(es) \in Nat
  BY <1>1, AgentAssumption DEF AgentInv, AgentTyped, PaneType, Runs
<1>4. /\ Chained(k, Tip(k, es), ws, Len(es))
      /\ last[k] = IF ws = <<>> THEN Tip(k, es) ELSE ws[Len(ws)]
  BY <1>1, <1>2 DEF AgentInv, Streaming
<1>5. /\ \A i \in DOMAIN es : es[i].run = k /\ es[i].seq = i
      /\ Tallied(Tip(k, es), CountIn(es))
      /\ arms[m].stopped => /\ Tip(k, es).event \in {"done", "error", "cut"}
                            /\ CountIn(es) = arms[m].steps
  BY <1>1, <1>2 DEF AgentInv, PaneHolds
<1>6. /\ new.events = Append(es, e)
      /\ new.steps = (IF e.event \in {"step", "verdict", "done"} THEN e.n ELSE arms[m].steps)
      /\ new.stopped = (arms[m].stopped \/ e.event = "done")
  BY <1>3 DEF OnEvent, PaneType
<1>7. /\ e \in EventType /\ e.run = k /\ e.seq = Len(es) + 1 /\ e.event # "none"
      /\ Follows(Tip(k, es), e)
      /\ Tail(ws) \in Seq(EventType) /\ Chained(k, e, Tail(ws), Len(es) + 1)
      /\ ws[Len(ws)] = IF Tail(ws) = <<>> THEN e ELSE Tail(ws)[Len(Tail(ws))]
  <2> HIDE DEF es, ws
  <2> QED  BY <1>1, <1>3, <1>4, ChainedTail, SMTT(40) DEF e
<1>8. new \in PaneType
  <2>1. Append(es, e) \in Seq(EventType) /\ e.n \in Nat
    BY <1>3, <1>7, AppendProperties DEF EventType
  <2> QED  BY <1>3, <2>1, ZenonT(40) DEF OnEvent, PaneType
<1>9. /\ arms'[m] = new /\ wire'[k] = Tail(ws)
      /\ \A j \in Modes : j # m => arms'[j] = arms[j]
      /\ \A j \in Runs : j # k => wire'[j] = wire[j]
  BY <1>1, <1>3
<1> HIDE DEF new, e, ws, es, m
<1>10. AgentTyped'
  <2>1. wire' \in [Runs -> Seq(EventType)] /\ arms' \in [Modes -> PaneType]
    BY <1>1, <1>3, <1>7, <1>8
  <2>2. \A j \in Runs : j > clicked => wire'[j] = wire[j]
    BY <1>2, <1>3, <1>9
  <2> QED  BY <1>1, <2>1, <2>2 DEF AgentInv, AgentTyped
<1>11. /\ Append(es, e) # <<>> /\ Tip(k, Append(es, e)) = e
       /\ Len(Append(es, e)) = Len(es) + 1
       /\ \A i \in DOMAIN Append(es, e) : Append(es, e)[i].run = k /\ Append(es, e)[i].seq = i
  <2> DEFINE t == Append(es, e)
  <2>1. /\ t # <<>> /\ Len(t) = Len(es) + 1 /\ DOMAIN t = 1 .. Len(es) + 1
        /\ DOMAIN es = 1 .. Len(es)
        /\ \A i \in 1 .. Len(es) : t[i] = es[i]
        /\ t[Len(es) + 1] = e
    BY <1>3, <1>7, AppendProperties
  <2> HIDE DEF t
  <2>2. Tip(k, t) = e
    BY <2>1 DEF Tip
  <2>3. \A i \in DOMAIN t : t[i].run = k /\ t[i].seq = i
    BY <1>3, <1>5, <1>7, <2>1
  <2> QED  BY <2>1, <2>2, <2>3 DEF t
<1>12. ASSUME NEW j \in Modes PROVE PaneHolds(j)'
  <2>1. CASE j # m
    <3>1. PaneHolds(j) /\ arms'[j] = arms[j] /\ clicked' = clicked
      BY <1>1, <1>9, <2>1 DEF AgentInv
    <3> QED  BY <3>1 DEF PaneHolds
  <2>2. CASE j = m
    <3>1. Tip(k, es) \in EventType
      BY <1>3, TipTyped
    <3>2. /\ Tallied(e, CountIn(Append(es, e)))
          /\ e.event = "done" => CountIn(Append(es, e)) = e.n
          /\ Tip(k, es).event \in {"done", "error", "cut"} => e.event \in {"error", "cut"}
      BY <1>3, <1>5, <1>7, <3>1, TallyGrows
    <3>3. CountIn(Append(es, e)) = CountIn(es) + (IF e.event = "verdict" THEN 1 ELSE 0)
          /\ CountIn(es) \in Nat
      BY <1>3, <1>7, CountAppend
    <3>4. ASSUME new.stopped
          PROVE  /\ e.event \in {"done", "error", "cut"}
                 /\ CountIn(Append(es, e)) = new.steps
      <4>1. CASE e.event = "done"
        BY <1>6, <3>2, <4>1
      <4>2. CASE e.event # "done"
        <5>1. arms[m].stopped
          BY <1>6, <3>4, <4>2
        <5>2. e.event \in {"error", "cut"} /\ CountIn(es) = arms[m].steps
          BY <1>5, <3>2, <5>1
        <5> QED  BY <1>6, <3>3, <5>2
      <4> QED  BY <4>1, <4>2
    <3>5. clicked' = k /\ arms'[j].events = Append(es, e)
          /\ arms'[j].stopped = new.stopped /\ arms'[j].steps = new.steps
      BY <1>1, <1>2, <1>6, <1>9, <2>2
    <3> QED  BY <1>11, <3>2, <3>4, <3>5 DEF PaneHolds
  <2> QED  BY <2>1, <2>2
<1>13. Streaming(k)'
  <2>1. proc'[k] = m /\ arms'[m].events = Append(es, e) /\ wire'[k] = Tail(ws)
        /\ last'[k] = ws[Len(ws)]
    BY <1>1, <1>4, <1>6, <1>9 DEF m
  <2>2. /\ Chained(k, Tip(k, Append(es, e)), Tail(ws), Len(Append(es, e)))
        /\ ws[Len(ws)] = IF Tail(ws) = <<>> THEN Tip(k, Append(es, e))
                         ELSE Tail(ws)[Len(Tail(ws))]
    BY <1>7, <1>11
  <2> QED  BY <2>1, <2>2 DEF Streaming
<1>14. Quiet'
  BY <1>1 DEF Quiet
<1> QED  BY <1>1, <1>2, <1>10, <1>12, <1>13, <1>14 DEF AgentInv

(* An arm that ends, of the last run or of one that was aborted: the panes *)
(* keep what they show, but for the one the second arm begins.             *)
ShowsSame(as) ==
  /\ as \in [Modes -> PaneType]
  /\ \A m \in Modes : /\ as[m].events = arms[m].events
                      /\ as[m].stopped = arms[m].stopped /\ as[m].steps = arms[m].steps

LEMMA EmptyPane ==
  ASSUME NEW p, p = Empty \/ p = [Empty EXCEPT !.running = TRUE]
                \/ p = [Empty EXCEPT !.queued = TRUE]
  PROVE  p \in PaneType /\ p.events = <<>> /\ p.stopped = FALSE
<1>1. Empty \in PaneType /\ Empty.events = <<>> /\ Empty.stopped = FALSE
  BY DEF Empty, PaneType
<1>2. \A q \in PaneType : /\ [q EXCEPT !.running = TRUE] \in PaneType
                          /\ [q EXCEPT !.queued = TRUE] \in PaneType
                          /\ [q EXCEPT !.running = TRUE].events = q.events
                          /\ [q EXCEPT !.queued = TRUE].events = q.events
                          /\ [q EXCEPT !.running = TRUE].stopped = q.stopped
                          /\ [q EXCEPT !.queued = TRUE].stopped = q.stopped
  BY DEF PaneType
<1> QED  BY <1>1, <1>2

LEMMA EmptyHolds ==
  ASSUME NEW m, arms'[m].events = <<>>, arms'[m].stopped = FALSE
  PROVE  PaneHolds(m)'
<1>1. Tallied(NoEvent(clicked'), 0)
  BY DEF Tallied, NoEvent, Event
<1>2. CountIn(<<>>) = 0 /\ Tip(clicked', <<>>) = NoEvent(clicked')
  BY CountNone
<1> QED  BY <1>1, <1>2 DEF PaneHolds

LEMMA ReturnKeeps ==
  ASSUME AgentInv, NEW k \in Runs, proc[k] \in Modes, NEW as, ShowsSame(as),
         ReturnArm(k, as), (k = clicked /\ Quiet) \/ k \in aborted
  PROVE  AgentInv'
<1>1. /\ wire' = [wire EXCEPT ![k] = <<>>] /\ last' = [last EXCEPT ![k] = NoEvent(k)]
      /\ UNCHANGED <<aborted, clicked>>
  BY DEF ReturnArm
<1>2. \/ proc[k] = "enforce" /\ arms' = Begin(as) /\ proc' = [proc EXCEPT ![k] = "observe"]
      \/ proc[k] = "observe" /\ arms' = as /\ proc' = [proc EXCEPT ![k] = "end"]
  BY DEF ReturnArm, Modes
<1>3. /\ wire \in [Runs -> Seq(EventType)] /\ last \in [Runs -> EventType]
      /\ proc \in [Runs -> Modes \cup {"none", "end"}] /\ aborted = 1 .. clicked - 1
      /\ k \in Nat /\ clicked \in 0 .. MaxRuns /\ clicked \in Nat /\ ~(k > clicked)
      /\ as \in [Modes -> PaneType]
      /\ MaxRuns \in Nat /\ Runs = 1 .. MaxRuns
  <2>1. /\ wire \in [Runs -> Seq(EventType)] /\ last \in [Runs -> EventType]
        /\ proc \in [Runs -> Modes \cup {"none", "end"}] /\ aborted = 1 .. clicked - 1
        /\ clicked \in 0 .. MaxRuns /\ (k > clicked => proc[k] = "none")
    BY DEF AgentInv, AgentTyped
  <2>2. MaxRuns \in Nat /\ Runs = 1 .. MaxRuns
    BY AgentAssumption DEF Runs
  <2>3. proc[k] # "none"
    BY DEF Modes
  <2>4. k \in Nat /\ clicked \in Nat
    BY <2>1, <2>2
  <2>5. ~(k > clicked)
    BY <2>1, <2>3
  <2>6. as \in [Modes -> PaneType]
    BY DEF ShowsSame
  <2> QED  BY <2>1, <2>2, <2>4, <2>5, <2>6
<1> DEFINE p == [Empty EXCEPT !.running = TRUE]
<1>4. p \in PaneType /\ p.events = <<>> /\ p.stopped = FALSE
  BY EmptyPane
<1>5. Begin(as) = [as EXCEPT !["observe"] = p]
  BY DEF Begin
<1> HIDE DEF p
<1>6. /\ arms' \in [Modes -> PaneType]
      /\ \A m \in Modes : \/ arms'[m] = as[m]
                          \/ m = "observe" /\ arms'[m] = p /\ proc[k] = "enforce"
      /\ proc[k] = "enforce" => arms'["observe"] = p
  <2>0. "observe" \in Modes
    BY DEF Modes
  <2>1. CASE proc[k] = "enforce"
    <3>1. arms' = [as EXCEPT !["observe"] = p]
      BY <1>2, <1>5, <2>1
    <3> QED  BY <1>3, <1>4, <2>0, <2>1, <3>1
  <2>2. CASE proc[k] = "observe"
    BY <1>2, <1>3, <2>2
  <2> QED  BY <2>1, <2>2 DEF Modes
<1>7. /\ wire'[k] = <<>> /\ last'[k] = NoEvent(k)
      /\ proc'[k] = (IF proc[k] = "enforce" THEN "observe" ELSE "end")
      /\ \A j \in Runs : j # k => /\ wire'[j] = wire[j] /\ last'[j] = last[j]
                                  /\ proc'[j] = proc[j]
  BY <1>1, <1>2, <1>3
<1>8. AgentTyped'
  <2>1. /\ wire' \in [Runs -> Seq(EventType)] /\ last' \in [Runs -> EventType]
        /\ proc' \in [Runs -> Modes \cup {"none", "end"}]
    <3>1. NoEvent(k) \in EventType /\ <<>> \in Seq(EventType)
      BY <1>3, NoEventTyped
    <3>2. "observe" \in Modes
      BY DEF Modes
    <3> QED  BY <1>1, <1>2, <1>3, <3>1, <3>2
  <2>2. \A j \in Runs : j > clicked => /\ wire'[j] = wire[j] /\ last'[j] = last[j]
                                       /\ proc'[j] = proc[j]
    BY <1>3, <1>7
  <2> QED  BY <1>1, <1>6, <2>1, <2>2 DEF AgentInv, AgentTyped
<1>9. ASSUME NEW m \in Modes PROVE PaneHolds(m)'
  <2>1. CASE arms'[m] = as[m]
    <3>1. /\ arms'[m].events = arms[m].events /\ arms'[m].stopped = arms[m].stopped
          /\ arms'[m].steps = arms[m].steps /\ clicked' = clicked
      BY <1>1, <2>1 DEF ShowsSame
    <3>2. PaneHolds(m)
      BY DEF AgentInv
    <3> QED  BY <3>1, <3>2 DEF PaneHolds
  <2>2. CASE arms'[m] = p
    BY <1>4, <2>2, EmptyHolds
  <2> QED  BY <1>6, <2>1, <2>2
<1>10. ASSUME NEW j \in Runs, j = clicked, proc'[j] \in Modes PROVE Streaming(j)'
  <2>1. CASE j = k
    <3>1. proc'[k] = "observe" /\ arms'["observe"].events = <<>>
      BY <1>4, <1>6, <1>7, <1>10, <2>1 DEF Modes
    <3>2. Tip(k, <<>>) = NoEvent(k) /\ Chained(k, NoEvent(k), <<>>, Len(<<>>))
      BY CountNone DEF Chained
    <3> QED  BY <1>7, <2>1, <3>1, <3>2 DEF Streaming
  <2>2. CASE j # k
    <3>1. k \in aborted /\ ~Quiet
      BY <1>10, <2>2 DEF Quiet
    <3>2. proc[j] = "enforce" /\ Streaming(j)
      BY <1>10, <3>1 DEF AgentInv, Modes
    <3>3. arms'["enforce"] = as["enforce"] /\ "enforce" \in Modes
      BY <1>6 DEF Modes
    <3>4. arms'[proc[j]].events = arms[proc[j]].events
      BY <3>2, <3>3, ZenonT(40) DEF ShowsSame
    <3> QED  BY <1>1, <1>7, <2>2, <3>2, <3>3, <3>4, StreamStays
  <2> QED  BY <2>1, <2>2
<1>11. ASSUME NEW j \in Runs, j = clicked, ~Quiet' PROVE proc'[j] = "enforce"
  <2>1. PICK i \in aborted : proc'[i] \in Modes
    BY <1>1, <1>11 DEF Quiet
  <2>2. i \in Runs /\ i # clicked /\ proc[i] \in Modes
    <3>1. i \in Runs /\ i # clicked
      BY <1>3, <1>11 DEF Runs
    <3> QED  BY <1>7, <2>1, <3>1
  <2>3. proc[j] = "enforce" /\ ~Quiet
    BY <1>11, <2>1, <2>2 DEF AgentInv, Quiet
  <2>4. j # k
    BY <1>3, <1>11, <2>3
  <2> QED  BY <1>7, <2>3, <2>4
<1> QED  BY <1>1, <1>8, <1>9, <1>10, <1>11 DEF AgentInv

LEMMA FailedShowsSame ==
  ASSUME AgentInv, NEW m \in Modes
  PROVE  ShowsSame(arms) /\ ShowsSame(Failed(arms, m))
<1>1. arms \in [Modes -> PaneType]
  BY DEF AgentInv, AgentTyped
<1> DEFINE q == [arms[m] EXCEPT !.running = FALSE, !.error = TRUE]
<1>2. q \in PaneType /\ q.events = arms[m].events /\ q.stopped = arms[m].stopped
      /\ q.steps = arms[m].steps
  BY <1>1 DEF PaneType
<1>3. Failed(arms, m) = [arms EXCEPT ![m] = q]
  BY <1>1 DEF Failed
<1> HIDE DEF q
<1> QED  BY <1>1, <1>2, <1>3 DEF ShowsSame

LEMMA EndKeeps ==
  ASSUME AgentInv, NEW k \in Runs, Close(k) \/ Refused(k) \/ Aborted(k)
  PROVE  AgentInv'
<1>1. proc[k] \in Modes
  BY DEF Close, Refused, Aborted
<1>2. (k = clicked /\ Quiet) \/ k \in aborted
  BY <1>1, OnlyLast DEF Close, Refused, Aborted
<1>3. PICK as : ReturnArm(k, as) /\ (as = arms \/ as = Failed(arms, proc[k]))
  BY DEF Close, Refused, Aborted
<1>4. ShowsSame(as)
  BY <1>1, <1>3, FailedShowsSame
<1> QED  BY <1>1, <1>2, <1>3, <1>4, ReturnKeeps

LEMMA RunKeeps ==
  ASSUME AgentInv, RunBoth
  PROVE  AgentInv'
<1>0. PICK k : k = clicked + 1
  OBVIOUS
<1>1. /\ wire \in [Runs -> Seq(EventType)] /\ last \in [Runs -> EventType]
      /\ proc \in [Runs -> Modes \cup {"none", "end"}] /\ aborted = 1 .. clicked - 1
      /\ clicked \in 0 .. MaxRuns
      /\ \A j \in Runs : j > clicked => /\ proc[j] = "none" /\ wire[j] = <<>>
                                        /\ last[j] = NoEvent(j)
  BY DEF AgentInv, AgentTyped
<1>2. /\ Quiet /\ clicked < MaxRuns /\ clicked' = k
      /\ IF clicked = 0 THEN aborted' = aborted ELSE aborted' = aborted \cup {k - 1}
      /\ proc' = [proc EXCEPT ![k] = "enforce"] /\ UNCHANGED <<wire, last>>
      /\ arms' = [m \in Modes |-> IF m = "enforce" THEN [Empty EXCEPT !.running = TRUE]
                                  ELSE [Empty EXCEPT !.queued = TRUE]]
  BY <1>0 DEF RunBoth, AbortPrevious
<1>3. /\ clicked \in Nat /\ MaxRuns \in Nat /\ Runs = 1 .. MaxRuns
      /\ k \in Runs /\ k > clicked /\ k - 1 = clicked
  BY <1>0, <1>1, <1>2, AgentAssumption DEF Runs
<1>4. aborted' = 1 .. k - 1
  <2>1. CASE clicked = 0
    <3>1. aborted' = {} /\ k = 1
      BY <1>0, <1>1, <1>2, <2>1
    <3> QED  BY <3>1
  <2>2. CASE clicked # 0
    <3>1. aborted' = (1 .. clicked - 1) \cup {clicked}
      BY <1>1, <1>2, <1>3, <2>2
    <3>2. 1 .. k - 1 = (1 .. clicked - 1) \cup {clicked}
      BY <1>0, <1>3, <2>2
    <3> QED  BY <3>1, <3>2
  <2> QED  BY <2>1, <2>2
<1>5. \A m \in Modes : /\ arms'[m] \in PaneType /\ arms'[m].events = <<>>
                       /\ arms'[m].stopped = FALSE
  BY <1>2, EmptyPane
<1>6. AgentTyped'
  <2>1. /\ arms' \in [Modes -> PaneType]
        /\ proc' \in [Runs -> Modes \cup {"none", "end"}]
    BY <1>1, <1>2, <1>3, <1>5 DEF Modes
  <2>2. \A j \in Runs : j > k => /\ proc'[j] = "none" /\ wire'[j] = <<>>
                                 /\ last'[j] = NoEvent(j)
    BY <1>0, <1>1, <1>2, <1>3, SMTT(40)
  <2>3. clicked' \in 0 .. MaxRuns /\ aborted' = 1 .. clicked' - 1
    BY <1>2, <1>3, <1>4
  <2> QED  BY <1>1, <1>2, <2>1, <2>2, <2>3 DEF AgentTyped
<1>7. \A m \in Modes : PaneHolds(m)'
  BY <1>5, EmptyHolds
<1>8. proc'[k] = "enforce" /\ wire'[k] = <<>> /\ last'[k] = NoEvent(k)
  BY <1>1, <1>2, <1>3
<1>9. Streaming(k)'
  <2>1. arms'["enforce"].events = <<>>
    BY <1>5 DEF Modes
  <2>2. Tip(k, <<>>) = NoEvent(k) /\ Chained(k, NoEvent(k), <<>>, Len(<<>>))
    BY CountNone DEF Chained
  <2> QED  BY <1>8, <2>1, <2>2 DEF Streaming
<1> QED  BY <1>2, <1>6, <1>7, <1>8, <1>9 DEF AgentInv

LEMMA AgentStep == AgentInv /\ [AgentNext]_agentVars => AgentInv'
<1> SUFFICES ASSUME AgentInv, [AgentNext]_agentVars PROVE AgentInv'
  OBVIOUS
<1>1. CASE UNCHANGED agentVars
  BY <1>1 DEF agentVars, AgentInv, AgentTyped, PaneHolds, Streaming, Quiet
<1>2. CASE AgentNext
  BY <1>2, RunKeeps, SendKeeps, ReadKeeps, EndKeeps DEF AgentNext
<1> QED  BY <1>1, <1>2

(* For any number of clicks and orders: an aborted comparison that goes on *)
(* never writes into the panes of the next, an event is neither lost nor   *)
(* shown twice, and the closing line counts every order of its arm.        *)
THEOREM OneRunPerPane == AgentSpec => []PaneIsOneRun
<1>1. AgentInv => PaneIsOneRun
  <2> SUFFICES ASSUME AgentInv, NEW m \in Modes
               PROVE  LET es == arms[m].events IN
                      /\ \A i \in DOMAIN es : es[i].run = clicked /\ es[i].seq = i
                      /\ arms[m].stopped => Executed(m) + RefusedCount(m) = arms[m].steps
    BY DEF PaneIsOneRun
  <2>1. PaneHolds(m)
    BY DEF AgentInv
  <2>2. Executed(m) + RefusedCount(m) = CountIn(arms[m].events)
    BY DEF Executed, RefusedCount, CountIn, VerdictsAt, VerdictsIn
  <2> QED  BY <2>1, <2>2 DEF PaneHolds
<1> QED  BY <1>1, AgentStart, AgentStep, PTL DEF AgentSpec

-----------------------------------------------------------------------------
(* The evaluation on the home page.  At most one evaluation has timers, it *)
(* is the one shown, and once it has settled there is none.                *)

Painted(s, n) == \A i \in PanelParts : states[i] = IF i < n THEN Shade(s, i) ELSE "idle"

PanelInv ==
  /\ active \in Scenarios /\ DOMAIN states = PanelParts
  /\ \A t, u \in ticks : t = u
  /\ \A t \in ticks :
       /\ t.scenario = active /\ t.next \in 1 .. Len(Bounds) + 1
       /\ Painted(active, t.next)
  /\ settled => ticks = {} /\ \A i \in PanelParts : states[i] = Shade(active, i)

LEMMA RunShows ==
  ASSUME NEW s \in Scenarios, Run(s)
  PROVE  PanelInv'
<1> DEFINE t == [scenario |-> s, next |-> 1]
<1>1. /\ active' = s /\ states' = NoneDrawn /\ settled' = FALSE /\ ticks' = {t}
      /\ t.scenario = s /\ t.next = 1
  BY DEF Run
<1> HIDE DEF t
<1>2. /\ DOMAIN states' = PanelParts /\ \A i \in PanelParts : states'[i] = "idle"
  BY <1>1 DEF NoneDrawn
<1>3. Len(Bounds) \in Nat /\ PanelParts = 1 .. Len(Bounds)
  BY PanelAssumption DEF PanelParts
<1>4. Painted(s, 1)'
  BY <1>2, <1>3 DEF Painted
<1> QED  BY <1>1, <1>2, <1>3, <1>4 DEF PanelInv

LEMMA TickPaints ==
  ASSUME PanelInv, NEW t \in ticks, Tick(t)
  PROVE  PanelInv'
<1>1. /\ ticks = {t} /\ t.scenario = active /\ t.next \in 1 .. Len(Bounds) + 1
      /\ Painted(active, t.next) /\ ~settled
      /\ active \in Scenarios /\ DOMAIN states = PanelParts
  BY DEF PanelInv
<1>2. Len(Bounds) \in Nat /\ PanelParts = 1 .. Len(Bounds)
  BY PanelAssumption DEF PanelParts
<1>3. CASE t.next <= Len(Bounds)
  <2> DEFINE u == [t EXCEPT !.next = t.next + 1]
  <2>1. /\ states' = [states EXCEPT ![t.next] = Shade(active, t.next)]
        /\ ticks' = {u} /\ settled' = settled /\ active' = active
    BY <1>1, <1>3 DEF Tick
  <2>2. u.scenario = active /\ u.next = t.next + 1
    BY <1>1
  <2> HIDE DEF u
  <2>3. DOMAIN states' = PanelParts
    BY <1>1, <2>1
  <2>4. \A i \in PanelParts : states'[i] = IF i < t.next + 1 THEN Shade(active, i) ELSE "idle"
    <3> SUFFICES ASSUME NEW i \in PanelParts
                 PROVE  states'[i] = IF i < t.next + 1 THEN Shade(active, i) ELSE "idle"
      OBVIOUS
    <3>1. i \in Nat /\ t.next \in Nat
      BY <1>1, <1>2
    <3>2. CASE i = t.next
      <4>1. states'[i] = Shade(active, i) /\ i < t.next + 1
        BY <1>1, <2>1, <3>1, <3>2
      <4> QED  BY <4>1
    <3>3. CASE i # t.next
      <4>1. states'[i] = states[i] /\ (i < t.next <=> i < t.next + 1)
        BY <2>1, <3>1, <3>3
      <4> QED  BY <1>1, <4>1 DEF Painted
    <3> QED  BY <3>2, <3>3
  <2>5. Painted(active, t.next + 1)'
    BY <2>1, <2>4 DEF Painted, Shade
  <2>6. t.next + 1 \in 1 .. Len(Bounds) + 1
    BY <1>1, <1>2, <1>3
  <2> QED  BY <1>1, <2>1, <2>2, <2>3, <2>5, <2>6 DEF PanelInv
<1>4. CASE ~(t.next <= Len(Bounds))
  <2>1. ticks' = {} /\ UNCHANGED <<states, active>>
    BY <1>1, <1>4 DEF Tick
  <2>2. \A i \in PanelParts : i < t.next
    BY <1>1, <1>2, <1>4
  <2>3. \A i \in PanelParts : states[i] = Shade(active, i)
    BY <1>1, <2>2 DEF Painted
  <2> QED  BY <1>1, <2>1, <2>3 DEF PanelInv
<1> QED  BY <1>3, <1>4

LEMMA PanelStart == PanelInit => PanelInv
BY DEF PanelInit, PanelInv, NoneDrawn, Scenarios, SCENARIOS

LEMMA PanelStep == PanelInv /\ [PanelNext]_panelVars => PanelInv'
<1> SUFFICES ASSUME PanelInv, [PanelNext]_panelVars PROVE PanelInv'
  OBVIOUS
<1>0. 1 \in Scenarios
  BY DEF Scenarios, SCENARIOS
<1>1. CASE UNCHANGED <<active, states, settled, ticks>>
  BY <1>1 DEF PanelInv, Painted
<1>2. ASSUME NEW s \in Scenarios, Play(s) PROVE PanelInv'
  BY <1>2, RunShows DEF Play
<1>3. ASSUME NEW b, BeginBy(b) PROVE PanelInv'
  BY <1>0, <1>1, <1>3, RunShows DEF BeginBy
<1>4. CASE ChangeMotion
  BY <1>4 DEF ChangeMotion, PanelInv
<1>5. ASSUME NEW t \in ticks, Tick(t) PROVE PanelInv'
  BY <1>5, TickPaints
<1>6. CASE UNCHANGED panelVars
  BY <1>1, <1>6 DEF panelVars
<1> QED  BY <1>2, <1>3, <1>4, <1>5, <1>6 DEF PanelNext

(* The bounds of the signed policy, which the scenarios are measured       *)
(* against (web/src/data/scenarios.ts).                                    *)
Policy == <<2000, 1000, 500, 3, 5, 0, 0, 0, 0, 15000>>

(* With them no part a scenario passes is over its bound, and a limit that *)
(* refuses is over it.                                                     *)
LEMMA ScenariosFit ==
  ASSUME Bounds = Policy, NEW s \in Scenarios, NEW i \in PanelParts
  PROVE  /\ Shade(s, i) = "allow" => Readout(s, i).says # "over"
         /\ Shade(s, i) = "deny" => Readout(s, i).says # "left"
<1>1. s \in 1 .. 5 /\ i \in 1 .. 10
  BY DEF Scenarios, SCENARIOS, PanelParts, Policy
<1>2. CASE s = 1
  BY <1>1, <1>2 DEF Shade, Readout, Used, LoadOf, Policy, SCENARIOS, NoPart
<1>3. CASE s = 2
  BY <1>1, <1>3 DEF Shade, Readout, Used, LoadOf, Policy, SCENARIOS, NoPart
<1>4. CASE s = 3
  BY <1>1, <1>4 DEF Shade, Readout, Used, LoadOf, Policy, SCENARIOS, NoPart
<1>5. CASE s = 4
  BY <1>1, <1>5 DEF Shade, Readout, Used, LoadOf, Policy, SCENARIOS, NoPart
<1>6. CASE s = 5
  BY <1>1, <1>6 DEF Shade, Readout, Used, LoadOf, Policy, SCENARIOS, NoPart
<1> QED  BY <1>1, <1>2, <1>3, <1>4, <1>5, <1>6

LEMMA ScenarioStops ==
  ASSUME NEW s \in Scenarios
  PROVE  /\ SCENARIOS[s].stopsAt \in 0 .. 7
         /\ SCENARIOS[s].verdict \in {"allow", "deny", "unknown"}
         /\ SCENARIOS[s].verdict = "allow" <=> SCENARIOS[s].stopsAt = NoPart
<1>1. s \in 1 .. 5
  BY DEF Scenarios, SCENARIOS
<1> QED  BY <1>1 DEF SCENARIOS, NoPart

LEMMA SettledRows ==
  ASSUME PanelInv, Bounds = Policy
  PROVE  RowsBearItOut
<1> SUFFICES ASSUME settled PROVE RowsBearItOut
  BY DEF RowsBearItOut
<1>1. active \in Scenarios /\ \A i \in PanelParts : states[i] = Shade(active, i)
  BY DEF PanelInv
<1>2. PanelParts = 1 .. 10
  BY DEF PanelParts, Policy
<1> DEFINE stop == SCENARIOS[active].stopsAt
           verdict == SCENARIOS[active].verdict
<1>3. /\ stop \in 0 .. 7 /\ verdict \in {"allow", "deny", "unknown"}
      /\ verdict = "allow" <=> stop = 0
  BY <1>1, ScenarioStops DEF NoPart
<1>4. \A i \in PanelParts : states[i] = IF stop = 0 \/ i < stop THEN "allow"
                                       ELSE IF i = stop THEN verdict ELSE "skip"
  BY <1>1 DEF Shade, NoPart
<1>5. ShownVerdict = verdict /\ (AirGap = "dispatched" <=> verdict = "allow")
  BY <1>3 DEF ShownVerdict, AirGap
<1> HIDE DEF stop, verdict
<1>6. /\ \A i \in Drawn : states[i] = "allow" => Readout(active, i).says # "over"
      /\ \A i \in Drawn : states[i] = "deny" => Readout(active, i).says # "left"
  BY <1>1, ScenariosFit DEF Drawn
<1>7. (AirGap = "dispatched") = (\A i \in PanelParts : states[i] = "allow")
  <2>1. CASE stop = 0
    BY <1>3, <1>4, <1>5, <2>1
  <2>2. CASE stop # 0
    <3>1. stop \in PanelParts /\ states[stop] = verdict /\ verdict # "allow"
      BY <1>2, <1>3, <1>4, <2>2
    <3> QED  BY <1>5, <3>1
  <2> QED  BY <2>1, <2>2
<1>8. SkippedCount > 0 => \E i \in Drawn : states[i] = ShownVerdict
  <2> SUFFICES ASSUME SkippedCount > 0 PROVE \E i \in Drawn : states[i] = ShownVerdict
    OBVIOUS
  <2>1. PICK k \in PanelParts : states[k] = "skip"
    BY FS_EmptySet DEF SkippedCount
  <2>2. stop # 0
    BY <1>4, <2>1
  <2>3. stop \in PanelParts /\ states[stop] = verdict /\ verdict \notin {"idle", "skip"}
    BY <1>2, <1>3, <1>4, <2>2
  <2> QED  BY <1>5, <2>3 DEF Drawn
<1> QED  BY <1>6, <1>7, <1>8 DEF RowsBearItOut

(* Whatever a visitor clicks, for any number of plays: the verdict stands  *)
(* beside the parts of its own scenario, painted in order, and agrees with *)
(* what the rows read against the bounds of the policy.                    *)
THEOREM VerdictOfScenario ==
  ASSUME Bounds = Policy
  PROVE  PanelSpec => []VerdictIsItsOwn
<1>1. PanelInv => SettledIsScenario /\ PaintsInOrder
  BY DEF PanelInv, Painted, SettledIsScenario, PaintsInOrder
<1>2. PanelInv => VerdictIsItsOwn
  BY <1>1, SettledRows DEF VerdictIsItsOwn
<1> QED  BY <1>2, PanelStart, PanelStep, PTL DEF PanelSpec

-----------------------------------------------------------------------------
(* The film.                                                               *)

KeptBody(s, K, f, k) ==
  IF k = 0 THEN <<>> ELSE IF s[k] \in K THEN Append(f[k - 1], s[k]) ELSE f[k - 1]
KeptRec == INSTANCE Recursion WITH Body <- KeptBody

LEMMA KeptAre ==
  ASSUME NEW s, NEW K
  PROVE  \A k \in Nat : Kept(s, K)[k] = KeptBody(s, K, Kept(s, K), k)
<1>1. ASSUME NEW n \in Nat, NEW f, NEW g, \A i \in 0..(n - 1) : f[i] = g[i]
      PROVE  KeptBody(s, K, f, n) = KeptBody(s, K, g, n)
  <2>1. n > 0 => f[n - 1] = g[n - 1]
    BY <1>1
  <2>2. n # 0 => n > 0
    OBVIOUS
  <2> QED  BY <2>1, <2>2, Zenon DEF KeptBody
<1>2. \E F : F = [k \in Nat |-> KeptBody(s, K, F, k)]
  BY <1>1, KeptRec!RecursiveFunction
<1>3. Kept(s, K) = [k \in Nat |-> KeptBody(s, K, Kept(s, K), k)]
  BY <1>2, Zenon DEF Kept, KeptBody
<1> HIDE DEF KeptBody
<1> QED  BY <1>3, Zenon

(* Only keeps what is among K, and all of it.                              *)
LEMMA OnlyKeeps ==
  ASSUME NEW s, NEW K, NEW U, s \in Seq(U)
  PROVE  Only(s, K) \in Seq(U) /\ ToSet(Only(s, K)) = ToSet(s) \cap K
<1> DEFINE f == Kept(s, K)
           P(k) == f[k] \in Seq(U) /\ ToSet(f[k]) = {s[i] : i \in 1..k} \cap K
           T == {k \in Nat : k <= Len(s) /\ ~P(k)}
<1>0. Len(s) \in Nat /\ DOMAIN s = 1..Len(s)
  OBVIOUS
<1>1. T = {}
  <2> SUFFICES ASSUME T # {} PROVE FALSE
    OBVIOUS
  <2>0. T \in SUBSET Nat
    OBVIOUS
  <2>1. PICK k \in T : \A m \in T : k <= m
    BY <2>0, LeastNat
  <2>2. k \in Nat /\ k <= Len(s) /\ ~P(k)
    OBVIOUS
  <2>3. f[k] = KeptBody(s, K, f, k)
    BY <2>2, KeptAre
  <2>4. CASE k = 0
    <3>1. f[k] = <<>>
      BY <2>3, <2>4 DEF KeptBody
    <3>2. ToSet(<<>>) = {} /\ 1..k = {}
      BY <2>4 DEF ToSet
    <3>3. {s[i] : i \in 1..k} \cap K = {}
      BY <3>2
    <3>4. <<>> \in Seq(U)
      OBVIOUS
    <3> QED  BY <3>1, <3>2, <3>3, <3>4, <2>2, Zenon
  <2>5. CASE k > 0
    <3> DEFINE j == k - 1
    <3>1. j \in Nat /\ j <= Len(s) /\ j < k /\ k \in 1..Len(s) /\ s[k] \in U
      BY <2>2, <2>5, <1>0
    <3>2. P(j)
      <4> HIDE DEF P
      <4> QED  BY <2>1, <3>1
    <3>3. 1..k = (1..j) \cup {k}
      BY <3>1
    <3>4. {s[i] : i \in 1..k} = {s[i] : i \in 1..j} \cup {s[k]}
      BY <3>3, Zenon
    <3>5. CASE s[k] \in K
      <4>1. f[k] = Append(f[j], s[k])
        BY <3>5, <2>3, <2>5 DEF KeptBody
      <4>2. f[k] \in Seq(U) /\ DOMAIN f[k] = 1..(Len(f[j]) + 1)
            /\ DOMAIN f[j] = 1..Len(f[j]) /\ Len(f[j]) \in Nat
        BY <4>1, <3>1, <3>2
      <4>3. f[k][Len(f[j]) + 1] = s[k] /\ \A i \in DOMAIN f[j] : f[k][i] = f[j][i]
        BY <4>1, <3>1, <3>2, SMTT(40)
      <4>4. ToSet(f[k]) = ToSet(f[j]) \cup {s[k]}
        <5>1. DOMAIN f[k] = DOMAIN f[j] \cup {Len(f[j]) + 1}
          BY <4>2
        <5> DEFINE F == f[k]  G == f[j]  z == Len(f[j]) + 1
        <5>2. DOMAIN F = DOMAIN G \cup {z} /\ F[z] = s[k] /\ \A i \in DOMAIN G : F[i] = G[i]
          BY <4>3, <5>1
        <5> HIDE DEF F, G, z
        <5>3. ToSet(F) = ToSet(G) \cup {s[k]}
          BY <5>2, Zenon DEF ToSet
        <5> QED  BY <5>3 DEF F, G
      <4> QED  BY <2>2, <3>2, <3>4, <3>5, <4>2, <4>4, Zenon
    <3>6. CASE s[k] \notin K
      <4>1. f[k] = f[j]
        BY <3>6, <2>3, <2>5 DEF KeptBody
      <4> QED  BY <2>2, <3>2, <3>4, <3>6, <4>1, Zenon
    <3> QED  BY <3>5, <3>6
  <2> QED  BY <2>2, <2>4, <2>5
<1>2. P(Len(s))
  <2> HIDE DEF P
  <2> QED  BY <1>0, <1>1
<1>3. ToSet(s) = {s[i] : i \in 1..Len(s)}
  BY <1>0 DEF ToSet
<1> QED  BY <1>2, <1>3, Zenon DEF Only

FinalBody(x, regions, f, k) ==
  IF k = 0 THEN x.at
  ELSE IF x.at <= regions[k].a THEN f[k - 1]
  ELSE f[k - 1] - (Inside(x.at, regions[k]) - Inside(x.at, regions[k]) \div x.ramp)
FinalRec == INSTANCE Recursion WITH Body <- FinalBody
Moment(t, ramp) == [at |-> t, ramp |-> ramp]

LEMMA FinalsAre ==
  ASSUME NEW t, NEW regions, NEW ramp
  PROVE  \A k \in Nat : Finals(t, regions, ramp)[k]
           = IF k = 0 THEN t
             ELSE IF t <= regions[k].a THEN Finals(t, regions, ramp)[k - 1]
             ELSE Finals(t, regions, ramp)[k - 1]
                    - (Inside(t, regions[k]) - Inside(t, regions[k]) \div ramp)
<1> DEFINE x == Moment(t, ramp)
<1>0. x.at = t /\ x.ramp = ramp
  BY DEF Moment
<1> HIDE DEF x
<1>1. ASSUME NEW n \in Nat, NEW f, NEW g, \A i \in 0..(n - 1) : f[i] = g[i]
      PROVE  FinalBody(x, regions, f, n) = FinalBody(x, regions, g, n)
  <2>1. n > 0 => f[n - 1] = g[n - 1]
    BY <1>1
  <2>2. n # 0 => n > 0
    OBVIOUS
  <2> QED  BY <2>1, <2>2, Zenon DEF FinalBody
<1>2. \E F : F = [k \in Nat |-> FinalBody(x, regions, F, k)]
  BY <1>1, FinalRec!RecursiveFunction
<1>3. \E F : F = [k \in Nat |-> IF k = 0 THEN t
                    ELSE IF t <= regions[k].a THEN F[k - 1]
                    ELSE F[k - 1] - (Inside(t, regions[k]) - Inside(t, regions[k]) \div ramp)]
  BY <1>0, <1>2, Zenon DEF FinalBody
<1>4. Finals(t, regions, ramp) = [k \in Nat |-> IF k = 0 THEN t
        ELSE IF t <= regions[k].a THEN Finals(t, regions, ramp)[k - 1]
        ELSE Finals(t, regions, ramp)[k - 1]
               - (Inside(t, regions[k]) - Inside(t, regions[k]) \div ramp)]
  BY <1>3, Zenon DEF Finals
<1> QED  BY <1>4, Zenon

PartBody(regions, ramp, f, k) ==
  IF k = 0 THEN <<>>
  ELSE LET r == regions[k]
           cursor == Cursor(regions, k - 1)
       IN  Append(IF r.a > cursor THEN Append(f[k - 1], Part(cursor, r.a, 1)) ELSE f[k - 1],
                  Part(r.a, r.b, ramp))
PartRec == INSTANCE Recursion WITH Body <- PartBody

LEMMA PartListsAre ==
  ASSUME NEW regions, NEW ramp
  PROVE  \A k \in Nat : PartLists(regions, ramp)[k] = PartBody(regions, ramp, PartLists(regions, ramp), k)
<1>1. ASSUME NEW n \in Nat, NEW f, NEW g, \A i \in 0..(n - 1) : f[i] = g[i]
      PROVE  PartBody(regions, ramp, f, n) = PartBody(regions, ramp, g, n)
  <2>1. n > 0 => f[n - 1] = g[n - 1]
    BY <1>1
  <2>2. n # 0 => n > 0
    OBVIOUS
  <2> QED  BY <2>1, <2>2, Zenon DEF PartBody
<1>2. \E F : F = [k \in Nat |-> PartBody(regions, ramp, F, k)]
  BY <1>1, PartRec!RecursiveFunction
<1>3. PartLists(regions, ramp) = [k \in Nat |-> PartBody(regions, ramp, PartLists(regions, ramp), k)]
  BY <1>2, Zenon DEF PartLists, PartBody
<1> HIDE DEF PartBody
<1> QED  BY <1>3, Zenon

ElapsedBody(t, parts, f, k) ==
  IF k = 0 THEN 0
  ELSE LET p == parts[k]
       IN  IF t <= p.from THEN f[k - 1]
           ELSE f[k - 1]
                + ((IF p.to = Never \/ t < p.to THEN t ELSE p.to) - p.from) \div p.speed
ElapsedRec == INSTANCE Recursion WITH Body <- ElapsedBody

LEMMA ElapsedAre ==
  ASSUME NEW t, NEW parts
  PROVE  \A k \in Nat : Elapsed(t, parts)[k] = ElapsedBody(t, parts, Elapsed(t, parts), k)
<1>1. ASSUME NEW n \in Nat, NEW f, NEW g, \A i \in 0..(n - 1) : f[i] = g[i]
      PROVE  ElapsedBody(t, parts, f, n) = ElapsedBody(t, parts, g, n)
  <2>1. n > 0 => f[n - 1] = g[n - 1]
    BY <1>1
  <2>2. n # 0 => n > 0
    OBVIOUS
  <2> QED  BY <2>1, <2>2, Zenon DEF ElapsedBody
<1>2. \E F : F = [k \in Nat |-> ElapsedBody(t, parts, F, k)]
  BY <1>1, ElapsedRec!RecursiveFunction
<1>3. Elapsed(t, parts) = [k \in Nat |-> ElapsedBody(t, parts, Elapsed(t, parts), k)]
  BY <1>2, Zenon DEF Elapsed, ElapsedBody
<1> HIDE DEF ElapsedBody
<1> QED  BY <1>3, Zenon

(* A stretch of a capture that waits for a model, and a part of a cut.     *)
Wait == [id : ToSet(Shots), a : Nat, b : Nat]
CutPart == [from : Nat, to : Nat \cup {Never}, speed : Nat \ {0}]

(* What a part adds to the moment at which t is shown.                     *)
Adds(t, p) ==
  IF t <= p.from THEN 0
  ELSE ((IF p.to = Never \/ t < p.to THEN t ELSE p.to) - p.from) \div p.speed

LEMMA NeverIs == Never \in Int /\ Never \notin Nat
BY DEF Never

LEMMA AddsInt == ASSUME NEW t \in Nat, NEW p \in CutPart PROVE Adds(t, p) \in Int
<1>1. p.from \in Int /\ p.speed \in Nat \ {0} /\ p.to \in Int
  BY DEF CutPart, Never
<1> DEFINE e == (IF p.to = Never \/ t < p.to THEN t ELSE p.to) - p.from
<1>2. e \in Int
  BY <1>1
<1> HIDE DEF e
<1>3. e \div p.speed \in Int
  BY <1>1, <1>2
<1> QED  BY <1>3 DEF Adds, e

LEMMA ElapsedInt ==
  ASSUME NEW t \in Nat, NEW ps \in Seq(CutPart)
  PROVE  /\ Elapsed(t, ps)[0] = 0
         /\ \A k \in 1..Len(ps) : /\ Elapsed(t, ps)[k - 1] \in Int
                                  /\ Elapsed(t, ps)[k] = Elapsed(t, ps)[k - 1] + Adds(t, ps[k])
         /\ \A k \in 0..Len(ps) : Elapsed(t, ps)[k] \in Int
<1> DEFINE f == Elapsed(t, ps)
           T == {k \in 0..Len(ps) : f[k] \notin Int}
<1>1. f[0] = 0
  BY ElapsedAre DEF ElapsedBody
<1>2. ASSUME NEW k \in 1..Len(ps), f[k - 1] \in Int
      PROVE  f[k] = f[k - 1] + Adds(t, ps[k]) /\ f[k] \in Int
  <2>1. ps[k] \in CutPart /\ Adds(t, ps[k]) \in Int
    <3>1. ps[k] \in CutPart
      OBVIOUS
    <3> QED  BY <3>1, AddsInt
  <2>2. k \in Nat /\ k # 0
    OBVIOUS
  <2>3. f[k] = ElapsedBody(t, ps, f, k)
    BY <2>2, ElapsedAre
  <2>4. f[k] = IF t <= ps[k].from THEN f[k - 1] ELSE f[k - 1] + Adds(t, ps[k])
    BY <2>2, <2>3, Zenon DEF ElapsedBody, Adds
  <2>5. t <= ps[k].from => Adds(t, ps[k]) = 0
    BY DEF Adds
  <2> HIDE DEF f
  <2> QED  BY <1>2, <2>1, <2>4, <2>5
<1>3. T = {}
  <2> SUFFICES ASSUME T # {} PROVE FALSE
    OBVIOUS
  <2>1. T \in SUBSET Nat
    OBVIOUS
  <2>2. PICK k \in T : \A m \in T : k <= m
    BY <2>1, LeastNat
  <2> HIDE DEF f
  <2>3. k # 0
    BY <1>1
  <2>4. k \in 1..Len(ps) /\ k - 1 \in 0..Len(ps) /\ k - 1 \notin T
    BY <2>2, <2>3
  <2> QED  BY <1>2, <2>4
<1> HIDE DEF f
<1>4. \A k \in 0..Len(ps) : f[k] \in Int
  BY <1>3
<1>5. ASSUME NEW k \in 1..Len(ps)
      PROVE  f[k - 1] \in Int /\ f[k] = f[k - 1] + Adds(t, ps[k])
  <2>1. k - 1 \in 0..Len(ps)
    OBVIOUS
  <2> QED  BY <1>2, <1>4, <2>1
<1> QED  BY <1>1, <1>4, <1>5 DEF f

(* A cut with a part more shows what it showed, then the part.             *)
LEMMA ElapsedAppend ==
  ASSUME NEW t \in Nat, NEW ps \in Seq(CutPart), NEW p \in CutPart
  PROVE  /\ Append(ps, p) \in Seq(CutPart)
         /\ InTheCut(t, ps) \in Int
         /\ InTheCut(t, Append(ps, p)) = InTheCut(t, ps) + Adds(t, p)
<1> DEFINE qs == Append(ps, p)
           f == Elapsed(t, ps)
           g == Elapsed(t, qs)
           n == Len(ps)
           T == {k \in 0..n : f[k] # g[k]}
<1>1. /\ qs \in Seq(CutPart) /\ Len(qs) = n + 1 /\ n \in Nat /\ qs[n + 1] = p
      /\ \A k \in 1..n : qs[k] = ps[k]
  OBVIOUS
<1> HIDE DEF qs
<1>2. /\ f[0] = 0 /\ \A k \in 1..n : f[k - 1] \in Int /\ f[k] = f[k - 1] + Adds(t, ps[k])
      /\ \A k \in 0..n : f[k] \in Int
  BY ElapsedInt
<1>3. /\ g[0] = 0
      /\ \A k \in 1..(n + 1) : g[k - 1] \in Int /\ g[k] = g[k - 1] + Adds(t, qs[k])
  BY <1>1, ElapsedInt
<1> HIDE DEF f, g, n
<1>4. T = {}
  <2> SUFFICES ASSUME T # {} PROVE FALSE
    OBVIOUS
  <2>1. T \in SUBSET Nat
    BY <1>1
  <2>2. PICK k \in T : \A m \in T : k <= m
    BY <2>1, LeastNat
  <2>3. k # 0
    BY <1>2, <1>3
  <2>4. k \in 1..n /\ k \in 1..(n + 1) /\ k - 1 \in 0..n /\ k - 1 \notin T
    BY <1>1, <2>1, <2>2, <2>3
  <2>5. f[k - 1] = g[k - 1]
    BY <2>4
  <2> QED  BY <1>1, <1>2, <1>3, <2>4, <2>5
<1>5. f[n] = g[n] /\ n \in 0..n /\ n + 1 \in 1..(n + 1) /\ (n + 1) - 1 = n
  BY <1>1, <1>4
<1>6. g[n + 1] = f[n] + Adds(t, p) /\ f[n] \in Int
  BY <1>1, <1>2, <1>3, <1>5
<1> QED  BY <1>1, <1>6, Zenon DEF InTheCut, f, g, n, qs

(* Waits in order, none within another.                                    *)
Spaced(q) ==
  /\ q \in Seq(Wait)
  /\ \A i \in 1..Len(q) : q[i].a < q[i].b
  /\ \A i, j \in 1..Len(q) : i < j => q[i].b < q[j].a

LEMMA NothingElapsed == \A t : InTheCut(t, <<>>) = 0
<1> TAKE t
<1>1. Len(<<>>) = 0
  OBVIOUS
<1>2. Elapsed(t, <<>>)[0] = ElapsedBody(t, <<>>, Elapsed(t, <<>>), 0)
  BY ElapsedAre
<1> QED  BY <1>1, <1>2, Zenon DEF InTheCut, ElapsedBody

LEMMA DivOne == \A x \in Int : x \div 1 = x
OBVIOUS

LEMMA PartIn ==
  ASSUME NEW x \in Nat, NEW y \in Nat \cup {Never}, NEW z \in Nat \ {0}
  PROVE  /\ Part(x, y, z) \in CutPart
         /\ Part(x, y, z).from = x /\ Part(x, y, z).to = y /\ Part(x, y, z).speed = z
BY DEF Part, CutPart

(* The sum of the parts is what is left after the subtractions.            *)
LEMMA OneCut ==
  ASSUME NEW q, Spaced(q), NEW t \in Nat, NEW ramp \in Nat \ {0}
  PROVE  ToFinal(t, q, ramp) = InTheCut(t, RampParts(q, ramp))
<1> DEFINE L == PartLists(q, ramp)
           F == Finals(t, q, ramp)
           c(k) == Cursor(q, k)
           P(k) == /\ L[k] \in Seq(CutPart) /\ F[k] \in Int /\ c(k) \in Nat
                   /\ InTheCut(t, L[k]) = F[k] - (IF t > c(k) THEN t - c(k) ELSE 0)
           T == {k \in Nat : k <= Len(q) /\ ~P(k)}
<1>0. Len(q) \in Nat /\ \A k \in 1..Len(q) : q[k] \in Wait /\ q[k].a \in Nat /\ q[k].b \in Nat
  <2>1. q \in Seq(Wait)
    BY DEF Spaced
  <2>2. Len(q) \in Nat /\ \A k \in 1..Len(q) : q[k] \in Wait
    BY <2>1
  <2>3. \A w \in Wait : w.a \in Nat /\ w.b \in Nat
    BY DEF Wait
  <2> QED  BY <2>2, <2>3, Zenon
<1>1. P(0)
  <2>a. L[0] = PartBody(q, ramp, L, 0)
    BY PartListsAre
  <2>b. F[0] = t
    BY FinalsAre
  <2>1. L[0] = <<>> /\ F[0] = t /\ c(0) = 0
    BY <2>a, <2>b, Zenon DEF PartBody, Cursor
  <2>2. <<>> \in Seq(CutPart) /\ InTheCut(t, <<>>) = 0
    BY NothingElapsed
  <2> HIDE DEF L, F
  <2>3. L[0] \in Seq(CutPart) /\ InTheCut(t, L[0]) = 0
    BY <2>1, <2>2, Zenon
  <2> QED  BY <2>1, <2>3
<1>2. ASSUME NEW k \in 1..Len(q), P(k - 1) PROVE P(k)
  <2> DEFINE r == q[k]
             d == c(k - 1)
             M == IF r.a > d THEN Append(L[k - 1], Part(d, r.a, 1)) ELSE L[k - 1]
             s == Inside(t, r) \div ramp
  <2>1. /\ k \in Nat /\ k # 0 /\ r.a \in Nat /\ r.b \in Nat /\ r.a < r.b
        /\ d \in Nat /\ d <= r.a /\ c(k) = r.b
    <3>1. k \in Nat /\ k # 0 /\ r.a \in Nat /\ r.b \in Nat
      BY <1>0
    <3>2. r.a < r.b
      BY DEF Spaced
    <3>3. k = 1 => d = 0
      BY DEF Cursor
    <3>4. k # 1 => k - 1 \in 1..Len(q) /\ k - 1 < k /\ d = q[k - 1].b
      BY <1>0 DEF Cursor
    <3>5. k # 1 => d < r.a /\ d \in Nat
      BY <3>4, <1>0 DEF Spaced
    <3>6. c(k) = r.b
      BY <3>1 DEF Cursor
    <3> HIDE DEF c
    <3> QED  BY <3>1, <3>2, <3>3, <3>5, <3>6
  <2>2. L[k] = Append(M, Part(r.a, r.b, ramp))
    <3>1. L[k] = PartBody(q, ramp, L, k)
      BY <2>1, PartListsAre
    <3> QED  BY <2>1, <3>1, Zenon DEF PartBody
  <2>3. F[k] = IF t <= r.a THEN F[k - 1] ELSE F[k - 1] - (Inside(t, r) - s)
    <3>1. F[k] = IF k = 0 THEN t
                 ELSE IF t <= q[k].a THEN F[k - 1]
                 ELSE F[k - 1] - (Inside(t, q[k]) - Inside(t, q[k]) \div ramp)
      BY <2>1, FinalsAre
    <3> QED  BY <2>1, <3>1, Zenon
  <2> HIDE DEF L, F, c
  <2>4. Inside(t, r) = (IF t < r.b THEN t ELSE r.b) - r.a /\ Inside(t, r) \in Int /\ s \in Int
    <3>1. Inside(t, r) = (IF t < r.b THEN t ELSE r.b) - r.a
      BY DEF Inside
    <3>2. Inside(t, r) \in Int
      BY <3>1, <2>1
    <3> QED  BY <3>1, <3>2
  <2>5. /\ M \in Seq(CutPart)
        /\ InTheCut(t, M) = InTheCut(t, L[k - 1]) + (IF r.a > d THEN Adds(t, Part(d, r.a, 1)) ELSE 0)
    <3>1. Part(d, r.a, 1) \in CutPart
      BY <2>1, PartIn
    <3>2. CASE r.a > d
      <4>1. Append(L[k - 1], Part(d, r.a, 1)) \in Seq(CutPart)
            /\ InTheCut(t, Append(L[k - 1], Part(d, r.a, 1)))
                 = InTheCut(t, L[k - 1]) + Adds(t, Part(d, r.a, 1))
        BY <1>2, <3>1, ElapsedAppend
      <4> QED  BY <3>2, <4>1, Zenon
    <3>3. CASE ~(r.a > d)
      <4>1. M = L[k - 1]
        BY <3>3, Zenon
      <4>2. InTheCut(t, L[k - 1]) \in Int
        BY <1>2, <2>1
      <4> QED  BY <1>2, <3>3, <4>1, <4>2
    <3> QED  BY <3>2, <3>3
  <2>6. Adds(t, Part(d, r.a, 1)) = IF t <= d THEN 0 ELSE (IF t < r.a THEN t ELSE r.a) - d
    <3>1. Part(d, r.a, 1).from = d /\ Part(d, r.a, 1).to = r.a /\ Part(d, r.a, 1).speed = 1
      BY <2>1, PartIn, SMTT(40)
    <3>2. r.a # Never
      BY <2>1, NeverIs
    <3>3. Adds(t, Part(d, r.a, 1))
            = IF t <= d THEN 0 ELSE ((IF t < r.a THEN t ELSE r.a) - d) \div 1
      BY <3>1, <3>2, Zenon DEF Adds
    <3>4. (IF t < r.a THEN t ELSE r.a) - d \in Int
      BY <2>1
    <3> QED  BY <3>3, <3>4, DivOne
  <2>7. Adds(t, Part(r.a, r.b, ramp)) = (IF t <= r.a THEN 0 ELSE s) /\ Part(r.a, r.b, ramp) \in CutPart
    <3>1. /\ Part(r.a, r.b, ramp).from = r.a /\ Part(r.a, r.b, ramp).to = r.b
          /\ Part(r.a, r.b, ramp).speed = ramp /\ Part(r.a, r.b, ramp) \in CutPart
      <4>1. r.a \in Nat /\ r.b \in Nat \cup {Never} /\ ramp \in Nat \ {0}
        BY <2>1
      <4> HIDE DEF r
      <4> QED  BY <4>1 DEF Part, CutPart
    <3>2. r.b # Never
      BY <2>1, NeverIs
    <3> QED  BY <3>1, <3>2, Zenon DEF Adds, Inside
  <2> HIDE DEF M
  <2>8. L[k] \in Seq(CutPart) /\ InTheCut(t, L[k]) = InTheCut(t, M) + Adds(t, Part(r.a, r.b, ramp))
    <3>1. InTheCut(t, Append(M, Part(r.a, r.b, ramp))) = InTheCut(t, M) + Adds(t, Part(r.a, r.b, ramp))
          /\ Append(M, Part(r.a, r.b, ramp)) \in Seq(CutPart)
      BY <2>5, <2>7, ElapsedAppend
    <3> QED  BY <2>2, <3>1, Zenon
  <2> DEFINE G == InTheCut(t, L[k - 1])
             f == F[k - 1]
             a == r.a
             b == r.b
             e == Inside(t, r)
  <2>9. /\ f \in Int /\ G = f - (IF t > d THEN t - d ELSE 0) /\ a \in Nat /\ b \in Nat
        /\ a < b /\ d \in Nat /\ d <= a /\ c(k) = b
        /\ e = (IF t < b THEN t ELSE b) - a /\ s \in Int
        /\ F[k] = (IF t <= a THEN f ELSE f - (e - s))
        /\ InTheCut(t, L[k])
             = (G + (IF a > d THEN IF t <= d THEN 0 ELSE (IF t < a THEN t ELSE a) - d ELSE 0))
               + (IF t <= a THEN 0 ELSE s)
    BY <1>2, <2>1, <2>3, <2>4, <2>5, <2>6, <2>7, <2>8
  <2> HIDE DEF G, f, a, b, e, d, s
  <2>10. F[k] \in Int /\ c(k) \in Nat
         /\ InTheCut(t, L[k]) = F[k] - (IF t > c(k) THEN t - c(k) ELSE 0)
    BY <2>9
  <2> QED  BY <2>8, <2>10
<1>3. P(Len(q))
  <2> HIDE DEF P
  <2>1. T = {}
    <3> SUFFICES ASSUME T # {} PROVE FALSE
      OBVIOUS
    <3>1. T \in SUBSET Nat
      OBVIOUS
    <3>2. PICK k \in T : \A m \in T : k <= m
      BY <3>1, LeastNat
    <3>3. k # 0
      BY <1>1
    <3>4. k \in 1..Len(q) /\ k - 1 \in Nat /\ k - 1 <= Len(q) /\ k - 1 \notin T
      BY <1>0, <3>2, <3>3
    <3> QED  BY <1>2, <3>4
  <2> QED  BY <1>0, <2>1
<1> DEFINE n == Len(q)
<1>4. /\ Part(c(n), Never, 1) \in CutPart
      /\ Adds(t, Part(c(n), Never, 1)) = IF t <= c(n) THEN 0 ELSE t - c(n)
  <2> HIDE DEF c
  <2>1. /\ Part(c(n), Never, 1) \in CutPart
        /\ Part(c(n), Never, 1).from = c(n) /\ Part(c(n), Never, 1).to = Never
        /\ Part(c(n), Never, 1).speed = 1
    <3>1. c(n) \in Nat /\ Never \in Nat \cup {Never} /\ 1 \in Nat \ {0}
      BY <1>3
    <3> QED  BY <3>1 DEF Part, CutPart
  <2>2. Adds(t, Part(c(n), Never, 1)) = IF t <= c(n) THEN 0 ELSE (t - c(n)) \div 1
    BY <2>1, Zenon DEF Adds
  <2>3. t - c(n) \in Int
    BY <1>3
  <2> QED  BY <2>1, <2>2, <2>3, DivOne
<1>5. InTheCut(t, RampParts(q, ramp)) = InTheCut(t, L[n]) + Adds(t, Part(c(n), Never, 1))
  <2>1. InTheCut(t, Append(L[n], Part(c(n), Never, 1))) = InTheCut(t, L[n]) + Adds(t, Part(c(n), Never, 1))
    BY <1>3, <1>4, ElapsedAppend
  <2> QED  BY <2>1, Zenon DEF RampParts
<1>6. ToFinal(t, q, ramp) = F[n]
  BY Zenon DEF ToFinal
<1> HIDE DEF L, F, c, n
<1> QED  BY <1>3, <1>4, <1>5, <1>6 DEF n

(* A finite set of waits that begin apart can be put in order.             *)
Ordered(q, S) ==
  /\ q \in [1..Cardinality(S) -> S]
  /\ \A i, j \in 1..Cardinality(S) : i < j => q[i].a < q[j].a

BeginApart(S) == S \in SUBSET Wait /\ IsFiniteSet(S) /\ \A m, n \in S : m.a = n.a => m = n

LEMMA OrderExists ==
  ASSUME NEW S, BeginApart(S)
  PROVE  \E q : Ordered(q, S)
<1> DEFINE Bad(n) == \E R : BeginApart(R) /\ Cardinality(R) = n /\ ~\E q : Ordered(q, R)
           T == {n \in Nat : Bad(n)}
<1>1. T = {}
  <2> SUFFICES ASSUME T # {} PROVE FALSE
    OBVIOUS
  <2>0. T \in SUBSET Nat
    OBVIOUS
  <2> HIDE DEF Bad
  <2>1. PICK n \in T : \A m \in T : n <= m
    BY <2>0, LeastNat
  <2>2. n \in Nat /\ Bad(n)
    OBVIOUS
  <2>3. PICK R : BeginApart(R) /\ Cardinality(R) = n /\ ~\E q : Ordered(q, R)
    BY <2>2 DEF Bad
  <2>4. R \in SUBSET Wait /\ IsFiniteSet(R)
    BY <2>3 DEF BeginApart
  <2>5. R # {}
    <3> SUFFICES ASSUME R = {} PROVE FALSE
      OBVIOUS
    <3>1. Cardinality(R) = 0
      BY FS_EmptySet
    <3>2. Ordered(<<>>, R)
      BY <3>1 DEF Ordered
    <3> QED  BY <2>3, <3>2
  <2> DEFINE as == {x.a : x \in R}
  <2>6. as \in SUBSET Nat /\ as # {}
    <3>1. \A x \in R : x.a \in Nat
      BY <2>4 DEF Wait
    <3> QED  BY <2>5, <3>1
  <2>7. PICK a0 \in as : \A b \in as : a0 <= b
    BY <2>6, LeastNat
  <2>8. PICK x \in R : x.a = a0
    BY <2>7
  <2>9. \A y \in R : x.a <= y.a /\ (y # x => x.a < y.a) /\ y.a \in Nat
    <3> TAKE y \in R
    <3>1. x.a <= y.a /\ y.a \in Nat /\ x.a \in Nat
      BY <2>6, <2>7, <2>8
    <3>2. y # x => x.a # y.a
      BY <2>3, Zenon DEF BeginApart
    <3> QED  BY <3>1, <3>2
  <2> HIDE DEF as
  <2> DEFINE Q == R \ {x}
  <2>10. /\ IsFiniteSet(Q) /\ Cardinality(Q) = n - 1 /\ n >= 1
    <3>1. IsFiniteSet(Q) /\ Cardinality(Q) = Cardinality(R) - 1
      BY <2>4, <2>8, FS_RemoveElement
    <3>2. Cardinality(Q) \in Nat
      BY <3>1, FS_CardinalityType
    <3> QED  BY <2>2, <2>3, <3>1, <3>2
  <2>11. BeginApart(Q)
    BY <2>3, <2>10, Zenon DEF BeginApart
  <2>12. PICK q : Ordered(q, Q)
    <3>1. n - 1 \in Nat /\ n - 1 \notin T
      BY <2>1, <2>2, <2>10
    <3>2. ~Bad(n - 1)
      BY <3>1
    <3> QED  BY <2>10, <2>11, <3>2, Zenon DEF Bad
  <2> DEFINE p == [i \in 1..n |-> IF i = 1 THEN x ELSE q[i - 1]]
  <2>13. q \in [1..(n - 1) -> Q] /\ \A i, j \in 1..(n - 1) : i < j => q[i].a < q[j].a
    BY <2>10, <2>12 DEF Ordered
  <2>14. ASSUME NEW i \in 1..n, i # 1 PROVE i - 1 \in 1..(n - 1) /\ q[i - 1] \in Q
    <3>1. i - 1 \in 1..(n - 1)
      BY <2>2, <2>14
    <3> QED  BY <2>13, <3>1
  <2>15. p \in [1..n -> R]
    BY <2>8, <2>14
  <2>16. ASSUME NEW i \in 1..n, NEW j \in 1..n, i < j PROVE p[i].a < p[j].a
    <3>1. j # 1 /\ p[j] = q[j - 1] /\ q[j - 1] \in Q
      BY <2>14, <2>16
    <3>2. CASE i = 1
      <4>1. p[i] = x /\ q[j - 1] # x /\ q[j - 1] \in R
        BY <3>1, <3>2
      <4> QED  BY <2>9, <3>1, <4>1
    <3>3. CASE i # 1
      <4>1. p[i] = q[i - 1] /\ i - 1 \in 1..(n - 1) /\ j - 1 \in 1..(n - 1) /\ i - 1 < j - 1
        BY <2>14, <2>16, <3>1, <3>3
      <4> HIDE DEF p
      <4> QED  BY <2>13, <3>1, <4>1
    <3> QED  BY <3>2, <3>3
  <2>17. Ordered(p, R)
    <3> HIDE DEF p
    <3> QED  BY <2>3, <2>15, <2>16 DEF Ordered
  <2> QED  BY <2>3, <2>17
<1>2. Cardinality(S) \in Nat
  BY FS_CardinalityType DEF BeginApart
<1> HIDE DEF Bad
<1>3. ~Bad(Cardinality(S))
  BY <1>1, <1>2
<1> QED  BY <1>3, Zenon DEF Bad

LEMMA SortedOrders ==
  ASSUME NEW S, BeginApart(S)
  PROVE  Ordered(Sorted(S), S) /\ Cardinality(S) \in Nat
<1>1. PICK q : Ordered(q, S)
  BY OrderExists
<1>2. Ordered(Sorted(S), S)
  BY <1>1, Zenon DEF Sorted, Ordered
<1> QED  BY <1>2, FS_CardinalityType DEF BeginApart

(* The waits of a take: each over before the last shot is, and one before  *)
(* the next.                                                               *)
LastTo(shots) == IF shots = <<>> THEN 0 ELSE shots[Len(shots)].to

Marked(shots, marks) ==
  /\ marks \in SUBSET Wait /\ IsFiniteSet(marks)
  /\ \A m \in marks : m.b < LastTo(shots)
  /\ \A m, n \in marks : m # n => m.b < n.a \/ n.b < m.a

LEMMA RegionsSpaced ==
  ASSUME NEW shots, NEW marks, Marked(shots, marks), NEW d
  PROVE  Spaced(RampRegions(marks, d))
<1> DEFINE S == {m \in marks : m.b > m.a + 2 /\ (d = Never \/ m.b < d)}
           q == Sorted(S)
<1>1. S \in SUBSET Wait /\ IsFiniteSet(S)
  BY FS_Subset DEF Marked
<1>2. \A m \in S : m.a \in Nat /\ m.b \in Nat /\ m.b > m.a + 2
  BY <1>1 DEF Wait
<1>3. \A m, n \in S : m # n => m.b < n.a \/ n.b < m.a
  BY DEF Marked
<1> HIDE DEF S
<1>4. \A m, n \in S : m.a = n.a => m = n
  <2> TAKE m, n \in S
  <2>1. m.a \in Nat /\ m.b \in Nat /\ m.b > m.a + 2 /\ n.a \in Nat /\ n.b \in Nat /\ n.b > n.a + 2
    BY <1>2
  <2>2. m # n => m.b < n.a \/ n.b < m.a
    BY <1>3
  <2> QED  BY <2>1, <2>2
<1>5. BeginApart(S)
  BY <1>1, <1>4 DEF BeginApart
<1>6. Ordered(q, S) /\ Cardinality(S) \in Nat
  BY <1>5, SortedOrders
<1> HIDE DEF q
<1> DEFINE n == Cardinality(S)
<1>7. q \in [1..n -> S] /\ n \in Nat /\ \A i, j \in 1..n : i < j => q[i].a < q[j].a
  BY <1>6 DEF Ordered
<1> HIDE DEF n
<1>8. q \in Seq(Wait) /\ Len(q) = n
  <2>1. q \in [1..n -> Wait]
    BY <1>1, <1>7
  <2> QED  BY <1>7, <2>1
<1>9. \A i \in 1..n : q[i].a < q[i].b
  <2> TAKE i \in 1..n
  <2>1. q[i] \in S
    BY <1>7
  <2>2. q[i].a \in Nat /\ q[i].b \in Nat /\ q[i].b > q[i].a + 2
    BY <1>2, <2>1
  <2> QED  BY <2>2
<1>10. \A i, j \in 1..n : i < j => q[i].b < q[j].a
  <2> SUFFICES ASSUME NEW i \in 1..n, NEW j \in 1..n, i < j PROVE q[i].b < q[j].a
    OBVIOUS
  <2>1. q[i] \in S /\ q[j] \in S /\ q[i].a < q[j].a
    BY <1>7
  <2>2. /\ q[i].a \in Nat /\ q[i].b \in Nat /\ q[i].b > q[i].a + 2
        /\ q[j].a \in Nat /\ q[j].b \in Nat /\ q[j].b > q[j].a + 2
    BY <1>2, <2>1
  <2>3. q[i] # q[j]
    BY <2>1, <2>2
  <2>4. q[i].b < q[j].a \/ q[j].b < q[i].a
    BY <1>3, <2>1, <2>3
  <2> QED  BY <2>1, <2>2, <2>4
<1>11. Spaced(q)
  BY <1>8, <1>9, <1>10, Zenon DEF Spaced
<1> QED  BY <1>11, Zenon DEF RampRegions, S, q

(* A capture that lasted contains all that the manifest marks.             *)
LEMMA WholeCapture ==
  ASSUME NEW shots, NEW marks, Marked(shots, marks), NEW raw \in Nat, raw > LastTo(shots),
         LastTo(shots) \in Nat
  PROVE  RampRegions(marks, raw) = RampRegions(marks, Never)
<1>1. \A m \in marks : m.b < raw
  <2> TAKE m \in marks
  <2>1. m.b \in Nat /\ m.b < LastTo(shots)
    BY DEF Marked, Wait
  <2> QED  BY <2>1
<1>2. {m \in marks : m.b > m.a + 2 /\ (raw = Never \/ m.b < raw)}
        = {m \in marks : m.b > m.a + 2 /\ (Never = Never \/ m.b < Never)}
  BY <1>1, Zenon
<1> QED  BY <1>2, Zenon DEF RampRegions

ShotTime == [id : ToSet(Shots), from : Nat, to : Nat]
TakeType == [dry : BOOLEAN, raw : Nat, manifest : BOOLEAN, shots : Seq(ShotTime),
             marks : SUBSET Wait, final : {0} \cup Ramps]
FilmType == [pc : {"off", "filming"}, now : Nat, shots : Seq(ShotTime), marks : SUBSET Wait,
             ends : Nat]
HeadingType == [id : ToSet(Shots), start : Int, end : Int, of : Nat, ramp : {0} \cup Ramps]
ClipType == [slug : ToSet(Shots) \cup {""}, number : Nat, says : ToSet(Shots)]

TakesTyped ==
  /\ takes \in Seq(TakeType) /\ Len(takes) <= MaxTakes
  /\ recent \in Seq(Nat) /\ ToSet(recent) = DOMAIN takes

(* What is filmed is marked, in the run under way and in every manifest.   *)
Filming ==
  /\ filming \in FilmType /\ inserted \in BOOLEAN
  /\ filming.pc = "filming" => Len(takes) > 0 /\ ~takes[Len(takes)].manifest
  /\ filming.now = LastTo(filming.shots)
  /\ Marked(filming.shots, filming.marks)
  /\ \A t \in DOMAIN takes : Marked(takes[t].shots, takes[t].marks)

(* The heading h has the times of a shot of the take it is of.             *)
TimedBy(h, take) ==
  LET regions == RampRegions(take.marks, Never) IN
  /\ take.manifest /\ h.ramp \in Ramps
  /\ \E n \in DOMAIN take.shots : h.start = ToFinal(take.shots[n].from, regions, h.ramp)
                                  /\ h.end = ToFinal(take.shots[n].to, regions, h.ramp)

Timed ==
  /\ headings \in Seq(HeadingType)
  /\ \A i \in DOMAIN headings :
       /\ headings[i].of \in 0..Len(takes)
       /\ headings[i].of # 0 => TimedBy(headings[i], takes[headings[i].of])
  /\ \A s \in ToSet(Shots) \ {Inserted} : \E i \in DOMAIN headings : headings[i].id = s

(* A file that has a name says what its name says.                         *)
Read ==
  /\ clips \in SUBSET ClipType
  /\ \A c \in clips : c.slug # "" => c.says = c.slug
  /\ NamedTakesStay

StudioInv == TakesTyped /\ Filming /\ Timed /\ Read

LEMMA ListTyped ==
  inserted \in BOOLEAN =>
    /\ List \in Seq(ToSet(Shots)) /\ OldList \in Seq(ToSet(Shots))
    /\ ToSet(OldList) = ToSet(Shots) \ {Inserted}
<1>1. Shots \in Seq(ToSet(Shots))
  BY StudioAssumption
<1>2. /\ Only(Shots, ToSet(Shots) \ {Inserted}) \in Seq(ToSet(Shots))
      /\ ToSet(Only(Shots, ToSet(Shots) \ {Inserted}))
           = ToSet(Shots) \cap (ToSet(Shots) \ {Inserted})
  BY <1>1, OnlyKeeps
<1>3. ToSet(Shots) \cap (ToSet(Shots) \ {Inserted}) = ToSet(Shots) \ {Inserted}
  OBVIOUS
<1> QED  BY <1>1, <1>2, <1>3, Zenon DEF List, OldList

LEMMA NothingMarked == Marked(<<>>, {}) /\ LastTo(<<>>) = 0
BY FS_EmptySet DEF Marked, LastTo

LEMMA StudioBegins == StudioInit => StudioInv
<1> SUFFICES ASSUME StudioInit PROVE StudioInv
  OBVIOUS
<1>1. TakesTyped
  <2>1. takes = <<>> /\ recent = <<>> /\ MaxTakes \in Nat
    BY StudioAssumption DEF StudioInit
  <2>2. ToSet(<<>>) = {} /\ DOMAIN <<>> = {}
    BY DEF ToSet
  <2>3. <<>> \in Seq(TakeType) /\ <<>> \in Seq(Nat) /\ Len(<<>>) = 0
    OBVIOUS
  <2>4. ToSet(recent) = DOMAIN takes
    BY <2>1, <2>2, Zenon
  <2> QED  BY <2>1, <2>3, <2>4 DEF TakesTyped
<1>2. Filming
  <2>1. filming = Off /\ inserted = FALSE /\ takes = <<>>
    BY DEF StudioInit
  <2>2. <<>> \in Seq(ShotTime)
    OBVIOUS
  <2>3. Off \in FilmType /\ Off.pc = "off" /\ Off.now = 0 /\ Off.shots = <<>> /\ Off.marks = {}
    BY <2>2 DEF Off, FilmType
  <2>4. DOMAIN takes = {}
    BY <2>1
  <2>5. filming.now = LastTo(filming.shots) /\ Marked(filming.shots, filming.marks)
    BY <2>1, <2>3, NothingMarked, Zenon
  <2> QED  BY <2>1, <2>3, <2>4, <2>5, Zenon DEF Filming
<1>3. Timed
  <2>1. /\ OldList \in Seq(ToSet(Shots)) /\ ToSet(OldList) = ToSet(Shots) \ {Inserted}
    BY ListTyped DEF StudioInit
  <2>2. headings = [i \in DOMAIN OldList |-> Unread(OldList[i])]
    BY DEF StudioInit
  <2>3. \A s \in ToSet(Shots) : Unread(s) \in HeadingType /\ Unread(s).id = s /\ Unread(s).of = 0
    BY DEF Unread, HeadingType
  <2>4. /\ DOMAIN OldList = 1..Len(OldList) /\ Len(OldList) \in Nat
        /\ \A i \in DOMAIN OldList : OldList[i] \in ToSet(Shots)
    BY <2>1
  <2>5. headings \in Seq(HeadingType) /\ DOMAIN headings = DOMAIN OldList
    <3>1. headings \in [1..Len(OldList) -> HeadingType]
      BY <2>2, <2>3, <2>4
    <3>2. headings \in Seq(HeadingType)
      BY <3>1, <2>4
    <3> QED  BY <3>2, <2>2
  <2>6. \A i \in DOMAIN headings : headings[i].id = OldList[i] /\ headings[i].of = 0
    BY <2>2, <2>3, <2>4
  <2>7. \A s \in ToSet(Shots) \ {Inserted} : \E i \in DOMAIN headings : headings[i].id = s
    BY <2>1, <2>5, <2>6, Zenon DEF ToSet
  <2>8. 0 \in 0..Len(takes)
    BY DEF StudioInit
  <2> QED  BY <2>5, <2>6, <2>7, <2>8, Zenon DEF Timed
<1>4. Read
  <2>1. clips = {} /\ pitch = NoPitch
    BY DEF StudioInit
  <2>2. DOMAIN pitch.tracks = {}
    BY <2>1 DEF NoPitch
  <2> QED  BY <2>1, <2>2 DEF Read, NamedTakesStay
<1> QED  BY <1>1, <1>2, <1>3, <1>4 DEF StudioInv

(* A take that is touched is the newest, and the others keep their order.  *)
LEMMA TouchKeeps ==
  ASSUME TakesTyped, NEW t \in DOMAIN takes, Touch(t)
  PROVE  recent' \in Seq(Nat) /\ ToSet(recent') = DOMAIN takes
<1> DEFINE K == DOMAIN takes \ {t}
           o == Only(recent, K)
<1>1. o \in Seq(Nat) /\ ToSet(o) = ToSet(recent) \cap K /\ recent' = <<t>> \o o
  BY OnlyKeeps DEF TakesTyped, Touch
<1>2. t \in Nat
  BY DEF TakesTyped
<1>3. ToSet(o) = K
  BY <1>1 DEF TakesTyped
<1> HIDE DEF o, K
<1>4. /\ recent' \in Seq(Nat) /\ DOMAIN recent' = 1..(1 + Len(o)) /\ recent'[1] = t
      /\ DOMAIN o = 1..Len(o) /\ Len(o) \in Nat /\ \A i \in 1..Len(o) : recent'[i + 1] = o[i]
  BY <1>1, <1>2
<1>5. \A i \in DOMAIN recent' : i = 1 \/ \E j \in DOMAIN o : recent'[i] = o[j]
  <2> TAKE i \in DOMAIN recent'
  <2>1. i # 1 => i - 1 \in 1..Len(o) /\ (i - 1) + 1 = i
    BY <1>4
  <2> QED  BY <1>4, <2>1
<1>6. \A j \in DOMAIN o : \E i \in DOMAIN recent' : recent'[i] = o[j]
  <2> TAKE j \in DOMAIN o
  <2>1. j + 1 \in DOMAIN recent' /\ recent'[j + 1] = o[j]
    BY <1>4
  <2> QED  BY <2>1
<1>7. 1 \in DOMAIN recent'
  BY <1>4
<1> DEFINE r == recent'
<1> HIDE DEF r
<1>8. ToSet(r) = ToSet(o) \cup {t}
  <2>1. /\ 1 \in DOMAIN r /\ r[1] = t
        /\ \A i \in DOMAIN r : i = 1 \/ \E j \in DOMAIN o : r[i] = o[j]
        /\ \A j \in DOMAIN o : \E i \in DOMAIN r : r[i] = o[j]
    BY <1>4, <1>5, <1>6, <1>7 DEF r
  <2>2. ASSUME NEW x \in ToSet(r) PROVE x \in ToSet(o) \cup {t}
    <3>1. PICK i \in DOMAIN r : x = r[i]
      BY <2>2, Zenon DEF ToSet
    <3> QED  BY <2>1, <3>1, Zenon DEF ToSet
  <2>3. ASSUME NEW x \in ToSet(o) PROVE x \in ToSet(r)
    <3>1. PICK j \in DOMAIN o : x = o[j]
      BY <2>3, Zenon DEF ToSet
    <3> QED  BY <2>1, <3>1, Zenon DEF ToSet
  <2>4. t \in ToSet(r)
    BY <2>1, Zenon DEF ToSet
  <2> QED  BY <2>2, <2>3, <2>4, Zenon
<1>9. ToSet(r) = DOMAIN takes
  BY <1>3, <1>8 DEF K
<1> QED  BY <1>4, <1>9 DEF r

LEMMA TimedStays ==
  ASSUME TakesTyped, Timed, UNCHANGED headings, takes' \in Seq(TakeType),
         Len(takes) <= Len(takes'),
         \A t \in 1..Len(takes) : takes[t].manifest =>
           /\ takes'[t].manifest
           /\ takes'[t].shots = takes[t].shots /\ takes'[t].marks = takes[t].marks
  PROVE  Timed'
<1> DEFINE hs == headings  n == Len(takes)  m == Len(takes')
<1>1. n \in Nat /\ m \in Nat /\ n <= m
  BY DEF TakesTyped
<1>2. ASSUME NEW i \in DOMAIN hs
      PROVE  hs[i].of \in 0..m /\ (hs[i].of # 0 => TimedBy(hs[i], takes'[hs[i].of]))
  <2> DEFINE t == hs[i].of
  <2>1. t \in 0..n /\ (t # 0 => TimedBy(hs[i], takes[t]))
    BY DEF Timed
  <2>2. t \in 0..m /\ (t # 0 => t \in 1..n)
    BY <1>1, <2>1
  <2> HIDE DEF t
  <2>3. ASSUME t # 0 PROVE TimedBy(hs[i], takes'[t])
    <3>1. takes[t].manifest
      BY <2>1, <2>3, Zenon DEF TimedBy
    <3>2. /\ takes'[t].manifest
          /\ takes'[t].shots = takes[t].shots /\ takes'[t].marks = takes[t].marks
      BY <2>2, <2>3, <3>1
    <3> QED  BY <2>1, <2>3, <3>2, Zenon DEF TimedBy
  <2> QED  BY <2>2, <2>3 DEF t
<1> HIDE DEF hs, m
<1>3. headings' = hs /\ Len(takes)' = m
  BY DEF hs, m
<1>4. /\ hs \in Seq(HeadingType)
      /\ \A s \in ToSet(Shots) \ {Inserted} : \E i \in DOMAIN hs : hs[i].id = s
  BY DEF Timed, hs
<1> QED  BY <1>2, <1>3, <1>4, Zenon DEF Timed

LEMMA ReadStays == ASSUME Read, UNCHANGED <<clips, pitch>> PROVE Read'
BY DEF Read, NamedTakesStay

LEMMA TakesStay == ASSUME TakesTyped, UNCHANGED <<takes, recent>> PROVE TakesTyped'
BY DEF TakesTyped

LEMMA TimedSame == ASSUME Timed, UNCHANGED <<takes, headings>> PROVE Timed'
BY DEF Timed

LEMMA FilmTyped ==
  Filming => /\ filming.pc \in {"off", "filming"} /\ filming.now \in Nat /\ filming.ends \in Nat
             /\ filming.shots \in Seq(ShotTime) /\ filming.marks \in SUBSET Wait
BY DEF Filming, FilmType

LEMMA OffIs ==
  /\ Off \in FilmType /\ Off.pc = "off" /\ Off.now = LastTo(Off.shots)
  /\ Marked(Off.shots, Off.marks)
<1>1. <<>> \in Seq(ShotTime)
  OBVIOUS
<1>2. Off \in FilmType /\ Off.pc = "off" /\ Off.now = 0 /\ Off.shots = <<>> /\ Off.marks = {}
  BY <1>1 DEF Off, FilmType
<1> QED  BY <1>2, NothingMarked, Zenon

LEMMA BeginKeeps == ASSUME StudioInv, NEW dry \in BOOLEAN, BeginTake(dry) PROVE StudioInv'
<1> DEFINE new == [dry |-> dry, raw |-> 0, manifest |-> FALSE, shots |-> <<>>, marks |-> {},
                   final |-> 0]
           n == Len(takes)
<1>1. takes' = Append(takes, new) /\ recent' = <<n + 1>> \o recent /\ n < MaxTakes
  BY DEF BeginTake
<1>2. new \in TakeType /\ ~new.manifest /\ new.shots = <<>> /\ new.marks = {}
  <2>1. <<>> \in Seq(ShotTime)
    OBVIOUS
  <2> QED  BY <2>1 DEF TakeType
<1> HIDE DEF new
<1>3. /\ takes \in Seq(TakeType) /\ n \in Nat /\ recent \in Seq(Nat) /\ ToSet(recent) = DOMAIN takes
  BY DEF StudioInv, TakesTyped
<1>4. /\ takes' \in Seq(TakeType) /\ Len(takes') = n + 1 /\ takes'[n + 1] = new
      /\ DOMAIN takes' = 1..(n + 1) /\ DOMAIN takes = 1..n
      /\ \A t \in 1..n : takes'[t] = takes[t]
  BY <1>1, <1>2, <1>3
<1>5. TakesTyped'
  <2>1. /\ recent' \in Seq(Nat) /\ DOMAIN recent' = 1..(Len(recent) + 1) /\ recent'[1] = n + 1
        /\ Len(recent) \in Nat /\ DOMAIN recent = 1..Len(recent)
        /\ \A i \in 1..Len(recent) : recent'[i + 1] = recent[i]
    BY <1>1, <1>3
  <2> DEFINE r == recent'
  <2> HIDE DEF r
  <2>2. ASSUME NEW x \in ToSet(r) PROVE x \in 1..(n + 1)
    <3>1. PICK i \in DOMAIN r : x = r[i]
      BY <2>2, Zenon DEF ToSet
    <3>2. CASE i = 1
      BY <1>3, <2>1, <3>1, <3>2 DEF r
    <3>3. CASE i # 1
      <4>1. i - 1 \in 1..Len(recent) /\ (i - 1) + 1 = i
        BY <2>1, <3>3 DEF r
      <4>2. x = recent[i - 1] /\ i - 1 \in DOMAIN recent
        BY <2>1, <3>1, <4>1 DEF r
      <4>3. x \in ToSet(recent)
        BY <4>2, Zenon DEF ToSet
      <4> QED  BY <1>3, <1>4, <4>3
    <3> QED  BY <3>2, <3>3
  <2>3. ASSUME NEW x \in 1..(n + 1) PROVE x \in ToSet(r)
    <3>1. CASE x = n + 1
      <4>1. 1 \in DOMAIN r /\ r[1] = x
        BY <2>1, <3>1 DEF r
      <4> QED  BY <4>1, Zenon DEF ToSet
    <3>2. CASE x # n + 1
      <4>1. x \in ToSet(recent)
        BY <1>3, <1>4, <3>2
      <4>2. PICK i \in DOMAIN recent : x = recent[i]
        BY <4>1, Zenon DEF ToSet
      <4>3. i + 1 \in DOMAIN r /\ r[i + 1] = x
        BY <2>1, <4>2 DEF r
      <4> QED  BY <4>3, Zenon DEF ToSet
    <3> QED  BY <3>1, <3>2
  <2>4. ToSet(r) = 1..(n + 1)
    BY <2>2, <2>3
  <2>5. MaxTakes \in Nat
    BY StudioAssumption
  <2>6. Len(takes') <= MaxTakes
    BY <1>1, <1>3, <1>4, <2>5
  <2> QED  BY <1>4, <2>1, <2>4, <2>6 DEF TakesTyped, r
<1>6. Filming'
  <2>1. filming' = [Off EXCEPT !.pc = "filming"] \/ filming' = Off
    BY DEF BeginTake
  <2>2. Off \in FilmType /\ Off.shots = <<>>
    BY OffIs DEF Off
  <2>3. [Off EXCEPT !.pc = "filming"] \in FilmType
        /\ [Off EXCEPT !.pc = "filming"].now = Off.now
        /\ [Off EXCEPT !.pc = "filming"].shots = Off.shots
        /\ [Off EXCEPT !.pc = "filming"].marks = Off.marks
    BY <2>2 DEF FilmType
  <2>4. /\ filming' \in FilmType /\ filming'.now = LastTo(filming'.shots)
        /\ Marked(filming'.shots, filming'.marks)
    BY <2>1, <2>3, OffIs, Zenon
  <2>5. inserted' \in BOOLEAN
    BY DEF BeginTake, StudioInv, Filming
  <2>6. Marked(new.shots, new.marks)
    BY <1>2, NothingMarked, Zenon
  <2>7. \A t \in 1..n : Marked(takes[t].shots, takes[t].marks)
    BY <1>4 DEF StudioInv, Filming
  <2>8. ASSUME NEW t \in DOMAIN takes' PROVE Marked(takes'[t].shots, takes'[t].marks)
    <3>1. t = n + 1 \/ t \in 1..n
      BY <1>3, <1>4
    <3> QED  BY <1>4, <2>6, <2>7, <3>1, Zenon
  <2>9. Len(takes') > 0 /\ ~takes'[Len(takes')].manifest
    BY <1>2, <1>3, <1>4
  <2> QED  BY <2>4, <2>5, <2>8, <2>9, Zenon DEF Filming
<1>7. Timed'
  <2>1. UNCHANGED headings /\ TakesTyped /\ Timed /\ Len(takes) <= Len(takes')
    BY <1>3, <1>4 DEF BeginTake, StudioInv
  <2> QED  BY <1>4, <2>1, TimedStays
<1>8. Read'
  BY ReadStays DEF BeginTake, StudioInv
<1> QED  BY <1>5, <1>6, <1>7, <1>8, Zenon DEF StudioInv

(* Only the run under way moves.                                           *)
LEMMA FilmingOnly ==
  ASSUME StudioInv, UNCHANGED <<takes, recent, inserted, headings, clips, pitch>>,
         filming' \in FilmType, filming'.now = LastTo(filming'.shots),
         Marked(filming'.shots, filming'.marks),
         filming'.pc = "filming" => filming.pc = "filming"
  PROVE  StudioInv'
<1>1. TakesTyped' /\ Timed' /\ Read'
  BY TakesStay, TimedSame, ReadStays DEF StudioInv
<1>2. Filming'
  <2>1. Filming
    BY DEF StudioInv
  <2> QED  BY <2>1 DEF Filming
<1> QED  BY <1>1, <1>2, Zenon DEF StudioInv

LEMMA KilledKeeps == ASSUME StudioInv, Killed PROVE StudioInv'
<1>1. filming' = Off
  BY DEF Killed
<1>2. /\ filming' \in FilmType /\ filming'.pc = "off" /\ filming'.now = LastTo(filming'.shots)
      /\ Marked(filming'.shots, filming'.marks)
  BY <1>1, OffIs, Zenon
<1> QED  BY <1>2, FilmingOnly DEF Killed

LEMMA DiesKeeps == ASSUME StudioInv, CaptureDies PROVE StudioInv'
<1>1. filming \in FilmType /\ filming' = [filming EXCEPT !.ends = filming.now]
  BY DEF CaptureDies, StudioInv, Filming
<1>2. /\ filming' \in FilmType /\ filming'.now = filming.now /\ filming'.shots = filming.shots
      /\ filming'.marks = filming.marks /\ filming'.pc = filming.pc
  BY <1>1 DEF FilmType
<1>3. filming.now = LastTo(filming.shots) /\ Marked(filming.shots, filming.marks)
  BY DEF StudioInv, Filming
<1>4. filming'.now = LastTo(filming'.shots) /\ Marked(filming'.shots, filming'.marks)
  BY <1>2, <1>3, Zenon
<1> QED  BY <1>2, <1>4, FilmingOnly DEF CaptureDies

LEMMA FilmedKeeps ==
  ASSUME StudioInv, NEW id \in ToSet(Shots), NEW seconds \in Nat, seconds > 0, NEW marks \in SUBSET Wait,
         filming.pc = "filming",
         \/ marks = {}
         \/ \E m \in Wait : marks = {m} /\ m.a = filming.now + 1 /\ m.a <= m.b
                            /\ m.b < filming.now + seconds,
         Filmed(id, seconds, marks), UNCHANGED <<takes, recent, inserted, headings, clips, pitch>>
  PROVE  StudioInv'
<1> DEFINE now == filming.now
           shots == filming.shots
           old == filming.marks
           s == [id |-> id, from |-> now, to |-> now + seconds]
<1>1. /\ filming \in FilmType /\ now \in Nat /\ shots \in Seq(ShotTime) /\ old \in SUBSET Wait
      /\ now = LastTo(shots) /\ Marked(shots, old)
  BY FilmTyped DEF StudioInv, Filming
<1>2. s \in ShotTime /\ s.to = now + seconds
  BY <1>1 DEF ShotTime
<1> HIDE DEF s
<1>3. filming' = [filming EXCEPT !.now = now + seconds, !.shots = Append(shots, s),
                                 !.marks = old \cup marks]
  BY DEF Filmed, s
<1>4. /\ Append(shots, s) \in Seq(ShotTime) /\ Append(shots, s) # <<>>
      /\ Append(shots, s)[Len(Append(shots, s))] = s
  BY <1>1, <1>2
<1>5. LastTo(Append(shots, s)) = now + seconds
  BY <1>2, <1>4, Zenon DEF LastTo
<1>6. /\ filming' \in FilmType /\ filming'.now = now + seconds /\ filming'.pc = filming.pc
      /\ filming'.shots = Append(shots, s) /\ filming'.marks = old \cup marks
  <2>1. Append(shots, s) \in Seq(ShotTime) /\ now + seconds \in Nat /\ old \cup marks \in SUBSET Wait
    BY <1>1, <1>4
  <2> HIDE DEF now, shots, old
  <2> QED  BY <1>1, <1>3, <2>1 DEF FilmType
<1>7. \A m \in old : m.a \in Nat /\ m.b \in Nat /\ m.b < now
  <2>1. \A m \in old : m.a \in Nat /\ m.b \in Nat
    BY <1>1 DEF Wait
  <2> QED  BY <1>1, <2>1 DEF Marked
<1>8. /\ IsFiniteSet(marks)
      /\ \A m \in marks : m.a \in Nat /\ m.b \in Nat /\ m.a = now + 1 /\ m.a <= m.b
                          /\ m.b < now + seconds
      /\ \A m, n \in marks : m = n
  <2>1. \A m \in Wait : m.a \in Nat /\ m.b \in Nat
    BY DEF Wait
  <2>2. IsFiniteSet(marks)
    BY FS_EmptySet, FS_Singleton
  <2> QED  BY <2>1, <2>2
<1> HIDE DEF now, shots, old
<1> DEFINE all == old \cup marks
<1>9. Marked(Append(shots, s), all)
  <2>1. all \in SUBSET Wait /\ IsFiniteSet(all)
    BY <1>1, <1>8, FS_Union DEF Marked
  <2>2. \A m \in all : m.b < now + seconds
    BY <1>1, <1>7, <1>8
  <2>3. \A m, n \in all : m # n => m.b < n.a \/ n.b < m.a
    <3> SUFFICES ASSUME NEW m \in all, NEW n \in all, m # n PROVE m.b < n.a \/ n.b < m.a
      OBVIOUS
    <3>1. CASE m \in old /\ n \in old
      BY <1>1, <3>1 DEF Marked
    <3>2. CASE m \in old /\ n \in marks
      BY <1>1, <1>7, <1>8, <3>2
    <3>3. CASE m \in marks /\ n \in old
      BY <1>1, <1>7, <1>8, <3>3
    <3>4. CASE m \in marks /\ n \in marks
      BY <1>8, <3>4
    <3> QED  BY <3>1, <3>2, <3>3, <3>4
  <2> QED  BY <1>5, <2>1, <2>2, <2>3, Zenon DEF Marked
<1>10. filming'.now = LastTo(filming'.shots) /\ Marked(filming'.shots, filming'.marks)
  BY <1>5, <1>6, <1>9, Zenon
<1> QED  BY <1>6, <1>10, FilmingOnly

LEMMA FilmKeeps == ASSUME StudioInv, Film PROVE StudioInv'
<1> DEFINE k == Len(filming.shots) + 1
           id == List[k]
           now == filming.now
<1>1. List \in Seq(ToSet(Shots)) /\ filming.pc = "filming" /\ now \in Nat
      /\ filming.shots \in Seq(ShotTime) /\ Len(filming.shots) < Len(List)
  BY ListTyped, FilmTyped DEF StudioInv, Filming, Film
<1>2. id \in ToSet(Shots)
  <2>1. k \in 1..Len(List)
    BY <1>1
  <2> QED  BY <1>1, <2>1
<1> HIDE DEF id, k
<1>3. UNCHANGED <<takes, recent, inserted, headings, clips, pitch>>
  BY DEF Film
<1>4. ASSUME Filmed(id, 3, {}) \/ Filmed(id, 2, {}) PROVE StudioInv'
  BY <1>1, <1>2, <1>3, <1>4, FilmedKeeps
<1>5. ASSUME NEW w \in Waits, Filmed(id, w + 2, {[id |-> id, a |-> now + 1, b |-> now + 1 + w]})
      PROVE  StudioInv'
  <2> DEFINE m == [id |-> id, a |-> now + 1, b |-> now + 1 + w]
  <2>1. w \in Nat
    BY StudioAssumption
  <2>2. m \in Wait /\ m.a = now + 1 /\ m.a <= m.b /\ m.b < now + (w + 2)
    BY <1>1, <1>2, <2>1 DEF Wait
  <2>3. Filmed(id, w + 2, {m})
    BY <1>5
  <2> HIDE DEF m
  <2>4. {m} \in SUBSET Wait /\ w + 2 \in Nat /\ w + 2 > 0
    BY <2>1, <2>2
  <2> QED  BY <1>1, <1>2, <1>3, <2>2, <2>3, <2>4, FilmedKeeps
<1>6. \/ Filmed(id, 3, {}) \/ Filmed(id, 2, {})
      \/ \E w \in Waits : Filmed(id, w + 2, {[id |-> id, a |-> now + 1, b |-> now + 1 + w]})
  BY DEF Film, id, k
<1> QED  BY <1>4, <1>5, <1>6, Zenon

LEMMA WrapKeeps == ASSUME StudioInv, WrapUp PROVE StudioInv'
<1> DEFINE t == Len(takes)
           raw == IF takes[t].dry THEN 0
                  ELSE IF filming.ends > 0 THEN filming.ends ELSE filming.now + 1
           new == [takes[t] EXCEPT !.raw = raw, !.manifest = TRUE, !.shots = filming.shots,
                                   !.marks = filming.marks]
<1>1. /\ takes \in Seq(TakeType) /\ t \in 1..t /\ t \in Nat /\ DOMAIN takes = 1..t
      /\ takes[t] \in TakeType /\ ~takes[t].manifest
  <2>1. takes \in Seq(TakeType) /\ t > 0 /\ ~takes[t].manifest
    BY DEF StudioInv, TakesTyped, Filming, WrapUp
  <2> QED  BY <2>1
<1>2. /\ filming.shots \in Seq(ShotTime) /\ filming.marks \in SUBSET Wait /\ filming.ends \in Nat
      /\ filming.now \in Nat /\ Marked(filming.shots, filming.marks)
  BY FilmTyped DEF StudioInv, Filming
<1>3. raw \in Nat
  BY <1>2
<1>4. takes' = [takes EXCEPT ![t] = new] /\ Touch(t) /\ filming' = Off
  BY DEF WrapUp
<1> HIDE DEF raw
<1>5. new \in TakeType /\ new.shots = filming.shots /\ new.marks = filming.marks
  <2> DEFINE old == takes[t]  ss == filming.shots  ms == filming.marks
  <2>1. old \in TakeType /\ ss \in Seq(ShotTime) /\ ms \in SUBSET Wait
    BY <1>1, <1>2
  <2> HIDE DEF old, ss, ms
  <2>2. [old EXCEPT !.raw = raw, !.manifest = TRUE, !.shots = ss, !.marks = ms] \in TakeType
        /\ [old EXCEPT !.raw = raw, !.manifest = TRUE, !.shots = ss, !.marks = ms].shots = ss
        /\ [old EXCEPT !.raw = raw, !.manifest = TRUE, !.shots = ss, !.marks = ms].marks = ms
    BY <1>3, <2>1 DEF TakeType
  <2> QED  BY <2>2 DEF old, ss, ms
<1> HIDE DEF new
<1>6. /\ takes' \in Seq(TakeType) /\ Len(takes') = t /\ DOMAIN takes' = 1..t
      /\ takes'[t] = new /\ \A u \in 1..t : u # t => takes'[u] = takes[u]
  <2>1. t = Len(takes)
    OBVIOUS
  <2> HIDE DEF t
  <2>2. takes \in [1..t -> TakeType] /\ takes' = [takes EXCEPT ![t] = new] /\ new \in TakeType
    BY <1>1, <1>4, <1>5, <2>1
  <2>3. takes' \in [1..t -> TakeType] /\ takes'[t] = new
        /\ \A u \in 1..t : u # t => takes'[u] = takes[u]
    BY <1>1, <2>2, Zenon
  <2> QED  BY <1>1, <2>3
<1>7. TakesTyped'
  <2>1. TakesTyped
    BY DEF StudioInv
  <2>2. recent' \in Seq(Nat) /\ ToSet(recent') = DOMAIN takes
    BY <1>1, <1>4, <2>1, TouchKeeps
  <2> QED  BY <1>1, <1>6, <2>1, <2>2 DEF TakesTyped
<1>8. Filming'
  <2>1. /\ filming' \in FilmType /\ filming'.pc = "off" /\ filming'.now = LastTo(filming'.shots)
        /\ Marked(filming'.shots, filming'.marks)
    BY <1>4, OffIs, Zenon
  <2>2. ASSUME NEW u \in DOMAIN takes' PROVE Marked(takes'[u].shots, takes'[u].marks)
    <3>1. CASE u = t
      BY <1>2, <1>5, <1>6, <3>1, Zenon
    <3>2. CASE u # t
      <4>1. u \in DOMAIN takes /\ takes'[u] = takes[u]
        BY <1>1, <1>6, <3>2
      <4>2. Marked(takes[u].shots, takes[u].marks)
        BY <4>1 DEF StudioInv, Filming
      <4> QED  BY <4>1, <4>2, Zenon
    <3> QED  BY <3>1, <3>2
  <2>3. inserted' \in BOOLEAN
    BY DEF StudioInv, Filming, WrapUp
  <2>4. filming'.pc # "filming"
    BY <2>1
  <2> QED  BY <2>1, <2>2, <2>3, <2>4, Zenon DEF Filming
<1>9. Timed'
  <2>1. TakesTyped /\ Timed /\ UNCHANGED headings /\ Len(takes) <= Len(takes')
    BY <1>1, <1>6 DEF StudioInv, WrapUp
  <2>2. \A u \in 1..t : takes[u].manifest => takes'[u] = takes[u]
    BY <1>1, <1>6
  <2> QED  BY <1>6, <2>1, <2>2, TimedStays
<1>10. Read'
  BY ReadStays DEF WrapUp, StudioInv
<1> QED  BY <1>7, <1>8, <1>9, <1>10, Zenon DEF StudioInv

LEMMA PostKeeps == ASSUME StudioInv, NEW t \in DOMAIN takes, NEW ramp \in Ramps, Post(t, ramp)
                  PROVE  StudioInv'
<1> DEFINE new == [takes[t] EXCEPT !.final = ramp]
           n == Len(takes)
<1>1. takes \in Seq(TakeType) /\ n \in Nat /\ DOMAIN takes = 1..n /\ takes[t] \in TakeType
  BY DEF StudioInv, TakesTyped
<1>2. takes' = [takes EXCEPT ![t] = new]
  BY DEF Post
<1>3. /\ new \in TakeType /\ new.shots = takes[t].shots /\ new.marks = takes[t].marks
      /\ new.manifest = takes[t].manifest
  BY <1>1 DEF TakeType
<1> HIDE DEF new
<1>4. /\ takes' \in Seq(TakeType) /\ Len(takes') = n /\ DOMAIN takes' = 1..n
      /\ \A u \in 1..n : takes'[u] = IF u = t THEN new ELSE takes[u]
  BY <1>1, <1>2, <1>3
<1>5. \A u \in 1..n : /\ takes'[u].shots = takes[u].shots /\ takes'[u].marks = takes[u].marks
                      /\ takes'[u].manifest = takes[u].manifest
  BY <1>3, <1>4, Zenon
<1>6. TakesTyped'
  <2>1. TakesTyped
    BY DEF StudioInv
  <2>2. recent' \in Seq(Nat) /\ ToSet(recent') = DOMAIN takes
    <3>1. CASE Touch(t)
      BY <2>1, <3>1, TouchKeeps
    <3>2. CASE UNCHANGED recent
      BY <2>1, <3>2 DEF TakesTyped
    <3> QED  BY <3>1, <3>2 DEF Post
  <2> QED  BY <1>1, <1>4, <2>1, <2>2 DEF TakesTyped
<1>7. Filming'
  <2>1. Filming /\ UNCHANGED <<filming, inserted>> /\ filming.pc # "filming"
    BY DEF StudioInv, Post
  <2>2. \A u \in DOMAIN takes' : Marked(takes'[u].shots, takes'[u].marks)
    <3>1. \A u \in 1..n : Marked(takes[u].shots, takes[u].marks)
      BY <1>1, <2>1 DEF Filming
    <3> QED  BY <1>4, <1>5, <3>1, Zenon
  <2> QED  BY <2>1, <2>2, Zenon DEF Filming
<1>8. Timed'
  <2>1. TakesTyped /\ Timed /\ UNCHANGED headings /\ Len(takes) <= Len(takes')
    BY <1>1, <1>4 DEF StudioInv, Post
  <2> QED  BY <1>4, <1>5, <2>1, TimedStays
<1>9. Read'
  BY ReadStays DEF Post, StudioInv
<1> QED  BY <1>6, <1>7, <1>8, <1>9, Zenon DEF StudioInv

LEMMA FinalInt ==
  ASSUME NEW q, Spaced(q), NEW t \in Nat, NEW ramp \in Nat \ {0}
  PROVE  ToFinal(t, q, ramp) \in Int
<1> DEFINE F == Finals(t, q, ramp)
           T == {k \in Nat : k <= Len(q) /\ F[k] \notin Int}
<1>1. q \in Seq(Wait)
  BY DEF Spaced
<1>2. ASSUME NEW k \in 1..Len(q), F[k - 1] \in Int PROVE F[k] \in Int
  <2>1. q[k] \in Wait
    BY <1>1
  <2>2. q[k].a \in Nat /\ q[k].b \in Nat
    BY <2>1 DEF Wait
  <2>3. Inside(t, q[k]) \in Int
    BY <2>2 DEF Inside
  <2>4. Inside(t, q[k]) \div ramp \in Int
    BY <2>3
  <2>5. k # 0 /\ k \in Nat
    BY <1>1
  <2>6. F[k] = IF t <= q[k].a THEN F[k - 1]
               ELSE F[k - 1] - (Inside(t, q[k]) - Inside(t, q[k]) \div ramp)
    BY <2>5, FinalsAre
  <2> HIDE DEF F
  <2> QED  BY <1>2, <2>3, <2>4, <2>6
<1>3. F[0] \in Int
  BY FinalsAre
<1> HIDE DEF F
<1>4. T = {}
  <2> SUFFICES ASSUME T # {} PROVE FALSE
    OBVIOUS
  <2>1. T \in SUBSET Nat
    OBVIOUS
  <2>2. PICK k \in T : \A m \in T : k <= m
    BY <2>1, LeastNat
  <2>3. k \in 1..Len(q) /\ k - 1 \in Nat /\ k - 1 <= Len(q) /\ k - 1 \notin T
    BY <1>1, <1>3, <2>2
  <2> QED  BY <1>2, <2>3
<1>5. F[Len(q)] \in Int
  BY <1>1, <1>4
<1> QED  BY <1>5, Zenon DEF ToFinal, F

LEMMA SyncKeeps == ASSUME StudioInv, NEW t \in DOMAIN takes, NEW ramp \in Ramps, Sync(t, ramp)
                  PROVE  StudioInv'
<1> DEFINE take == takes[t]
           q == RampRegions(take.marks, Never)
           hs == headings
           n == Len(hs)
           new(i) == [id |-> hs[i].id, of |-> t, ramp |-> ramp,
                      start |-> ToFinal(take.shots[i].from, q, ramp),
                      end |-> ToFinal(take.shots[i].to, q, ramp)]
<1>1. /\ t \in 1..Len(takes) /\ t \in Nat /\ Len(takes) \in Nat /\ take.shots \in Seq(ShotTime)
      /\ take.manifest /\ Len(take.shots) = n /\ Marked(take.shots, take.marks)
  <2>1. takes \in Seq(TakeType)
    BY DEF StudioInv, TakesTyped
  <2>2. t \in 1..Len(takes) /\ take \in TakeType
    BY <2>1
  <2>3. take.shots \in Seq(ShotTime)
    BY <2>2 DEF TakeType
  <2>4. take.manifest /\ Len(take.shots) = n
    BY DEF Sync
  <2>5. Marked(take.shots, take.marks)
    BY DEF StudioInv, Filming
  <2> QED  BY <2>1, <2>2, <2>3, <2>4, <2>5
<1>2. /\ hs \in Seq(HeadingType) /\ n \in Nat /\ DOMAIN hs = 1..n /\ \A i \in 1..n : hs[i] \in HeadingType
  BY DEF StudioInv, Timed
<1>3. headings' = [i \in 1..n |-> new(i)]
  BY <1>2 DEF Sync, Timecodes
<1>4. Spaced(q)
  BY <1>1, RegionsSpaced
<1> HIDE DEF q, hs, n
<1>5. ASSUME NEW i \in 1..n
      PROVE  new(i) \in HeadingType /\ i \in DOMAIN take.shots
  <2>1. i \in DOMAIN take.shots /\ take.shots[i] \in ShotTime
    BY <1>1, <1>2
  <2>2. take.shots[i].from \in Nat /\ take.shots[i].to \in Nat
    BY <2>1 DEF ShotTime
  <2>3. ToFinal(take.shots[i].from, q, ramp) \in Int /\ ToFinal(take.shots[i].to, q, ramp) \in Int
    BY <1>4, <2>2, FinalInt, StudioAssumption
  <2>4. hs[i].id \in ToSet(Shots)
    BY <1>2 DEF HeadingType
  <2> HIDE DEF take
  <2> QED  BY <1>1, <2>1, <2>3, <2>4 DEF HeadingType
<1>6. TakesTyped' /\ Filming' /\ Read'
  <2>1. UNCHANGED <<takes, recent, filming, inserted, clips, pitch>> /\ TakesTyped /\ Filming /\ Read
    BY DEF StudioInv, Sync
  <2> QED  BY <2>1, TakesStay, ReadStays DEF Filming
<1>7. Timed'
  <2> DEFINE gs == headings'
  <2>1. gs \in [1..n -> HeadingType]
    BY <1>3, <1>5
  <2>2. \A i \in 1..n : gs[i].id = hs[i].id /\ gs[i].of = t /\ gs[i].ramp = ramp
                        /\ gs[i].start = ToFinal(take.shots[i].from, q, ramp)
                        /\ gs[i].end = ToFinal(take.shots[i].to, q, ramp)
    BY <1>3
  <2> HIDE DEF gs
  <2>3. gs \in Seq(HeadingType) /\ DOMAIN gs = 1..n
    BY <1>2, <2>1
  <2> HIDE DEF take
  <2>4. ASSUME NEW i \in 1..n PROVE TimedBy(gs[i], take)
    BY <1>1, <1>5, <2>2, <2>4, Zenon DEF TimedBy, q
  <2>5. ASSUME NEW i \in DOMAIN gs
        PROVE  gs[i].of \in 0..Len(takes') /\ (gs[i].of # 0 => TimedBy(gs[i], takes'[gs[i].of]))
    <3>1. takes' = takes /\ gs[i].of = t /\ i \in 1..n /\ t \in 0..Len(takes)
      BY <1>1, <2>2, <2>3 DEF Sync
    <3> QED  BY <2>4, <3>1, Zenon DEF take
  <2>6. ASSUME NEW s \in ToSet(Shots) \ {Inserted} PROVE \E i \in DOMAIN gs : gs[i].id = s
    <3>1. \E i \in 1..n : hs[i].id = s
      BY <1>2 DEF StudioInv, Timed, hs
    <3> QED  BY <2>2, <2>3, <3>1, Zenon
  <2>7. gs = headings' /\ Len(takes)' = Len(takes')
    BY DEF gs
  <2> QED  BY <2>3, <2>5, <2>6, <2>7, Zenon DEF Timed
<1> QED  BY <1>6, <1>7, Zenon DEF StudioInv

LEMMA InsertShotKeeps == ASSUME StudioInv, InsertShot PROVE StudioInv'
<1>1. /\ UNCHANGED <<takes, recent, filming, headings, clips, pitch>> /\ inserted' = TRUE
      /\ TakesTyped /\ Filming /\ Timed /\ Read
  BY DEF StudioInv, InsertShot
<1>2. Filming'
  BY <1>1 DEF Filming
<1> QED  BY <1>1, <1>2, TakesStay, TimedSame, ReadStays DEF StudioInv

LEMMA InsertSectionKeeps == ASSUME StudioInv, InsertSection PROVE StudioInv'
<1> DEFINE hs == headings
           n == Len(Shots)
           older(i) == CHOOSE h \in ToSet(hs) : h.id = Shots[i]
           new(i) == IF Shots[i] = Inserted THEN Unread(Inserted) ELSE older(i)
           All == {h \in HeadingType : h.of \in 0..Len(takes)
                                       /\ (h.of # 0 => TimedBy(h, takes[h.of]))}
<1>1. headings' = [i \in DOMAIN Shots |-> new(i)]
  BY DEF InsertSection
<1>2. /\ Shots \in Seq(ToSet(Shots)) /\ n \in Nat /\ DOMAIN Shots = 1..n
      /\ \A i \in 1..n : Shots[i] \in ToSet(Shots)
  <2>1. Shots \in Seq(ToSet(Shots))
    BY StudioAssumption
  <2> QED  BY <2>1
<1>3. \A h \in ToSet(hs) : h \in All
  <2>1. \A i \in DOMAIN hs : hs[i] \in HeadingType
    BY DEF StudioInv, Timed
  <2>2. \A i \in DOMAIN hs : hs[i].of \in 0..Len(takes)
                             /\ (hs[i].of # 0 => TimedBy(hs[i], takes[hs[i].of]))
    BY DEF StudioInv, Timed
  <2>3. \A i \in DOMAIN hs : hs[i] \in All
    BY <2>1, <2>2
  <2> HIDE DEF All
  <2> QED  BY <2>3, Zenon DEF ToSet
<1>4. Len(takes) \in Nat
  BY DEF StudioInv, TakesTyped
<1>5. ASSUME NEW i \in 1..n PROVE new(i) \in All /\ new(i).id = Shots[i]
  <2>1. CASE Shots[i] = Inserted
    <3>1. Inserted \in ToSet(Shots)
      BY <1>2, <2>1
    <3>2. Unread(Inserted) \in HeadingType /\ Unread(Inserted).of = 0 /\ Unread(Inserted).id = Inserted
      BY <3>1 DEF Unread, HeadingType
    <3>3. Unread(Inserted) \in All
      BY <1>4, <3>2
    <3> HIDE DEF All
    <3> QED  BY <2>1, <3>2, <3>3, Zenon
  <2>2. CASE Shots[i] # Inserted
    <3>1. \E h \in ToSet(hs) : h.id = Shots[i]
      <4>1. \E j \in DOMAIN hs : hs[j].id = Shots[i]
        BY <1>2, <2>2 DEF StudioInv, Timed
      <4> QED  BY <4>1, Zenon DEF ToSet
    <3>2. older(i) \in ToSet(hs) /\ older(i).id = Shots[i]
      BY <3>1, Zenon
    <3> HIDE DEF All, older
    <3> QED  BY <1>3, <2>2, <3>2, Zenon
  <2> QED  BY <2>1, <2>2
<1> HIDE DEF new
<1>6. TakesTyped' /\ Filming' /\ Read'
  <2>1. UNCHANGED <<takes, recent, filming, inserted, clips, pitch>> /\ TakesTyped /\ Filming /\ Read
    BY DEF StudioInv, InsertSection
  <2> QED  BY <2>1, TakesStay, ReadStays DEF Filming
<1>7. Timed'
  <2> DEFINE gs == headings'
  <2>1. gs = [i \in 1..n |-> new(i)]
    BY <1>1, <1>2, Zenon
  <2>2. \A i \in 1..n : gs[i] \in All /\ gs[i].id = Shots[i]
    <3> HIDE DEF All
    <3> QED  BY <1>5, <2>1
  <2> HIDE DEF gs
  <2>3. gs \in Seq(HeadingType) /\ DOMAIN gs = 1..n
    <3>1. gs \in [1..n -> HeadingType]
      BY <2>1, <2>2
    <3> QED  BY <1>2, <3>1
  <2>4. ASSUME NEW i \in DOMAIN gs
        PROVE  gs[i].of \in 0..Len(takes') /\ (gs[i].of # 0 => TimedBy(gs[i], takes'[gs[i].of]))
    <3>1. takes' = takes /\ gs[i] \in All
      BY <2>2, <2>3 DEF InsertSection
    <3> QED  BY <3>1
  <2>5. ASSUME NEW s \in ToSet(Shots) \ {Inserted} PROVE \E i \in DOMAIN gs : gs[i].id = s
    <3>1. PICK i \in DOMAIN Shots : s = Shots[i]
      BY <2>5, Zenon DEF ToSet
    <3> QED  BY <1>2, <2>2, <2>3, <3>1, Zenon
  <2>6. gs = headings' /\ Len(takes)' = Len(takes')
    BY DEF gs
  <2> QED  BY <2>3, <2>4, <2>5, <2>6, Zenon DEF Timed
<1> QED  BY <1>6, <1>7, Zenon DEF StudioInv

LEMMA ReadKept ==
  ASSUME StudioInv, NEW i \in DOMAIN headings, NEW named \in BOOLEAN, ReadAloud(i, named)
  PROVE  StudioInv'
<1> DEFINE id == headings[i].id
           clip == [slug |-> IF named THEN id ELSE "", number |-> i, says |-> id]
<1>1. clips' = {c \in clips : c.slug # clip.slug \/ (~named /\ c.number # i)} \cup {clip}
  BY DEF ReadAloud
<1>2. id \in ToSet(Shots) /\ i \in Nat
  <2>1. headings \in Seq(HeadingType)
    BY DEF StudioInv, Timed
  <2>2. headings[i] \in HeadingType /\ i \in Nat
    BY <2>1
  <2> QED  BY <2>2 DEF HeadingType
<1> HIDE DEF id
<1>3. clip \in ClipType /\ (clip.slug # "" => clip.says = clip.slug)
  BY <1>2 DEF ClipType
<1> HIDE DEF clip
<1>4. clips' \subseteq clips \cup {clip}
  BY <1>1
<1>5. /\ UNCHANGED <<takes, recent, filming, inserted, headings, pitch>>
      /\ TakesTyped /\ Filming /\ Timed /\ Read
  BY DEF StudioInv, ReadAloud
<1>6. Read'
  <2>1. clips' \in SUBSET ClipType /\ \A c \in clips' : c.slug # "" => c.says = c.slug
    BY <1>3, <1>4, <1>5 DEF Read
  <2>2. NamedTakesStay'
    BY <1>5 DEF Read, NamedTakesStay
  <2> QED  BY <2>1, <2>2 DEF Read
<1>7. Filming'
  BY <1>5 DEF Filming
<1> QED  BY <1>5, <1>6, <1>7, TakesStay, TimedSame DEF StudioInv

(* A track under a name is a clip of that name.                            *)
LEMMA AssembleKeeps == ASSUME StudioInv, Assemble PROVE StudioInv'
<1> DEFINE F == {t \in DOMAIN takes : takes[t].final # 0}
           cuts == Only(recent, F)
           ids == [i \in DOMAIN headings |-> i]
           H == {i \in DOMAIN headings : \E c \in clips : Hit(i, c)}
           track(n) == LET i == Found[n]
                           c == CHOOSE c \in clips : Hit(i, c)
                       IN  [section |-> headings[i].id, at |-> headings[i].start,
                            of |-> headings[i].of, says |-> c.says, named |-> c.slug # ""]
<1>1. /\ cuts # <<>> /\ Touch(cuts[1])
      /\ pitch' = [take |-> cuts[1], tracks |-> [n \in DOMAIN Found |-> track(n)]]
      /\ UNCHANGED <<takes, filming, inserted, headings, clips>>
      /\ TakesTyped /\ Filming /\ Timed /\ Read
  BY DEF StudioInv, Assemble
<1>2. cuts[1] \in DOMAIN takes
  <2>1. cuts \in Seq(Nat) /\ ToSet(cuts) = ToSet(recent) \cap F
    BY <1>1, OnlyKeeps DEF TakesTyped
  <2> HIDE DEF cuts, F
  <2>2. 1 \in DOMAIN cuts
    <3>1. cuts \in Seq(Nat) /\ cuts # <<>>
      BY <1>1, <2>1, Zenon
    <3> QED  BY <3>1
  <2>3. cuts[1] \in ToSet(cuts)
    BY <2>2, Zenon DEF ToSet
  <2> QED  BY <2>1, <2>3 DEF F
<1>3. ASSUME NEW n \in DOMAIN Found PROVE Found[n] \in H
  <2>1. headings \in Seq(HeadingType)
    BY <1>1 DEF Timed
  <2>2. ids \in Seq(Nat)
    <3>1. DOMAIN headings = 1..Len(headings) /\ Len(headings) \in Nat
      BY <2>1
    <3>2. ids \in [1..Len(headings) -> Nat]
      BY <3>1
    <3> QED  BY <3>1, <3>2
  <2> HIDE DEF ids, H
  <2>3. ToSet(Only(ids, H)) = ToSet(ids) \cap H
    BY <2>2, OnlyKeeps
  <2>4. Found = Only(ids, H)
    BY Zenon DEF Found, ids, H
  <2>5. Found[n] \in ToSet(Found)
    BY <1>3, Zenon DEF ToSet
  <2>6. Found[n] \in ToSet(ids) \cap H
    BY <2>3, <2>4, <2>5, Zenon
  <2> QED  BY <2>6, Zenon
<1> HIDE DEF track, cuts
<1>4. ASSUME NEW n \in DOMAIN Found, track(n).named PROVE track(n).says = track(n).section
  <2> DEFINE i == Found[n]
             c == CHOOSE c \in clips : Hit(i, c)
  <2>1. c \in clips /\ Hit(i, c)
    <3>1. \E d \in clips : Hit(i, d)
      BY <1>3, Zenon
    <3> QED  BY <3>1, Zenon
  <2> HIDE DEF i, c
  <2>2. /\ track(n).section = headings[i].id /\ track(n).says = c.says
        /\ (track(n).named => c.slug # "")
    BY DEF track, i, c
  <2>3. c.slug # ""
    BY <1>4, <2>2
  <2>4. c.says = c.slug
    BY <1>1, <2>1, <2>3 DEF Read
  <2>5. c.slug = headings[i].id
    BY <2>1, <2>3, Zenon DEF Hit
  <2> QED  BY <2>2, <2>4, <2>5, Zenon
<1>5. NamedTakesStay'
  <2>1. DOMAIN pitch'.tracks = DOMAIN Found /\ \A n \in DOMAIN Found : pitch'.tracks[n] = track(n)
    BY <1>1
  <2>2. \A n \in DOMAIN pitch'.tracks :
          pitch'.tracks[n].named => pitch'.tracks[n].says = pitch'.tracks[n].section
    BY <1>4, <2>1, Zenon
  <2> QED  BY <2>2, Zenon DEF NamedTakesStay
<1>6. Read'
  BY <1>1, <1>5 DEF Read
<1>7. TakesTyped'
  <2>1. recent' \in Seq(Nat) /\ ToSet(recent') = DOMAIN takes
    BY <1>1, <1>2, TouchKeeps
  <2> QED  BY <1>1, <2>1 DEF TakesTyped
<1>8. Filming' /\ Timed'
  BY <1>1, TimedSame DEF Filming
<1> QED  BY <1>6, <1>7, <1>8 DEF StudioInv

LEMMA StudioStep == StudioInv /\ [StudioNext]_studioVars => StudioInv'
<1> SUFFICES ASSUME StudioInv, [StudioNext]_studioVars PROVE StudioInv'
  OBVIOUS
<1>1. CASE UNCHANGED studioVars
  <2>1. /\ UNCHANGED <<takes, recent, filming, inserted, headings, clips, pitch>>
        /\ TakesTyped /\ Filming /\ Timed /\ Read
    BY <1>1 DEF studioVars, StudioInv
  <2> QED  BY <2>1, TakesStay, TimedSame, ReadStays DEF StudioInv, Filming
<1>2. ASSUME NEW dry \in BOOLEAN, BeginTake(dry) PROVE StudioInv'
  BY <1>2, BeginKeeps
<1>3. CASE Film
  BY <1>3, FilmKeeps
<1>4. CASE CaptureDies
  BY <1>4, DiesKeeps
<1>5. CASE WrapUp
  BY <1>5, WrapKeeps
<1>6. CASE Killed
  BY <1>6, KilledKeeps
<1>7. ASSUME NEW t \in DOMAIN takes, NEW ramp \in Ramps, Post(t, ramp) PROVE StudioInv'
  BY <1>7, PostKeeps
<1>8. ASSUME NEW t \in DOMAIN takes, NEW ramp \in Ramps, Sync(t, ramp) PROVE StudioInv'
  BY <1>8, SyncKeeps
<1>9. CASE InsertShot
  BY <1>9, InsertShotKeeps
<1>10. CASE InsertSection
  BY <1>10, InsertSectionKeeps
<1>11. ASSUME NEW i \in DOMAIN headings, NEW named \in BOOLEAN, ReadAloud(i, named)
       PROVE  StudioInv'
  BY <1>11, ReadKept
<1>12. CASE Assemble
  BY <1>12, AssembleKeeps
<1> QED  BY <1>1, <1>2, <1>3, <1>4, <1>5, <1>6, <1>7, <1>8, <1>9, <1>10, <1>11, <1>12, Zenon
         DEF StudioNext

LEMMA CutIsTimed == StudioInv => TimecodesAreOfTheCut
<1> SUFFICES ASSUME StudioInv, NEW i \in DOMAIN headings, headings[i].of # 0,
                    Lasted(headings[i].of), headings[i].ramp = takes[headings[i].of].final
             PROVE  ShownInTheCut(headings[i])
  BY Zenon DEF TimecodesAreOfTheCut
<1> DEFINE h == headings[i]
           t == h.of
           take == takes[t]
           q == RampRegions(take.marks, Never)
<1>1. t \in DOMAIN takes /\ take \in TakeType /\ TimedBy(h, take)
  <2>1. takes \in Seq(TakeType) /\ t \in 0..Len(takes) /\ TimedBy(h, take)
    BY DEF StudioInv, TakesTyped, Timed
  <2>2. t \in 1..Len(takes)
    BY <2>1
  <2> QED  BY <2>1, <2>2
<1>2. /\ take.raw \in Nat /\ take.shots \in Seq(ShotTime) /\ Marked(take.shots, take.marks)
      /\ take.raw > take.shots[Len(take.shots)].to
      /\ h.ramp = take.final /\ h.ramp \in Nat \ {0}
  BY <1>1, StudioAssumption DEF TakeType, StudioInv, Filming, Lasted, TimedBy
<1> HIDE DEF take, h, q
<1>3. PICK n \in DOMAIN take.shots : /\ h.start = ToFinal(take.shots[n].from, q, h.ramp)
                                     /\ h.end = ToFinal(take.shots[n].to, q, h.ramp)
  BY <1>1, Zenon DEF TimedBy, q
<1>4. LastTo(take.shots) = take.shots[Len(take.shots)].to /\ LastTo(take.shots) \in Nat
  <2> DEFINE ss == take.shots
  <2>1. ss \in Seq(ShotTime) /\ n \in DOMAIN ss
    BY <1>2
  <2> HIDE DEF ss
  <2>2. ss # <<>> /\ ss[Len(ss)] \in ShotTime
    BY <2>1
  <2>3. LastTo(ss) = ss[Len(ss)].to /\ ss[Len(ss)].to \in Nat
    BY <2>2 DEF LastTo, ShotTime
  <2> QED  BY <2>3 DEF ss
<1>5. RampRegions(take.marks, take.raw) = q
  <2>1. take.raw > LastTo(take.shots)
    BY <1>2, <1>4
  <2> QED  BY <1>2, <1>4, <2>1, WholeCapture DEF q
<1>6. CutParts(t) = RampParts(q, h.ramp)
  BY <1>2, <1>5, Zenon DEF CutParts, take
<1>7. Spaced(q)
  BY <1>2, RegionsSpaced DEF q
<1>8. take.shots[n].from \in Nat /\ take.shots[n].to \in Nat
  <2>1. take.shots[n] \in ShotTime
    BY <1>2
  <2> QED  BY <2>1 DEF ShotTime
<1>9. /\ h.start = InTheCut(take.shots[n].from, CutParts(t))
      /\ h.end = InTheCut(take.shots[n].to, CutParts(t))
  BY <1>2, <1>3, <1>6, <1>7, <1>8, OneCut, Zenon
<1> QED  BY <1>3, <1>9, Zenon DEF ShownInTheCut, take, h

(* For any takes, waits and edits: the sound of a section is laid where    *)
(* the cut, its waits run faster, shows the shot of that section, and says *)
(* what the section says (voice.mjs, post.mjs, pitch-sync.mjs).            *)
THEOREM SoundFits == StudioSpec => []SoundOfThePicture
<1>1. StudioInv => SoundOfThePicture
  BY CutIsTimed DEF SoundOfThePicture, StudioInv, Read
<1> QED  BY <1>1, StudioBegins, StudioStep, PTL DEF StudioSpec

(* What the recorder, the voice and the cut keep has its type, whatever is *)
(* filmed, killed, spoken or edited in between (StudioTypes).              *)
THEOREM StudioTyped == StudioSpec => []StudioTypes
<1>1. StudioInv => StudioTypes
  BY DEF StudioTypes, StudioInv, TakesTyped, Timed
<1> QED  BY <1>1, StudioBegins, StudioStep, PTL DEF StudioSpec

-----------------------------------------------------------------------------
(* The types of three pages; the bounds are what a step must stop at.      *)

(* The panes: no more steps than orders an agent may propose, on the wire  *)
(* or shown.                                                               *)
StepsBounded ==
  /\ \A m \in Modes : arms[m].running \in BOOLEAN /\ arms[m].steps \in 0..MaxProposals
  /\ \A k \in Runs : \A i \in DOMAIN wire[k] : wire[k][i].n \in 0..MaxProposals

LEMMA StepsStep == AgentInv /\ StepsBounded /\ [AgentNext]_agentVars => StepsBounded'
<1> SUFFICES ASSUME AgentInv, StepsBounded, [AgentNext]_agentVars PROVE StepsBounded'
  OBVIOUS
<1> DEFINE Pane(p) == p.running \in BOOLEAN /\ p.steps \in 0..MaxProposals
           Sent(ws) == \A i \in DOMAIN ws : ws[i].n \in 0..MaxProposals
<1>1. /\ arms \in [Modes -> PaneType] /\ wire \in [Runs -> Seq(EventType)]
      /\ (\A m \in Modes : Pane(arms[m])) /\ (\A k \in Runs : Sent(wire[k]))
      /\ MaxProposals \in Nat
  BY AgentAssumption DEF AgentInv, AgentTyped, StepsBounded
<1>2. Sent(<<>>)
  OBVIOUS
<1>3. Pane(Empty) /\ Pane([Empty EXCEPT !.running = TRUE]) /\ Pane([Empty EXCEPT !.queued = TRUE])
  BY <1>1 DEF Empty
<1>4. "enforce" \in Modes /\ "observe" \in Modes
  BY DEF Modes
<1>5. ASSUME NEW p \in PaneType, Pane(p), NEW e \in EventType, e.n \in 0..MaxProposals
      PROVE  Pane(OnEvent(p, e))
  BY <1>5 DEF OnEvent, PaneType, EventType
<1>6. ASSUME NEW as \in [Modes -> PaneType], \A m \in Modes : Pane(as[m]), NEW m \in Modes
      PROVE  Failed(as, m) \in [Modes -> PaneType] /\ \A j \in Modes : Pane(Failed(as, m)[j])
  <2> DEFINE p == [as[m] EXCEPT !.running = FALSE, !.error = TRUE]
  <2>1. p \in PaneType /\ p.running = FALSE /\ p.steps = as[m].steps
    BY <1>6 DEF PaneType
  <2>2. Failed(as, m) = [as EXCEPT ![m] = p]
    BY <1>6 DEF Failed, PaneType
  <2> HIDE DEF p
  <2> QED  BY <1>6, <2>1, <2>2
<1> HIDE DEF Pane, Sent
<1>7. ASSUME NEW k \in Runs, NEW as \in [Modes -> PaneType], \A m \in Modes : Pane(as[m]),
             ReturnArm(k, as)
      PROVE  (\A m \in Modes : Pane(arms'[m])) /\ (\A j \in Runs : Sent(wire'[j]))
  <2>1. \A j \in Runs : Sent(wire'[j])
    BY <1>1, <1>2, <1>7 DEF ReturnArm
  <2>2. \A m \in Modes : Pane(Begin(as)[m])
    BY <1>3, <1>4, <1>7 DEF Begin
  <2>3. arms' = Begin(as) \/ arms' = as
    BY <1>7 DEF ReturnArm
  <2> QED  BY <1>7, <2>1, <2>2, <2>3
<1>8. CASE RunBoth
  <2>1. /\ wire' = wire
        /\ arms' = [m \in Modes |-> IF m = "enforce" THEN [Empty EXCEPT !.running = TRUE]
                                    ELSE [Empty EXCEPT !.queued = TRUE]]
    BY <1>8 DEF RunBoth
  <2>2. \A m \in Modes : Pane(arms'[m])
    BY <1>3, <2>1
  <2> QED  BY <1>1, <2>1, <2>2 DEF StepsBounded, Pane, Sent
<1>9. ASSUME NEW k \in Runs, Send(k) PROVE StepsBounded'
  <2>1. PICK kind \in {"start", "step", "verdict", "done", "error", "cut"},
             n \in 0..MaxProposals, ex \in BOOLEAN :
          wire' = [wire EXCEPT ![k] = Append(wire[k], Event(k, kind, n, ex, last[k].seq + 1))]
    BY <1>9 DEF Send
  <2> DEFINE e == Event(k, kind, n, ex, last[k].seq + 1)
  <2>2. e \in EventType /\ e.n = n
    <3>1. last[k] \in EventType /\ k \in Nat
      BY DEF AgentInv, AgentTyped, Runs
    <3>2. last[k].seq \in Nat
      BY <3>1 DEF EventType
    <3>3. n \in Nat
      BY <1>1
    <3> QED  BY <3>1, <3>2, <3>3 DEF Event, EventType, Streamed
  <2>3. Sent(Append(wire[k], e))
    <3> DEFINE ws == wire[k]
    <3>1. ws \in Seq(EventType) /\ Sent(ws)
      BY <1>1
    <3> HIDE DEF ws, e
    <3>2. /\ DOMAIN Append(ws, e) = 1..(Len(ws) + 1) /\ Append(ws, e)[Len(ws) + 1] = e
          /\ \A i \in 1..Len(ws) : Append(ws, e)[i] = ws[i]
          /\ DOMAIN ws = 1..Len(ws) /\ Len(ws) \in Nat
      BY <2>2, <3>1
    <3>3. \A i \in DOMAIN Append(ws, e) : i \in DOMAIN ws \/ i = Len(ws) + 1
      BY <3>2
    <3>4. \A i \in DOMAIN ws : Append(ws, e)[i] = ws[i]
      BY <3>2
    <3>5. \A i \in DOMAIN Append(ws, e) : Append(ws, e)[i].n \in 0..MaxProposals
      BY <2>2, <3>1, <3>2, <3>3, <3>4, Zenon DEF Sent
    <3> QED  BY <3>5, Zenon DEF Sent, ws
  <2>4. wire' = [wire EXCEPT ![k] = Append(wire[k], e)] /\ arms' = arms
    BY <1>9, <2>1 DEF Send
  <2> HIDE DEF e
  <2>5. \A j \in Runs : Sent(wire'[j])
    BY <1>1, <2>3, <2>4
  <2> QED  BY <1>1, <2>4, <2>5 DEF StepsBounded, Pane, Sent
<1>10. ASSUME NEW k \in Runs, ReadEvent(k) PROVE StepsBounded'
  <2> DEFINE ws == wire[k]
             e == Head(ws)
             m == proc[k]
  <2>1. /\ m \in Modes /\ ws # <<>> /\ arms' = [arms EXCEPT ![m] = OnEvent(arms[m], e)]
        /\ wire' = [wire EXCEPT ![k] = Tail(ws)]
    BY <1>10 DEF ReadEvent
  <2>2. ws \in Seq(EventType) /\ Sent(ws)
    BY <1>1
  <2> HIDE DEF ws, m
  <2>3. /\ Len(ws) \in Nat /\ Len(ws) >= 1 /\ DOMAIN ws = 1..Len(ws) /\ e = ws[1] /\ e \in EventType
        /\ DOMAIN Tail(ws) = 1..(Len(ws) - 1)
        /\ \A i \in 1..(Len(ws) - 1) : Tail(ws)[i] = ws[i + 1]
    <3>1. ws \in Seq(EventType) /\ ws # <<>>
      BY <2>1, <2>2
    <3> QED  BY <3>1
  <2>4. e.n \in 0..MaxProposals
    BY <2>2, <2>3 DEF Sent
  <2>5. Sent(Tail(ws))
    <3>1. \A i \in DOMAIN Tail(ws) : i + 1 \in DOMAIN ws /\ Tail(ws)[i] = ws[i + 1]
      BY <2>3
    <3> QED  BY <2>2, <3>1, Zenon DEF Sent
  <2>6. Pane(OnEvent(arms[m], e))
    BY <1>1, <1>5, <2>1, <2>3, <2>4
  <2>7. (\A j \in Modes : Pane(arms'[j])) /\ (\A j \in Runs : Sent(wire'[j]))
    BY <1>1, <2>1, <2>5, <2>6
  <2> QED  BY <2>7 DEF StepsBounded, Pane, Sent
<1>11. ASSUME NEW k \in Runs, Close(k) \/ Refused(k) \/ Aborted(k) PROVE StepsBounded'
  <2>1. proc[k] \in Modes /\ (ReturnArm(k, arms) \/ ReturnArm(k, Failed(arms, proc[k])))
    BY <1>11 DEF Close, Refused, Aborted
  <2>2. (\A m \in Modes : Pane(arms'[m])) /\ (\A j \in Runs : Sent(wire'[j]))
    <3>1. CASE ReturnArm(k, arms)
      BY <1>1, <1>7, <3>1
    <3>2. CASE ReturnArm(k, Failed(arms, proc[k]))
      <4>1. /\ Failed(arms, proc[k]) \in [Modes -> PaneType]
            /\ \A j \in Modes : Pane(Failed(arms, proc[k])[j])
        BY <1>1, <1>6, <2>1
      <4> QED  BY <1>7, <3>2, <4>1
    <3> QED  BY <2>1, <3>1, <3>2
  <2> QED  BY <2>2 DEF StepsBounded, Pane, Sent
<1>12. CASE UNCHANGED agentVars
  BY <1>12 DEF agentVars, StepsBounded
<1> QED  BY <1>8, <1>9, <1>10, <1>11, <1>12 DEF AgentNext

LEMMA StepsBegin == AgentInit => StepsBounded
<1> SUFFICES ASSUME AgentInit PROVE StepsBounded
  OBVIOUS
<1>1. \A m \in Modes : arms[m].running = FALSE /\ arms[m].steps = 0
  BY DEF AgentInit, Empty
<1>2. \A k \in Runs : wire[k] = <<>>
  BY DEF AgentInit
<1>3. MaxProposals \in Nat
  BY AgentAssumption
<1>4. 0 \in 0..MaxProposals
  BY <1>3
<1>5. \A m \in Modes : arms[m].running \in BOOLEAN /\ arms[m].steps \in 0..MaxProposals
  BY <1>1, <1>4, Zenon
<1>6. ASSUME NEW k \in Runs, NEW i \in DOMAIN wire[k]
      PROVE  wire[k][i].n \in 0..MaxProposals
  <2>1. DOMAIN wire[k] = {}
    BY <1>2
  <2> QED  BY <2>1
<1> QED  BY <1>5, <1>6, Zenon DEF StepsBounded

(* The panes, the wire and the runs have their types, whichever of them    *)
(* are aborted or cut (AgentTypes).                                        *)
THEOREM AgentsTyped == AgentSpec => []AgentTypes
<1>1. AgentInv /\ StepsBounded => AgentTypes
  <2> SUFFICES ASSUME AgentInv, StepsBounded PROVE AgentTypes
    OBVIOUS
  <2>1. /\ clicked \in 0..MaxRuns /\ aborted = 1..clicked - 1 /\ MaxRuns \in Nat
        /\ proc \in [Runs -> Modes \cup {"none", "end"}]
    BY AgentAssumption DEF AgentInv, AgentTyped
  <2>2. aborted \subseteq Runs
    BY <2>1 DEF Runs
  <2> QED  BY <2>1, <2>2 DEF AgentTypes, StepsBounded
<1> QED  BY <1>1, AgentStart, AgentStep, StepsBegin, StepsStep, PTL DEF AgentSpec

(* The evaluation.                                                         *)
Colours == {"idle", "allow", "deny", "unknown", "skip"}

LEMMA Shades ==
  ASSUME NEW s \in Scenarios, NEW i \in PanelParts
  PROVE  Shade(s, i) \in Colours
<1>1. SCENARIOS[s].verdict \in {"allow", "deny", "unknown"}
  BY ScenarioStops
<1> QED  BY <1>1 DEF Shade, Colours

LEMMA PanelTypesStep == PanelInv /\ PanelTypes /\ [PanelNext]_panelVars => PanelTypes'
<1> SUFFICES ASSUME PanelInv, PanelTypes, [PanelNext]_panelVars PROVE PanelTypes'
  OBVIOUS
<1>0. /\ active \in Scenarios /\ states \in [PanelParts -> Colours] /\ settled \in BOOLEAN
      /\ started \in BOOLEAN /\ reduced \in BOOLEAN /\ plays \in 0..MaxPlays
      /\ begins \subseteq {"now", "seen", "safety"} /\ MaxPlays \in Nat /\ 1 \in Scenarios
  BY PanelAssumption DEF PanelTypes, Colours, Scenarios, SCENARIOS
<1>1. ASSUME NEW s \in Scenarios, Run(s)
      PROVE  active' \in Scenarios /\ states' \in [PanelParts -> Colours] /\ settled' \in BOOLEAN
  BY <1>1 DEF Run, NoneDrawn, Colours
<1>2. ASSUME NEW s \in Scenarios, Play(s) PROVE PanelTypes'
  <2>1. plays' \in 0..MaxPlays
    BY <1>0, <1>2 DEF Play
  <2> QED  BY <1>0, <1>1, <1>2, <2>1 DEF Play, PanelTypes, Colours
<1>3. ASSUME NEW b \in {"now", "seen", "safety"}, BeginBy(b) PROVE PanelTypes'
  BY <1>0, <1>1, <1>3 DEF BeginBy, PanelTypes, Colours
<1>4. CASE ChangeMotion
  <2>1. plays' \in 0..MaxPlays
    BY <1>0, <1>4 DEF ChangeMotion
  <2>2. begins' \subseteq {"now", "seen", "safety"} /\ reduced' \in BOOLEAN
    BY <1>0, <1>4 DEF ChangeMotion
  <2>3. UNCHANGED <<active, states, settled, started>>
    BY <1>4 DEF ChangeMotion
  <2> QED  BY <1>0, <2>1, <2>2, <2>3 DEF PanelTypes, Colours
<1>5. ASSUME NEW t \in ticks, Tick(t) PROVE PanelTypes'
  <2>1. /\ t.scenario = active /\ t.next \in 1..Len(Bounds) + 1 /\ Len(Bounds) \in Nat
        /\ PanelParts = 1..Len(Bounds)
    BY PanelAssumption DEF PanelInv, PanelParts
  <2>2. UNCHANGED <<active, started, begins, reduced, plays>> /\ settled' \in BOOLEAN
    BY <1>0, <1>5 DEF Tick
  <2>3. states' \in [PanelParts -> Colours]
    <3>1. CASE t.next <= Len(Bounds)
      <4>1. t.next \in PanelParts
        BY <2>1, <3>1
      <4>2. states' = [states EXCEPT ![t.next] = Shade(active, t.next)]
        BY <1>5, <2>1, <3>1 DEF Tick
      <4>3. Shade(active, t.next) \in Colours
        BY <1>0, <4>1, Shades
      <4> QED  BY <1>0, <4>2, <4>3
    <3>2. CASE ~(t.next <= Len(Bounds))
      BY <1>0, <1>5, <3>2 DEF Tick
    <3> QED  BY <3>1, <3>2
  <2> QED  BY <1>0, <2>2, <2>3 DEF PanelTypes, Colours
<1>6. CASE UNCHANGED panelVars
  BY <1>0, <1>6 DEF panelVars, PanelTypes, Colours
<1> QED  BY <1>2, <1>3, <1>4, <1>5, <1>6 DEF PanelNext

(* The evaluation's state has its type whatever is played, or begins by    *)
(* itself (PanelTypes).                                                    *)
THEOREM PanelTyped == PanelSpec => []PanelTypes
<1>1. PanelInit => PanelTypes
  <2> SUFFICES ASSUME PanelInit PROVE PanelTypes
    OBVIOUS
  <2>1. active \in Scenarios /\ reduced \in BOOLEAN /\ settled \in BOOLEAN
        /\ started \in BOOLEAN
    BY PanelStart DEF PanelInit, PanelInv
  <2>2. states \in [PanelParts -> {"idle", "allow", "deny", "unknown", "skip"}]
    BY Zenon DEF PanelInit, NoneDrawn
  <2>3. plays \in 0..MaxPlays
    BY PanelAssumption DEF PanelInit
  <2>4. begins \subseteq {"now", "seen", "safety"}
    BY DEF PanelInit
  <2> QED  BY <2>1, <2>2, <2>3, <2>4 DEF PanelTypes
<1> QED  BY <1>1, PanelStart, PanelStep, PanelTypesStep, PTL DEF PanelSpec

(* The shop.                                                               *)
LEMMA TrimmedLength ==
  ASSUME NEW s \in Seq(ShopRow)
  PROVE  Len(Trim(s)) <= MaxRows
<1>1. MaxRows \in Nat /\ Len(s) \in Nat
  BY StoreAssumption
<1>2. CASE Len(s) > MaxRows
  <2>1. Trim(s) = SubSeq(s, Len(s) - MaxRows + 1, Len(s))
    BY <1>2 DEF Trim
  <2>2. Len(s) - MaxRows + 1 \in 1..(Len(s) + 1) /\ Len(s) \in 0..Len(s)
    BY <1>1, <1>2
  <2>3. Len(SubSeq(s, Len(s) - MaxRows + 1, Len(s)))
          = IF Len(s) - MaxRows + 1 <= Len(s) THEN Len(s) - (Len(s) - MaxRows + 1) + 1 ELSE 0
    BY <1>1, <1>2, <2>2, SubSeqProperties
  <2> QED  BY <1>1, <1>2, <2>1, <2>3
<1>3. CASE ~(Len(s) > MaxRows)
  BY <1>1, <1>3 DEF Trim
<1> QED  BY <1>2, <1>3

ShopBounds ==
  /\ Len(rows) <= MaxRows /\ Len(journal) <= MaxOrders /\ weeks \in 1..MaxWeeks
  /\ offline \in BOOLEAN /\ busy \in BOOLEAN /\ polled \in 0..MaxPolls
  /\ advance \in {"idle", "sent", "answered"}

LEMMA ShopBoundsStep == ShopInv /\ ShopBounds /\ [ShopNext]_storeVars => ShopBounds'
<1> SUFFICES ASSUME ShopInv, ShopBounds, [ShopNext]_storeVars PROVE ShopBounds'
  OBVIOUS
<1>0. /\ MaxRows \in Nat /\ MaxOrders \in Nat /\ MaxPolls \in Nat /\ MaxWeeks \in Nat \ {0}
      /\ journal \in Seq(ShopRow) /\ rows \in Seq(ShopRow) /\ weeks \in Nat /\ seq \in Nat
      /\ polled \in Nat
  BY StoreAssumption DEF ShopInv, ShopTyped
<1>1. CASE RecordOrder
  <2> DEFINE o == Order(seq + 1, weeks, Len(journal) + 1)
  <2>1. /\ Len(journal) < MaxOrders /\ journal' = Append(journal, o)
        /\ rows' = Trim(Append(rows, o))
        /\ UNCHANGED <<weeks, life, Page, polls, polled, advance>>
    BY <1>1 DEF RecordOrder
  <2>2. o \in ShopRow
    BY <1>0 DEF Order, ShopRow
  <2> HIDE DEF o
  <2>3. Append(rows, o) \in Seq(ShopRow) /\ Len(journal') = Len(journal) + 1 /\ Len(journal) \in Nat
    BY <1>0, <2>1, <2>2
  <2>4. Len(rows') <= MaxRows
    BY <2>1, <2>3, TrimmedLength
  <2> QED  BY <1>0, <2>1, <2>3, <2>4 DEF ShopBounds, Page
<1>2. CASE RestartStore
  <2>1. rows' = Trim(journal) /\ UNCHANGED <<journal, weeks, Page, polled, advance>>
    BY <1>2 DEF RestartStore, LoadOrders
  <2>2. Len(rows') <= MaxRows
    BY <1>0, <2>1, TrimmedLength
  <2> QED  BY <2>1, <2>2 DEF ShopBounds, Page
<1>3. CASE AdvanceWeek
  <2>1. /\ weeks' = weeks \/ (weeks < MaxWeeks /\ weeks' = weeks + 1)
        /\ advance' = "answered" /\ UNCHANGED <<journal, rows, seq, life, Page, polls, polled>>
    BY <1>3 DEF AdvanceWeek
  <2>2. weeks' \in 1..MaxWeeks
    BY <1>0, <2>1 DEF ShopBounds
  <2> QED  BY <2>1, <2>2 DEF ShopBounds, Page
<1>4. ASSUME NEW p \in polls, ServeTag(p) \/ ServeRows(p) PROVE ShopBounds'
  BY <1>4 DEF ServeTag, ServeRows, ShopBounds, Page, Store
<1>5. ASSUME NEW p \in polls, LosePoll(p) \/ Polled(p) PROVE ShopBounds'
  <2>1. offline' \in BOOLEAN /\ UNCHANGED <<Store, busy, polled, advance>>
    BY <1>5 DEF LosePoll, Polled, ShopBounds
  <2> QED  BY <2>1 DEF ShopBounds, Store
<1>6. CASE Poll
  <2>1. polled' \in 0..MaxPolls
    BY <1>0, <1>6 DEF Poll
  <2> QED  BY <1>6, <2>1 DEF Poll, ShopBounds, Page, Store
<1>7. CASE Advance \/ NoToken
  BY <1>7 DEF Advance, NoToken, ShopBounds, Store
<1>8. CASE Advanced
  <2>1. polled' \in 0..MaxPolls
    BY <1>0, <1>8 DEF Advanced
  <2> QED  BY <1>8, <2>1 DEF Advanced, ShopBounds, Store
<1>9. CASE UNCHANGED storeVars
  BY <1>9 DEF storeVars, ShopBounds
<1> QED  BY <1>1, <1>2, <1>3, <1>4, <1>5, <1>6, <1>7, <1>8, <1>9 DEF ShopNext

(* The store and the page have their types: the store never holds more     *)
(* rows than it keeps (ShopTypes).                                         *)
THEOREM ShopTypesHold == ShopSpec => []ShopTypes
<1>1. ShopInit => ShopBounds
  <2> SUFFICES ASSUME ShopInit PROVE ShopBounds
    OBVIOUS
  <2>1. MaxRows \in Nat /\ MaxOrders \in Nat /\ MaxPolls \in Nat /\ MaxWeeks \in Nat \ {0}
    BY StoreAssumption
  <2>2. rows = <<>> /\ journal = <<>> /\ weeks = 1 /\ polled = 0
    BY DEF ShopInit
  <2>3. Len(rows) = 0 /\ Len(journal) = 0
    BY <2>2
  <2>4. Len(rows) <= MaxRows /\ Len(journal) <= MaxOrders
    BY <2>1, <2>3
  <2>5. weeks \in 1..MaxWeeks /\ polled \in 0..MaxPolls
    BY <2>1, <2>2
  <2>6. offline \in BOOLEAN /\ busy \in BOOLEAN /\ advance \in {"idle", "sent", "answered"}
    BY DEF ShopInit
  <2> QED  BY <2>4, <2>5, <2>6 DEF ShopBounds
<1>2. ShopInv /\ ShopBounds => ShopTypes
  <2> SUFFICES ASSUME ShopInv, ShopBounds PROVE ShopTypes
    OBVIOUS
  <2>1. seq = Len(journal) /\ seq \in Nat /\ MaxOrders \in Nat
    BY StoreAssumption DEF ShopInv, ShopTyped, JournalInv
  <2>2. seq \in 0..MaxOrders
    BY <2>1 DEF ShopBounds
  <2> QED  BY <2>2 DEF ShopBounds, ShopTypes
<1> QED  BY <1>1, <1>2, ShopStart, ShopStep, ShopBoundsStep, PTL DEF ShopSpec

-----------------------------------------------------------------------------
(* All the pages.  A step of one of them leaves the others' state alone.   *)
LEMMA EachPageSteps ==
  [WebNext]_webVars =>
    /\ [ConsoleNext]_consoleVars /\ [Next]_vars /\ [AgentNext]_agentVars
    /\ [PanelNext]_panelVars /\ [ShopNext]_storeVars /\ [ReceiptNext]_receiptVars
    /\ [StudioNext]_studioVars
<1>0. auditVars = vars /\ auditVars' = vars'
  BY DEF auditVars, vars
<1>1. CASE UNCHANGED webVars
  BY <1>0, <1>1 DEF webVars
<1>2. CASE WebNext
  BY <1>0, <1>2 DEF WebNext
<1> QED  BY <1>1, <1>2

LEMMA EachPageBegins ==
  WebInit => /\ ConsoleInit /\ Init /\ AgentInit /\ PanelInit /\ ShopInit /\ ReceiptInit
             /\ StudioInit
BY DEF WebInit

LEMMA PagesAlone ==
  WebSpec => /\ ConsoleMoves
             /\ Spec /\ AgentSpec /\ PanelSpec /\ ShopSpec /\ ReceiptSpec /\ StudioSpec
BY EachPageBegins, EachPageSteps, PTL
   DEF WebSpec, ConsoleMoves, Spec, AgentSpec, PanelSpec, ShopSpec, ReceiptSpec, StudioSpec

(* Whatever a page does, in its bounds, the state it keeps has its type:   *)
(* what the run of the web console checks first.                           *)
THEOREM PagesTyped == WebSpec => []WebTyped
<1>1. /\ ConsoleTypes /\ TypeOK /\ AgentTypes /\ PanelTypes /\ ShopTypes /\ ReceiptTypes
      /\ StudioTypes
      => WebTyped
  BY DEF WebTyped
<1> QED
  BY PagesAlone, <1>1, ConsoleTyped, AuditTypes, AgentsTyped, PanelTyped, ShopTypesHold,
     ReceiptsTyped, StudioTyped, PTL

(* Every other invariant of that run, for any sizes, with the bounds of    *)
(* the policy the home page measures its scenarios against.                *)
THEOREM PagesSafe ==
  ASSUME Bounds = Policy
  PROVE  WebSpec => []( /\ ScreenIsTrue /\ SerialHolds /\ RecordKept
                        /\ PaneIsOneRun /\ VerdictIsItsOwn /\ HistoryIsSound
                        /\ ChecksAreEarned /\ SoundOfThePicture )
<1>1. PanelSpec => []VerdictIsItsOwn
  BY VerdictOfScenario
<1> QED
  BY PagesAlone, ScreenTrue, ChainHolds, ReturnedKept, OneRunPerPane, <1>1,
     HistoryKeeps, ReceiptsAreEarned, SoundFits, PTL
=============================================================================
