----------------------------- MODULE AuditChain -----------------------------
(***************************************************************************)
(* The audit log of one session (gateway/audit.py): a file of records each *)
(* of which carries its position and the hash of the record before it, and *)
(* a list of the same records in memory, built from the file on first use. *)
(*                                                                         *)
(* propose appends after it has released _eval_lock, and append takes no   *)
(* lock of its own: the event loop's handler and the session's agent run   *)
(* append to one AuditLog at once.                                         *)
(*                                                                         *)
(* A record is [seq, prev, id]: its hash covers all three and is           *)
(* represented by the id, which no two records share.  The file survives a *)
(* restart; what is in memory does not.                                    *)
(***************************************************************************)
EXTENDS Integers, Sequences, FiniteSets

CONSTANTS
  Threads,      \* threads that append
  Nobody,       \* the list in memory has not been built
  MaxRecords,   \* bound on the number of records
  MaxRestarts   \* bound on the number of restarts

ASSUME AuditChainAssumption ==
  Nobody \notin Threads /\ MaxRecords \in Nat /\ MaxRestarts \in Nat

VARIABLES
  file,      \* the records in the file
  lists,     \* lists[t]: the list thread t built from the file
  cached,    \* whose list _cached_records is
  op,        \* op[t]: the append thread t is executing
  returned,  \* ids of the records append has returned
  next,      \* the next id
  crossed,   \* an append has begun while another was under way
  restarts   \* restarts so far

vars == <<file, lists, cached, op, returned, next, crossed, restarts>>

Genesis == 0

Free == [pc |-> "idle", list |-> Nobody, rec |-> [seq |-> 0, prev |-> 0, id |-> 0]]

Init ==
  /\ file = <<>>
  /\ lists = [t \in Threads |-> <<>>]
  /\ cached = Nobody
  /\ op = [t \in Threads |-> Free]
  /\ returned = {}
  /\ next = 1
  /\ crossed = FALSE
  /\ restarts = 0

(* What records() returns, and verify_chain of it.                         *)
Records == IF cached = Nobody THEN file ELSE lists[cached]

Intact(s) ==
  \A k \in DOMAIN s :
    /\ s[k].seq = k
    /\ s[k].prev = IF k = 1 THEN Genesis ELSE s[k - 1].id

Crosses(t) == \E u \in Threads \ {t} : op[u].pc # "idle"

(* _load_cache, for append or for a reader, when there is no list yet: the *)
(* file is read ...                                                        *)
Load(t) ==
  /\ op[t].pc = "idle" /\ cached = Nobody
  /\ lists' = [lists EXCEPT ![t] = file]
  /\ op' = [op EXCEPT ![t].pc = "loaded"]
  /\ crossed' = (crossed \/ Crosses(t))
  /\ UNCHANGED <<file, cached, returned, next, restarts>>

(* ... and the list becomes the cache, in place of one another thread has  *)
(* put there meanwhile.                                                    *)
Cache(t) ==
  /\ op[t].pc = "loaded"
  /\ cached' = t
  /\ op' = [op EXCEPT ![t] = Free]
  /\ UNCHANGED <<file, lists, returned, next, crossed, restarts>>

(* Mutant: the position is counted from the wrong end of the list.         *)
Number_BeforeLast(s) == Len(s) - 1

(* seq = len(existing) + 1                                                 *)
Number(s) == Len(s) + 1

(* append numbers its record and links it to the last one of the list.     *)
Link(t) ==
  /\ op[t].pc = "idle" /\ cached # Nobody
  /\ next <= MaxRecords
  /\ next' = next + 1
  /\ LET s == lists[cached]
         prev == IF s = <<>> THEN Genesis ELSE s[Len(s)].id
     IN  op' = [op EXCEPT ![t] = [pc |-> "linked", list |-> cached,
                  rec |-> [seq |-> Number(s), prev |-> prev, id |-> next]]]
  /\ crossed' = (crossed \/ Crosses(t))
  /\ UNCHANGED <<file, lists, cached, returned, restarts>>

(* Mutant: the file is written again with the new record alone.            *)
Write_Truncates(t) ==
  /\ op[t].pc = "linked"
  /\ file' = <<op[t].rec>>
  /\ op' = [op EXCEPT ![t].pc = "written"]
  /\ UNCHANGED <<lists, cached, returned, next, crossed, restarts>>

(* The record is appended to the file.                                     *)
Write(t) ==
  /\ op[t].pc = "linked"
  /\ file' = Append(file, op[t].rec)
  /\ op' = [op EXCEPT ![t].pc = "written"]
  /\ UNCHANGED <<lists, cached, returned, next, crossed, restarts>>

(* Mutant: the list in memory is not told.                                 *)
Return_NotCached(t) ==
  /\ op[t].pc = "written"
  /\ returned' = returned \cup {op[t].rec.id}
  /\ op' = [op EXCEPT ![t] = Free]
  /\ UNCHANGED <<file, lists, cached, next, crossed, restarts>>

(* The record is appended to the list the call began with, and returned.   *)
Return(t) ==
  /\ op[t].pc = "written"
  /\ lists' = [lists EXCEPT ![op[t].list] = Append(@, op[t].rec)]
  /\ returned' = returned \cup {op[t].rec.id}
  /\ op' = [op EXCEPT ![t] = Free]
  /\ UNCHANGED <<file, cached, next, crossed, restarts>>

(* The process dies; a new AuditLog is built on the same file.             *)
Restart ==
  /\ restarts < MaxRestarts
  /\ restarts' = restarts + 1
  /\ lists' = [t \in Threads |-> <<>>]
  /\ cached' = Nobody
  /\ op' = [t \in Threads |-> Free]
  /\ UNCHANGED <<file, returned, next, crossed>>

Next ==
  \/ \E t \in Threads : Load(t) \/ Cache(t) \/ Link(t) \/ Write(t) \/ Return(t)
  \/ Restart

Spec == Init /\ [][Next]_vars
-----------------------------------------------------------------------------
Record == [seq : Nat, prev : Nat, id : Nat]

TypeOK ==
  /\ file \in Seq(Record)
  /\ lists \in [Threads -> Seq(Record)]
  /\ cached \in Threads \cup {Nobody}
  /\ op \in [Threads -> [pc : {"idle", "loaded", "linked", "written"},
                         list : Threads \cup {Nobody}, rec : Record]]
  /\ returned \subseteq Nat /\ next \in Nat /\ restarts \in Nat
  /\ crossed \in BOOLEAN

(* verify_chain holds of the chain on disk and of the chain that is served. *)
ChainIntact == Intact(file) /\ Intact(Records)

(* Until two appends have overlapped, both chains verify, also when the    *)
(* process died between the write and the update of the list.              *)
SerialIntact == ~crossed => ChainIntact

Ids(s) == {s[k].id : k \in DOMAIN s}

(* A record that append returned is in the file for good, however many     *)
(* threads append.                                                         *)
RecordKept == returned \subseteq Ids(file)

(* Until two appends have overlapped, a record that append returned is     *)
(* served: /v1/audit lists it.                                             *)
RecordServed == ~crossed => returned \subseteq Ids(Records)

(* The two promises the code keeps for appends that do not overlap.        *)
SerialHolds == SerialIntact /\ RecordServed
=============================================================================
