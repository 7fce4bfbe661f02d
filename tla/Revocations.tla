---------------------------- MODULE Revocations ----------------------------
(***************************************************************************)
(* The revocation list (gateway/revocation.py): an append-only file shared *)
(* by the service and the `mandate revoke` command, read by the service    *)
(* through a cache that is reloaded when the modification time of the file *)
(* is later than the one it remembers.                                     *)
(*                                                                         *)
(* The service's threads take the list's lock, so the service is one actor *)
(* here.  The command is another process: its write falls between any two  *)
(* steps of the service.                                                   *)
(***************************************************************************)
EXTENDS Naturals

CONSTANTS
  Targets,   \* jtis and mandate ids
  NoTarget,  \* no operation under way
  MaxTime    \* bound on the clock

ASSUME RevocationsAssumption == NoTarget \notin Targets /\ MaxTime \in Nat

VARIABLES
  file,    \* targets in the file
  mtime,   \* modification time of the file, 0 before it exists
  clock,   \* the file system's clock
  cache,   \* _cache
  last,    \* _last_mtime
  op,      \* the operation the service has under its lock
  writers, \* "service", "command": who has written the file
  tied     \* a write got the modification time the file already had

written == <<file, mtime, clock, writers, tied>>
vars == <<written, cache, last, op>>

Free == [pc |-> "idle", target |-> NoTarget, seen |-> 0, due |-> FALSE,
         answer |-> FALSE]

Init ==
  /\ file = {} /\ mtime = 0 /\ clock = 1
  /\ cache = {} /\ last = 0
  /\ op = Free
  /\ writers = {} /\ tied = FALSE

(* An append of a process to the file, which takes the time of the clock;  *)
(* the clock may stand still between two writes.                           *)
AppendTarget(x, writer) ==
  /\ mtime' = clock
  /\ file' = file \cup {x}
  /\ writers' = writers \cup {writer}
  /\ tied' = (tied \/ mtime = clock)
  /\ UNCHANGED clock

(* The clock moves on.                                                     *)
Tick ==
  /\ clock < MaxTime
  /\ clock' = clock + 1
  /\ UNCHANGED <<file, mtime, writers, tied, cache, last, op>>

(* `mandate revoke x`, in its own process.                                 *)
CommandRevoke(x) ==
  /\ AppendTarget(x, "command")
  /\ UNCHANGED <<cache, last, op>>

(* Mutant: a check that has read the file once does not look again.        *)
Stat_Once(x) ==
  /\ op.pc = "idle"
  /\ op' = [pc |-> IF last = 0 /\ mtime > last THEN "read" ELSE "answer",
            target |-> x, seen |-> mtime, due |-> x \in file,
            answer |-> x \in cache]
  /\ UNCHANGED <<written, cache, last>>

(* is_revoked looks at the modification time and answers from the cache    *)
(* unless it is later than the one remembered.                             *)
Stat(x) ==
  /\ op.pc = "idle"
  /\ op' = [pc |-> IF mtime > last THEN "read" ELSE "answer",
            target |-> x, seen |-> mtime, due |-> x \in file,
            answer |-> x \in cache]
  /\ UNCHANGED <<written, cache, last>>

(* The file is read; what is remembered is the time seen before.           *)
Read ==
  /\ op.pc = "read"
  /\ cache' = file
  /\ last' = op.seen
  /\ op' = [op EXCEPT !.pc = "answer", !.answer = op.target \in file]
  /\ UNCHANGED written

(* is_revoked returns.                                                     *)
Answer ==
  /\ op.pc = "answer"
  /\ op' = Free
  /\ UNCHANGED <<written, cache, last>>

(* revoke appends to the file and to the cache ...                         *)
Revoke(x) ==
  /\ op.pc = "idle"
  /\ AppendTarget(x, "service")
  /\ cache' = cache \cup {x}
  /\ op' = [Free EXCEPT !.pc = "restat", !.target = x]
  /\ UNCHANGED last

(* ... and remembers the modification time the file has now.               *)
Restat ==
  /\ op.pc = "restat"
  /\ last' = mtime
  /\ op' = Free
  /\ UNCHANGED <<written, cache>>

Next ==
  \/ Tick
  \/ \E x \in Targets : CommandRevoke(x) \/ Stat(x) \/ Revoke(x)
  \/ Read \/ Answer \/ Restat

Spec == Init /\ [][Next]_vars
-----------------------------------------------------------------------------
TypeOK ==
  /\ file \subseteq Targets /\ cache \subseteq Targets
  /\ mtime \in Nat /\ clock \in Nat /\ last \in Nat
  /\ op \in [pc : {"idle", "read", "answer", "restat"},
             target : Targets \cup {NoTarget}, seen : Nat,
             due : BOOLEAN, answer : BOOLEAN]
  /\ writers \subseteq {"service", "command"} /\ tied \in BOOLEAN

(* The list is consulted on every call: a target that was in the file when *)
(* is_revoked was called is answered as revoked.                           *)
RevocationSeen == op.pc = "answer" => (op.due => op.answer)

(* Nobody but the service has written the file, or nobody but the command, *)
(* and each of its writes got a modification time of its own.              *)
SoleWriter ==
  writers \subseteq {"service"} \/ (writers \subseteq {"command"} /\ ~tied)

(* What of RevocationSeen the modification times can give: it holds for as *)
(* long as the file has one writer.                                        *)
SoleWriterSeen == SoleWriter => RevocationSeen

(* A revocation the service has learnt of is never forgotten.              *)
NothingForgotten == [][cache \subseteq cache']_vars
=============================================================================
