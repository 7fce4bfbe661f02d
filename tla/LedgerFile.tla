----------------------------- MODULE LedgerFile ----------------------------
(***************************************************************************)
(* The file under the idempotency ledger (gateway/idem.py).  Every change  *)
(* of an entry appends a line; whoever reads takes the last readable line  *)
(* of a key, and a line that is not JSON is skipped.  Nothing is kept in   *)
(* memory between two calls, so a restart loses nothing.                   *)
(*                                                                         *)
(* A write can be cut short: the disk is full or the process dies, and the *)
(* call does not return.  What is then on disk is a part of the text, or   *)
(* all of it but the end of the line; either way the next append continues *)
(* that line.  Gateway and Sessions take an append for whole; this module  *)
(* says what becomes of a ledger when one is not.                          *)
(***************************************************************************)
EXTENDS Integers, FiniteSets, Sequences

CONSTANTS
  Keys,       \* idempotency keys
  MaxLines,   \* bound on the lines of the file
  MaxTears    \* bound on the writes cut short

ASSUME FileAssumption ==
  IsFiniteSet(Keys) /\ MaxLines \in Nat /\ MaxTears \in Nat

VARIABLES
  lines,      \* the file
  open,       \* its last line has no end
  returned,   \* returned[k]: the state of the last write of k that returned
  again,      \* keys were reserved again this many times
  tears       \* writes cut short so far

fileVars == <<lines, open, returned, again, tears>>

States == {"PENDING", "COMMITTED", "FAILED"}

Line == [key : Keys, state : States]

(* A line json.loads refuses: part of an entry, or two in one line.        *)
Torn == [key |-> "", state |-> ""]

FileInit ==
  /\ lines = <<>> /\ open = FALSE
  /\ returned = [k \in Keys |-> "none"]
  /\ again = 0 /\ tears = 0

-----------------------------------------------------------------------------
(* Mutant: reading ends at the first line that is not JSON.                *)
Readable_UpToTorn ==
  {n \in DOMAIN lines : \A m \in 1 .. n : lines[m] # Torn}

(* The lines _entries does not skip.                                       *)
Readable == {n \in DOMAIN lines : lines[n] # Torn}

(* _entries: of the lines of a key the last one wins.                      *)
Entry(k) ==
  LET of == {n \in Readable : lines[n].key = k}
  IN  IF of = {} THEN "none"
      ELSE lines[CHOOSE n \in of : \A m \in of : m <= n].state

(* _write, which may be cut short: `part' of the text reaches the file, or *)
(* it is `unended'.  Text after an open line belongs to that line.         *)
Write(k, s, how) ==
  LET before == IF open THEN SubSeq(lines, 1, Len(lines) - 1) ELSE lines
      line == IF open \/ how = "part" THEN Torn ELSE [key |-> k, state |-> s]
  IN  /\ Len(lines) < MaxLines
      /\ how # "whole" => tears < MaxTears
      /\ lines' = Append(before, line)
      /\ open' = (how # "whole")
      /\ tears' = IF how = "whole" THEN tears ELSE tears + 1
      /\ returned' = IF how = "whole" THEN [returned EXCEPT ![k] = s] ELSE returned

(* propose reserves an intent the ledger does not know: open_pending.      *)
OpenPending(k, how) ==
  /\ Entry(k) = "none"
  /\ Write(k, "PENDING", how)
  /\ again' = IF how = "whole" /\ returned[k] # "none" THEN again + 1 ELSE again

(* _transition; an entry that is not there is a KeyError.                  *)
Transition(k, s, how) ==
  /\ Entry(k) # "none"
  /\ Write(k, s, how)
  /\ UNCHANGED again

FileNext ==
  \E k \in Keys, how \in {"whole", "unended", "part"} :
    \/ OpenPending(k, how)
    \/ \E s \in {"COMMITTED", "FAILED"} : Transition(k, s, how)

FileSpec == FileInit /\ [][FileNext]_fileVars
-----------------------------------------------------------------------------
FileTypes ==
  /\ lines \in Seq(Line \cup {Torn}) /\ open \in BOOLEAN
  /\ returned \in [Keys -> States \cup {"none"}]
  /\ again \in Nat /\ tears \in 0 .. MaxTears

(* A write cut short costs one entry and no more (idem.py:48): the keys    *)
(* whose entry is not the one last returned are at most as many as the     *)
(* writes cut short, and so are the reservations made of an intent that    *)
(* had one already.                                                        *)
TearsAreLocal ==
  /\ Cardinality({k \in Keys : Entry(k) # returned[k]}) <= tears
  /\ again <= tears

(* Does not hold: the write after one cut short returns, and its entry is  *)
(* part of a line nobody can read.                                         *)
ReturnedIsRead == \A k \in Keys : returned[k] # "none" => Entry(k) # "none"
=============================================================================
