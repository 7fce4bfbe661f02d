----------------------------- MODULE MerkleLog ------------------------------
(***************************************************************************)
(* What the proofs of a log are for: somebody keeps a head, the log goes   *)
(* on growing, or what is stored of it is changed behind its back, and     *)
(* later the verifier is asked about it (gateway/audit.py, gateway/merkle  *)
(* .py).  The log's own handlers prove honestly what is stored by then.    *)
(***************************************************************************)
EXTENDS Merkle

CONSTANTS
  MaxLeaves,    \* bound: records written
  MaxChanges    \* bound: changes to what was written

VARIABLES
  leaves,       \* leaf_hashes(): the record hashes as stored
  kept,         \* the leaves under the head that somebody keeps
  hashes,       \* how many hashes exist; each record has one of its own
  changes

logVars == <<leaves, kept, hashes, changes>>

LogInit == leaves = <<>> /\ kept = <<>> /\ hashes = 0 /\ changes = 0

AppendLeaf ==
  /\ hashes < MaxLeaves /\ hashes' = hashes + 1
  /\ leaves' = Append(leaves, hashes + 1)
  /\ UNCHANGED <<kept, changes>>

\* get_merkle_root, and its size, are written down.
KeepHead == leaves # <<>> /\ kept' = leaves /\ UNCHANGED <<leaves, hashes, changes>>

AlterLeaf(j) ==
  /\ hashes < MaxLeaves /\ hashes' = hashes + 1
  /\ leaves' = [leaves EXCEPT ![j] = hashes + 1]

DropLeaf(j) ==
  /\ leaves' = [i \in 1..(Len(leaves) - 1) |-> leaves[IF i < j THEN i ELSE i + 1]]
  /\ UNCHANGED hashes

SwapLeaves(j) ==
  /\ j < Len(leaves)
  /\ leaves' = [leaves EXCEPT ![j] = leaves[j + 1], ![j + 1] = leaves[j]]
  /\ UNCHANGED hashes

LogNext ==
  \/ AppendLeaf
  \/ KeepHead
  \/ /\ changes < MaxChanges /\ changes' = changes + 1
     /\ \E j \in DOMAIN leaves : AlterLeaf(j) \/ DropLeaf(j) \/ SwapLeaves(j)
     /\ UNCHANGED kept

LogSpec == LogInit /\ [][LogNext]_logVars
-----------------------------------------------------------------------------
\* The verifier walks the bits of an index, the prover recurses over halves:
\* at every size they agree, on the leaf that is there and on no other.
ProofsAgree ==
  \A i, j \in DOMAIN leaves :
    VerifyInclusionProof(leaves[j], i - 1, Len(leaves), InclusionProof(i - 1, leaves),
                         TreeHash(leaves)) <=> i = j

\* `Only a consistency proof says the log did not drop or reorder anything since
\* a head someone already holds': it is accepted exactly when it should be.
RewriteIsSeen ==
  kept # <<>> /\ Len(kept) <= Len(leaves) =>
    (VerifyConsistencyProof(Len(kept), Len(leaves), TreeHash(kept), TreeHash(leaves),
       ConsistencyProof(Len(kept), Len(leaves), leaves))
     <=> First(leaves, Len(kept)) = kept)

ProofsDecide == ProofsAgree /\ RewriteIsSeen
=============================================================================
