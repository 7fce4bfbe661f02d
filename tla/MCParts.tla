------------------------------ MODULE MCParts -------------------------------
(***************************************************************************)
(* Small parts for TLC that share no state: the revocation list, the human *)
(* approvals, the daily call budget, the sandbox tab with its held order,  *)
(* the proofs of the audit log, the page of a recorded run, the ledger's   *)
(* file, the capture of payments and the pricing of baskets.  `world' says *)
(* which of them moves; the others stay as they began.                     *)
(***************************************************************************)
EXTENDS Revocations, Capture, Approvals, CallBudget, LedgerFile, HeldOrder, RunRecord,
        MerkleLog, MCProposals

VARIABLE world

partsVars == <<world, vars, approvalVars, budgetVars, heldVars, logVars, log, fileVars,
               captureVars, basketVars>>

FirstSite == [policy |-> CHOOSE p \in Policies : TRUE, resolver |-> TRUE]

PartsInit ==
  /\ world \in {"list", "approvals", "budget", "held", "log", "page", "file", "capture",
                "baskets"}
  /\ Init /\ ApprovalInit /\ BudgetInit /\ HeldInit /\ LogInit /\ RecordInit
  /\ FileInit /\ CaptureInit /\ BasketInit
  /\ world # "baskets" => site = FirstSite     \* the others do not read it

PartsNext ==
  \/ /\ world = "list" /\ Next
     /\ UNCHANGED <<world, approvalVars, budgetVars, heldVars, logVars, log, fileVars,
                    captureVars, basketVars>>
  \/ /\ world = "approvals" /\ ApprovalNext
     /\ UNCHANGED <<world, vars, budgetVars, heldVars, logVars, log, fileVars,
                    captureVars, basketVars>>
  \/ /\ world = "budget" /\ BudgetNext
     /\ UNCHANGED <<world, vars, approvalVars, heldVars, logVars, log, fileVars,
                    captureVars, basketVars>>
  \/ /\ world = "held" /\ HeldNext
     /\ UNCHANGED <<world, vars, approvalVars, budgetVars, logVars, log, fileVars,
                    captureVars, basketVars>>
  \/ /\ world = "log" /\ LogNext
     /\ UNCHANGED <<world, vars, approvalVars, budgetVars, heldVars, log, fileVars,
                    captureVars, basketVars>>
  \/ /\ world = "page" /\ RecordNext
     /\ UNCHANGED <<world, vars, approvalVars, budgetVars, heldVars, logVars, fileVars,
                    captureVars, basketVars>>
  \/ /\ world = "file" /\ FileNext
     /\ UNCHANGED <<world, vars, approvalVars, budgetVars, heldVars, logVars, log,
                    captureVars, basketVars>>
  \/ /\ world = "capture" /\ CaptureNext
     /\ UNCHANGED <<world, vars, approvalVars, budgetVars, heldVars, logVars, log, fileVars,
                    basketVars>>
  \/ /\ world = "baskets" /\ BasketNext
     /\ UNCHANGED <<world, vars, approvalVars, budgetVars, heldVars, logVars, log, fileVars,
                    captureVars>>

PartsSpec == PartsInit /\ [][PartsNext]_partsVars /\ HeldFairness
=============================================================================
