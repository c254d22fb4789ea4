--------------------------- MODULE ControlledLive ---------------------------
(***************************************************************************)
(* The durable records behind every Mainnet entry of the bot and the       *)
(* database transactions of ControlledLiveRepository                       *)
(* (src/app/trading/controlled_live.py) that change them.                  *)
(*                                                                         *)
(* One proposal record, one execution-ledger row and one deterministic     *)
(* client order id belong together (client_order_id is unique per account, *)
(* src/app/db.py), so all three are indexed by the proposal.               *)
(*                                                                         *)
(* The session reads its rows first and commits changed columns later,     *)
(* without a row lock.  A transaction whose write depends on what it read  *)
(* therefore has two parts here, <Name>Readable (the checks on the rows    *)
(* as read) and <Name>Commit (the columns written): other processes may    *)
(* commit in between.  A transaction that writes constants is one step.    *)
(***************************************************************************)
EXTENDS ProposalIds

VARIABLES
    status,             \* ControlledLiveProposalRecord.status
    approval,           \* age of ControlledLiveProposalRecord.approved_at
    fillRecorded,       \* exchange_order_id/position_id stored by mark_filled
    ledger,             \* ExecutionOrderRecord.status, "NONE" = no row
    killSwitch,         \* ControlledLiveStateRecord.kill_switch_active
    inProgress,         \* ControlledLiveStateRecord.first_order_in_progress
    executed,           \* ControlledLiveStateRecord.first_order_executed
    automatic           \* ControlledLiveStateRecord.automatic_execution_enabled

recordVars == <<status, approval, fillRecorded, ledger>>
flagVars   == <<inProgress, executed, automatic>>
repoVars   == <<status, approval, fillRecorded, ledger, killSwitch, inProgress,
                executed, automatic>>

ProposalStatus ==
    {"NONE", "PREVIEWED", "APPROVED", "CANCELLED", "SUBMITTING",
     "FILLED_UNPROTECTED", "PROTECTED", "EMERGENCY_CLOSED", "UNKNOWN", "REJECTED"}

LedgerStatus ==
    {"NONE", "PENDING", "SUBMITTED", "FILLED_PROTECTED", "EMERGENCY_CLOSED",
     "UNKNOWN", "REJECTED"}

\* approved_at: absent, at most APPROVAL_TTL old, or older.
ApprovalAge == {"ABSENT", "FRESH", "EXPIRED"}

\* The ledger rows unresolved_execution_attempts counts.
UnresolvedStatus == {"PENDING", "SUBMITTED", "UNKNOWN"}

Unresolved(p) == ledger[p] \in UnresolvedStatus

RepoTypeOK ==
    /\ status       \in [Proposals -> ProposalStatus]
    /\ approval     \in [Proposals -> ApprovalAge]
    /\ fillRecorded \in [Proposals -> BOOLEAN]
    /\ ledger       \in [Proposals -> LedgerStatus]
    /\ killSwitch \in BOOLEAN
    /\ inProgress \in BOOLEAN
    /\ executed   \in BOOLEAN
    /\ automatic  \in BOOLEAN

\* Empty tables and the row state() inserts on first use.
RepoInit ==
    /\ status       = [p \in Proposals |-> "NONE"]
    /\ approval     = [p \in Proposals |-> "ABSENT"]
    /\ fillRecorded = [p \in Proposals |-> FALSE]
    /\ ledger       = [p \in Proposals |-> "NONE"]
    /\ killSwitch = FALSE
    /\ inProgress = FALSE
    /\ executed   = FALSE
    /\ automatic  = FALSE

(***************************************************************************)
(* Proposal records                                                        *)
(***************************************************************************)

\* The safety-state conditions shared by save_ready and claim_submission: no
\* claimed order is open, and after the first order nothing runs until the
\* automatic mode has been validated.
EntryLockFree == ~inProgress /\ (executed => automatic)

SaveReadable == EntryLockFree /\ ~killSwitch

\* The proposal row save_ready inserts: pre-approved in automatic mode.  Its
\* proposal id is unique.
InsertProposal(p, auto) ==
    /\ status[p] = "NONE"
    /\ status'   = [status EXCEPT ![p] = IF auto THEN "APPROVED" ELSE "PREVIEWED"]
    /\ approval' = [approval EXCEPT ![p] = IF auto THEN "FRESH" ELSE "ABSENT"]
    /\ UNCHANGED <<fillRecorded, ledger, killSwitch, flagVars>>

ApproveReadable(p) == status[p] = "PREVIEWED"

ApproveCommit(p) ==
    /\ status'   = [status EXCEPT ![p] = "APPROVED"]
    /\ approval' = [approval EXCEPT ![p] = "FRESH"]
    /\ UNCHANGED <<fillRecorded, ledger, killSwitch, flagVars>>

CancelReadable(p) == status[p] \in {"PREVIEWED", "APPROVED"}

CancelCommit(p) ==
    /\ status' = [status EXCEPT ![p] = "CANCELLED"]
    /\ UNCHANGED <<approval, fillRecorded, ledger, killSwitch, flagVars>>

\* Ten minutes pass after approved_at.
ApprovalExpires(p) ==
    /\ approval[p] = "FRESH"
    /\ approval' = [approval EXCEPT ![p] = "EXPIRED"]
    /\ UNCHANGED <<status, fillRecorded, ledger, killSwitch, flagVars>>

(***************************************************************************)
(* The submission claim: proposal, ledger row and lock in one commit       *)
(***************************************************************************)

ClaimReadable(p) ==
    /\ EntryLockFree
    /\ status[p] = "APPROVED"
    /\ ~killSwitch

\* Mutant: the ledger row carries no unique client order id.
ClaimWithoutUniqueKey(p) ==
    /\ status'     = [status EXCEPT ![p] = "SUBMITTING"]
    /\ ledger'     = [ledger EXCEPT ![p] = "PENDING"]
    /\ inProgress' = TRUE
    /\ UNCHANGED <<approval, fillRecorded, killSwitch, executed, automatic>>

\* Mutant: the claim writes no ledger row.
ClaimWithoutLedgerRow(p) ==
    /\ ledger[p] = "NONE"
    /\ status'     = [status EXCEPT ![p] = "SUBMITTING"]
    /\ inProgress' = TRUE
    /\ UNCHANGED <<approval, fillRecorded, ledger, killSwitch, executed, automatic>>

\* The unique key on the ledger row makes the whole commit fail when a row for
\* this client order id exists; ClaimCommit is then not possible.
ClaimCommit(p) ==
    /\ ledger[p] = "NONE"
    /\ status'     = [status EXCEPT ![p] = "SUBMITTING"]
    /\ ledger'     = [ledger EXCEPT ![p] = "PENDING"]
    /\ inProgress' = TRUE
    /\ UNCHANGED <<approval, fillRecorded, killSwitch, executed, automatic>>

(***************************************************************************)
(* _update_execution and its callers                                       *)
(***************************************************************************)

\* Mutant: the two status arguments are swapped.
UpdateExecutionSwapped(p, proposalStatus, ledgerStatus) ==
    /\ status' = [status EXCEPT ![p] = ledgerStatus]
    /\ ledger' = [ledger EXCEPT ![p] = proposalStatus]
    /\ UNCHANGED <<approval, killSwitch, automatic>>

\* Mutant: a protected trade clears the emergency stop.
UpdateExecutionRearming(p, proposalStatus, ledgerStatus) ==
    /\ status' = [status EXCEPT ![p] = proposalStatus]
    /\ ledger' = [ledger EXCEPT ![p] = ledgerStatus]
    /\ killSwitch' = (killSwitch /\ proposalStatus # "PROTECTED")
    /\ UNCHANGED <<approval, automatic>>

UpdateExecution(p, proposalStatus, ledgerStatus) ==
    /\ status' = [status EXCEPT ![p] = proposalStatus]
    /\ ledger' = [ledger EXCEPT ![p] = ledgerStatus]
    /\ UNCHANGED <<approval, killSwitch, automatic>>

MarkFilled(p) ==
    /\ UpdateExecution(p, "FILLED_UNPROTECTED", "SUBMITTED")
    /\ fillRecorded' = [fillRecorded EXCEPT ![p] = TRUE]
    /\ UNCHANGED <<inProgress, executed>>

FinishFirstOrder ==
    /\ inProgress' = FALSE
    /\ executed'   = TRUE
    /\ UNCHANGED fillRecorded

MarkProtected(p) ==
    UpdateExecution(p, "PROTECTED", "FILLED_PROTECTED") /\ FinishFirstOrder

MarkEmergencyClosed(p) ==
    UpdateExecution(p, "EMERGENCY_CLOSED", "EMERGENCY_CLOSED") /\ FinishFirstOrder

\* Mutant: an unknown outcome releases the lock.
MarkUnknownReleasing(p) ==
    /\ UpdateExecution(p, "UNKNOWN", "UNKNOWN")
    /\ inProgress' = FALSE
    /\ UNCHANGED <<fillRecorded, executed>>

\* The lock stays taken: an unknown outcome forbids every further entry.
MarkUnknown(p) ==
    /\ UpdateExecution(p, "UNKNOWN", "UNKNOWN")
    /\ UNCHANGED <<fillRecorded, inProgress, executed>>

\* A definitive refusal releases the lock.
MarkRejected(p) ==
    /\ UpdateExecution(p, "REJECTED", "REJECTED")
    /\ inProgress' = FALSE
    /\ UNCHANGED <<fillRecorded, executed>>

(***************************************************************************)
(* The AI trader's transactions: approved at once, and no entry lock       *)
(***************************************************************************)

\* save_ai_proposal returns silently when the row exists.
SaveAIProposal(p) ==
    /\ status'   = [status EXCEPT ![p] = IF @ = "NONE" THEN "APPROVED" ELSE @]
    /\ approval' = [approval EXCEPT ![p] = IF status[p] = "NONE" THEN "FRESH" ELSE @]
    /\ UNCHANGED <<fillRecorded, ledger, killSwitch, flagVars>>

ClaimAIReadable(p) == status[p] = "APPROVED" /\ ~killSwitch /\ ledger[p] = "NONE"

ClaimAICommit(p) ==
    /\ ledger[p] = "NONE"
    /\ status' = [status EXCEPT ![p] = "SUBMITTING"]
    /\ ledger' = [ledger EXCEPT ![p] = "PENDING"]
    /\ UNCHANGED <<approval, fillRecorded, killSwitch, flagVars>>

\* _update_ai_execution leaves the first-order flags alone.
UpdateAIExecution(p, proposalStatus, ledgerStatus) ==
    /\ UpdateExecution(p, proposalStatus, ledgerStatus)
    /\ UNCHANGED <<inProgress, executed>>

MarkAIFilled(p) ==
    /\ UpdateAIExecution(p, "FILLED_UNPROTECTED", "SUBMITTED")
    /\ fillRecorded' = [fillRecorded EXCEPT ![p] = TRUE]

\* mark_ai_protected, mark_ai_emergency_closed, mark_ai_unknown, mark_ai_rejected
MarkAI(p, proposalStatus, ledgerStatus) ==
    UpdateAIExecution(p, proposalStatus, ledgerStatus) /\ UNCHANGED fillRecorded

(***************************************************************************)
(* Flags                                                                   *)
(***************************************************************************)

ActivateKillSwitch ==
    /\ killSwitch' = TRUE
    /\ UNCHANGED <<recordVars, flagVars>>

EnableAutomaticReady == executed /\ ~inProgress /\ ~killSwitch

EnableAutomatic ==
    /\ automatic' = TRUE
    /\ UNCHANGED <<recordVars, killSwitch, inProgress, executed>>

(***************************************************************************)
(* ProductionMutationGuard._persistent_checks, made before every private   *)
(* POST, entries and risk-reducing requests alike                          *)
(***************************************************************************)
ExecutableStatus ==
    {"APPROVED", "SUBMITTING", "FILLED_UNPROTECTED", "PROTECTED", "UNKNOWN"}

PersistentChecks(p) == approval[p] = "FRESH" /\ status[p] \in ExecutableStatus
=============================================================================
