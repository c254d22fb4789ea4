--------------------------- MODULE FrozenExecution ---------------------------
(***************************************************************************)
(* The administrator-approved ("frozen signal") execution path:            *)
(*                                                                         *)
(*  - the Telegram bot records consent, cancellation and the kill switch   *)
(*    (src/app/telegram/runner.py);                                        *)
(*  - the controlled-live worker turns a signal into the one proposal of   *)
(*    the phase record, claims an approved proposal, submits it through    *)
(*    the guarded gateway, protects or closes the fill, reconciles, and    *)
(*    validates the first trade after a restart (multi_symbol_scanner.py,  *)
(*    first_live_proposal.py, shadow/runner.py, controlled_live.py,        *)
(*    bybit_v5_gateway.py);                                                *)
(*  - both are separate processes on one database; the worker may be       *)
(*    killed at any await and restarted, and takes no lease, so that two   *)
(*    of them can overlap during a deployment.                             *)
(*                                                                         *)
(* Steps are as fine as the awaits and commits between which another       *)
(* process can act.                                                        *)
(***************************************************************************)
EXTENDS EntryGuard

CONSTANTS
    Workers,            \* controlled-live worker processes
    NoProposal,         \* phase record without a proposal
    MaxRestarts,        \* bound on process restarts, worker and bot together
    Faulty              \* network, API and market-risk refusals can happen

ASSUME FrozenAssumption ==
    /\ NoProposal \notin Proposals
    /\ MaxPositions \in Nat
    /\ MaxRestarts \in Nat
    /\ Faulty \in BOOLEAN

VARIABLES
    phase,              \* FirstLiveProposalStateRecord.status
    slot,               \* FirstLiveProposalStateRecord.proposal_id
    notified,           \* FirstLiveProposalStateRecord.notified_at is set
    startedAfter,       \* workers whose process_started_at > phase.updated_at
    pc, job,            \* where each worker is, and for which proposal
    wasAutomatic,       \* the worker's local "automatic"
    tg, tgJob,          \* the Telegram handler in progress and its proposal
    restarts,           \* restarts so far
    lateEntries,        \* entry POSTs sent while the kill switch was active
    cancelConfirmed     \* proposals whose cancellation was confirmed to the admin

phaseVars  == <<phase, slot, notified, startedAfter>>
workerVars == <<pc, job, wasAutomatic>>
tgVars     == <<tg, tgJob, cancelConfirmed>>
vars == <<repoVars, exchangeVars, phaseVars, workerVars, tgVars, restarts, lateEntries>>

PhaseStatus ==
    {"WAITING_FOR_SIGNAL", "READY_FOR_USER_APPROVAL", "APPROVED_FOR_EXECUTION",
     "APPROVED_DRY_RUN", "CANCELLED", "EXECUTED_AWAITING_RESTART_VALIDATION",
     "FIRST_EXECUTION_VALIDATED", "AUTO_POSITION_OPEN", "AUTO_RUNNING",
     "HALTED_EXECUTION_FAILURE", "HALTED_RECONCILIATION_MISMATCH"}

WorkerPc ==
    {"IDLE", "SCAN", "SAVE", "CLAIM", "CLAIM_COMMIT", "CREATE", "RESPONSE", "POLL",
     "PROTECT", "SECURED", "CLOSE", "RECONCILE", "KILL", "HALT", "ENABLE", "VALIDATED",
     "KILL_MISMATCH", "HALT_MISMATCH"} \cup SubmitStage

TelegramPc == {"IDLE", "APPROVE", "APPROVE_PHASE", "CANCEL", "CANCEL_PHASE"}

TypeOK ==
    /\ RepoTypeOK
    /\ ExchangeTypeOK
    /\ phase \in PhaseStatus
    /\ slot \in Proposals \cup {NoProposal}
    /\ notified \in BOOLEAN
    /\ startedAfter \subseteq Workers
    /\ pc \in [Workers -> WorkerPc]
    /\ job \in [Workers -> Proposals \cup {NoProposal}]
    /\ wasAutomatic \in [Workers -> BOOLEAN]
    /\ tg \in TelegramPc
    /\ tgJob \in Proposals \cup {NoProposal}
    /\ restarts \in Nat
    /\ lateEntries \in Nat
    /\ cancelConfirmed \subseteq Proposals

Init ==
    /\ RepoInit
    /\ ExchangeInit
    /\ phase = "WAITING_FOR_SIGNAL"
    /\ slot = NoProposal
    /\ notified = FALSE
    /\ startedAfter = Workers
    /\ pc = [w \in Workers |-> "IDLE"]
    /\ job = [w \in Workers |-> NoProposal]
    /\ wasAutomatic = [w \in Workers |-> FALSE]
    /\ tg = "IDLE"
    /\ tgJob = NoProposal
    /\ restarts = 0
    /\ lateEntries = 0
    /\ cancelConfirmed = {}

(***************************************************************************)
(* The phase record                                                        *)
(***************************************************************************)

\* Every write of the phase record moves its updated_at past the start of all
\* running workers.
SetPhase(s) ==
    /\ phase' = s
    /\ startedAfter' = {}
    /\ UNCHANGED <<slot, notified>>

\* mark_execution_status; it raises when the record holds no proposal.
MarkExecutionStatus(s) ==
    IF slot # NoProposal THEN SetPhase(s) ELSE UNCHANGED phaseVars

Goto(w, label) ==
    /\ pc' = [pc EXCEPT ![w] = label]
    /\ UNCHANGED <<job, wasAutomatic>>

(***************************************************************************)
(* MultiSymbolFirstProposalCoordinator.cycle                               *)
(***************************************************************************)

\* The account leaves room for one more entry.
CapacityFree == PositionCapacity /\ PendingEntries = {}

RolloverStatus == {"FIRST_EXECUTION_VALIDATED", "AUTO_POSITION_OPEN"}

\* The account snapshot that _build judges p's signal by; it is not read again.
ReadAccount(w, p) ==
    /\ pc[w] = "IDLE"
    /\ slot = NoProposal \/ phase \in RolloverStatus
    /\ status[p] = "NONE"
    /\ CapacityFree /\ SymbolFree(p)
    /\ pc' = [pc EXCEPT ![w] = "SCAN"]
    /\ job' = [job EXCEPT ![w] = p]
    /\ UNCHANGED <<repoVars, exchangeVars, phaseVars, wasAutomatic, tgVars, restarts,
                   lateEntries>>

\* The rollover after a finished position: release_position_slot_for_automatic_scan.
ReleaseSlot(w) ==
    /\ pc[w] = "SCAN"
    /\ slot # NoProposal
    /\ phase \in RolloverStatus
    /\ automatic /\ ~killSwitch
    /\ slot' = NoProposal
    /\ notified' = FALSE
    /\ phase' = "AUTO_RUNNING"
    /\ startedAfter' = {}
    /\ UNCHANGED <<repoVars, exchangeVars, workerVars, tgVars, restarts, lateEntries>>

\* The signal becomes the winner: no unresolved ledger row, and the rows save_ready
\* reads allow a proposal.
SignalWins(w) ==
    /\ pc[w] = "SCAN"
    /\ slot = NoProposal
    /\ \A q \in Proposals : ~Unresolved(q)
    /\ SaveReadable
    /\ pc' = [pc EXCEPT ![w] = "SAVE"]
    /\ wasAutomatic' = [wasAutomatic EXCEPT ![w] = automatic]
    /\ UNCHANGED <<job, repoVars, exchangeVars, phaseVars, tgVars, restarts, lateEntries>>

\* save_ready commits: proposal row and phase record together.
SaveReady(w) ==
    /\ pc[w] = "SAVE"
    /\ InsertProposal(job[w], wasAutomatic[w])
    /\ slot' = job[w]
    /\ phase' = IF wasAutomatic[w] THEN "APPROVED_FOR_EXECUTION"
                ELSE "READY_FOR_USER_APPROVAL"
    /\ startedAfter' = {}
    /\ Goto(w, "IDLE")
    /\ UNCHANGED <<exchangeVars, notified, tgVars, restarts, lateEntries>>

\* No signal, a rejected candidate, a refusal of the rows or a unique-key conflict.
ScanEnds(w) ==
    /\ pc[w] = "SCAN" \/ (pc[w] = "SAVE" /\ status[job[w]] # "NONE")
    /\ Goto(w, "IDLE")
    /\ UNCHANGED <<repoVars, exchangeVars, phaseVars, tgVars, restarts, lateEntries>>

\* The proposal message was delivered: mark_notified.
Notify(w) ==
    /\ pc[w] = "IDLE"
    /\ slot # NoProposal
    /\ phase \notin RolloverStatus
    /\ ~notified
    /\ notified' = TRUE
    /\ startedAfter' = {}
    /\ UNCHANGED <<repoVars, exchangeVars, phase, slot, workerVars, tgVars, restarts,
                   lateEntries>>

(***************************************************************************)
(* ManualExecutionService.execute_first_order                              *)
(***************************************************************************)

\* _controlled_execution_cycle picks the proposal up, then reads the instrument.
BeginExecution(w) ==
    /\ pc[w] = "IDLE"
    /\ slot # NoProposal
    /\ phase = "APPROVED_FOR_EXECUTION"
    /\ pc' = [pc EXCEPT ![w] = "CLAIM"]
    /\ job' = [job EXCEPT ![w] = slot]
    /\ wasAutomatic' = [wasAutomatic EXCEPT ![w] = automatic]
    /\ UNCHANGED <<repoVars, exchangeVars, phaseVars, tgVars, restarts, lateEntries>>

ReadClaim(w) ==
    /\ pc[w] = "CLAIM"
    /\ ClaimReadable(job[w])
    /\ Goto(w, "CLAIM_COMMIT")
    /\ UNCHANGED <<repoVars, exchangeVars, phaseVars, tgVars, restarts, lateEntries>>

CommitClaim(w) ==
    /\ pc[w] = "CLAIM_COMMIT"
    /\ ClaimCommit(job[w])
    /\ Goto(w, "PREPARE")
    /\ UNCHANGED <<exchangeVars, phaseVars, tgVars, restarts, lateEntries>>

\* Mutant: a refused claim is skipped instead of halting the system.
ClaimRefusalIgnored(w) ==
    /\ \/ pc[w] = "CLAIM" /\ (Faulty \/ ~ClaimReadable(job[w]))
       \/ pc[w] = "CLAIM_COMMIT" /\ ledger[job[w]] # "NONE"
    /\ Goto(w, "IDLE")
    /\ UNCHANGED <<repoVars, exchangeVars, phaseVars, tgVars, restarts, lateEntries>>

\* The instrument changed, the rows refuse the claim, or the ledger row exists.
ClaimFails(w) ==
    /\ \/ pc[w] = "CLAIM" /\ (Faulty \/ ~ClaimReadable(job[w]))
       \/ pc[w] = "CLAIM_COMMIT" /\ ledger[job[w]] # "NONE"
    /\ Goto(w, "KILL")
    /\ UNCHANGED <<repoVars, exchangeVars, phaseVars, tgVars, restarts, lateEntries>>

StageAdvances(w) ==
    /\ pc[w] \in SubmitStage
    /\ StagePasses(pc[w], job[w])
    /\ Goto(w, AfterStage[pc[w]])
    /\ UNCHANGED <<repoVars, exchangeVars, phaseVars, tgVars, restarts, lateEntries>>

\* A refusal of the guard, a failed read or a market-risk limit: outcome UNKNOWN.
StageFails(w) ==
    /\ pc[w] \in SubmitStage
    /\ Faulty \/ ~StagePasses(pc[w], job[w])
    /\ MarkUnknown(job[w])
    /\ Goto(w, "KILL")
    /\ UNCHANGED <<exchangeVars, phaseVars, tgVars, restarts, lateEntries>>

\* set_leverage is refused by the exchange: a definitive OrderRejected.
LeverageRefused(w) ==
    /\ pc[w] = "PREPARE"
    /\ Faulty
    /\ ~OrderVisible(job[w])
    /\ MarkRejected(job[w])
    /\ Goto(w, "KILL")
    /\ UNCHANGED <<exchangeVars, phaseVars, tgVars, restarts, lateEntries>>

\* The guard itself trips the kill switch at the experiment's loss limit.
LossLimitReached(w) ==
    /\ pc[w] \in {"PREPARE", "ORDERS"}
    /\ Faulty
    /\ ActivateKillSwitch
    /\ Goto(w, "BLOCKED")
    /\ UNCHANGED <<exchangeVars, phaseVars, tgVars, restarts, lateEntries>>

\* The entry leaves the process.  The last look at the kill switch was at
\* AUTHORIZE, several awaits ago.
PostEntry(w) ==
    /\ pc[w] = "CREATE"
    /\ PostCreate(job[w])
    /\ lateEntries' = lateEntries + (IF killSwitch THEN 1 ELSE 0)
    /\ Goto(w, "RESPONSE")
    /\ UNCHANGED <<repoVars, phaseVars, tgVars, restarts>>

\* The create response: refused, lost (outcome unknown) or an order id.
EntryRefused(w) ==
    /\ pc[w] = "RESPONSE"
    /\ order[job[w]] = "REFUSED"
    /\ MarkRejected(job[w])
    /\ Goto(w, "KILL")
    /\ UNCHANGED <<exchangeVars, phaseVars, tgVars, restarts, lateEntries>>

\* Mutant: a timeout is taken for a rejection.
TimeoutTakenAsRejection(w) ==
    /\ pc[w] = "RESPONSE"
    /\ Faulty
    /\ MarkRejected(job[w])
    /\ Goto(w, "KILL")
    /\ UNCHANGED <<exchangeVars, phaseVars, tgVars, restarts, lateEntries>>

EntryTimesOut(w) ==
    /\ pc[w] = "RESPONSE"
    /\ Faulty
    /\ MarkUnknown(job[w])
    /\ Goto(w, "KILL")
    /\ UNCHANGED <<exchangeVars, phaseVars, tgVars, restarts, lateEntries>>

EntryAccepted(w) ==
    /\ pc[w] = "RESPONSE"
    /\ OrderVisible(job[w])
    /\ Goto(w, "POLL")
    /\ UNCHANGED <<repoVars, exchangeVars, phaseVars, tgVars, restarts, lateEntries>>

\* The bounded polling of submit_market.
FillConfirmed(w) ==
    /\ pc[w] = "POLL"
    /\ order[job[w]] \in {"FILLED", "PARTIAL"}
    /\ MarkFilled(job[w])
    /\ Goto(w, "PROTECT")
    /\ UNCHANGED <<exchangeVars, phaseVars, tgVars, restarts, lateEntries>>

PollRejected(w) ==
    /\ pc[w] = "POLL"
    /\ order[job[w]] = "REJECTED"
    /\ MarkRejected(job[w])
    /\ Goto(w, "KILL")
    /\ UNCHANGED <<exchangeVars, phaseVars, tgVars, restarts, lateEntries>>

\* Still open after the last poll, ended without a fill, or a poll failed.
FillNotConfirmed(w) ==
    /\ pc[w] = "POLL"
    /\ order[job[w]] \in {"NEW", "CANCELLED"} \/ Faulty
    /\ MarkUnknown(job[w])
    /\ Goto(w, "KILL")
    /\ UNCHANGED <<exchangeVars, phaseVars, tgVars, restarts, lateEntries>>

\* install_native_protection: the guard's persistent checks, then the POST.
ProtectionInstalled(w) ==
    /\ pc[w] = "PROTECT"
    /\ PersistentChecks(job[w])
    /\ SetTradingStop(job[w])
    /\ Goto(w, "SECURED")
    /\ UNCHANGED <<repoVars, phaseVars, tgVars, restarts, lateEntries>>

RecordProtection(w) ==
    /\ pc[w] = "SECURED"
    /\ MarkProtected(job[w])
    /\ Goto(w, "RECONCILE")
    /\ UNCHANGED <<exchangeVars, phaseVars, tgVars, restarts, lateEntries>>

\* The stop was set but the answer was lost.
ProtectionUnanswered(w) ==
    /\ pc[w] = "PROTECT"
    /\ Faulty
    /\ PersistentChecks(job[w])
    /\ SetTradingStop(job[w])
    /\ Goto(w, "CLOSE")
    /\ UNCHANGED <<repoVars, phaseVars, tgVars, restarts, lateEntries>>

ProtectionFails(w) ==
    /\ pc[w] = "PROTECT"
    /\ Faulty \/ ~PersistentChecks(job[w]) \/ position[job[w]] # "OPEN"
    /\ Goto(w, "CLOSE")
    /\ UNCHANGED <<repoVars, exchangeVars, phaseVars, tgVars, restarts, lateEntries>>

\* emergency_close_reduce_only returns: nothing to close, or the close request
\* was accepted.  Whether an accepted close executes is up to the exchange.
EmergencyCloseAccepted(w) ==
    /\ pc[w] = "CLOSE"
    /\ position[job[w]] # "OPEN" \/ PersistentChecks(job[w])
    /\ MarkEmergencyClosed(job[w])
    /\ Goto(w, "KILL")
    /\ UNCHANGED <<exchangeVars, phaseVars, tgVars, restarts, lateEntries>>

EmergencyCloseFails(w) ==
    /\ pc[w] = "CLOSE"
    /\ Faulty \/ (position[job[w]] = "OPEN" /\ ~PersistentChecks(job[w]))
    /\ MarkUnknown(job[w])
    /\ Goto(w, "KILL")
    /\ UNCHANGED <<exchangeVars, phaseVars, tgVars, restarts, lateEntries>>

(***************************************************************************)
(* _controlled_execution_cycle around it                                   *)
(***************************************************************************)

\* ManualExecutionService.reconcile answers MATCH: a protected record has its fill
\* and an open position of its exact quantity, an emergency-closed one has no
\* position.  A position is known by its symbol (position_id).
ReconcileMatch(p) ==
    \/ /\ status[p] = "PROTECTED"
       /\ fillRecorded[p]
       /\ \E q \in OpenPositions : SymbolOf[q] = SymbolOf[p] /\ order[q] = "FILLED"
    \/ status[p] = "EMERGENCY_CLOSED" /\ ~SymbolHasPosition(p)

ReconcileMatches(w) ==
    /\ pc[w] = "RECONCILE"
    /\ ReconcileMatch(job[w])
    /\ slot # NoProposal
    /\ SetPhase(IF wasAutomatic[w] THEN "AUTO_POSITION_OPEN"
                ELSE "EXECUTED_AWAITING_RESTART_VALIDATION")
    /\ Goto(w, "IDLE")
    /\ UNCHANGED <<repoVars, exchangeVars, tgVars, restarts, lateEntries>>

ReconcileFails(w) ==
    /\ pc[w] = "RECONCILE"
    /\ Faulty \/ ~ReconcileMatch(job[w]) \/ slot = NoProposal
    /\ Goto(w, "KILL")
    /\ UNCHANGED <<repoVars, exchangeVars, phaseVars, tgVars, restarts, lateEntries>>

\* Any exception of the cycle: kill switch first, then the phase record.
KillAfterFailure(w) ==
    /\ pc[w] \in {"KILL", "KILL_MISMATCH"}
    /\ ActivateKillSwitch
    /\ Goto(w, IF pc[w] = "KILL" THEN "HALT" ELSE "HALT_MISMATCH")
    /\ UNCHANGED <<exchangeVars, phaseVars, tgVars, restarts, lateEntries>>

\* Mutant: the phase record is left as it was.
HaltKeepsPhase(w) ==
    /\ pc[w] \in {"HALT", "HALT_MISMATCH"}
    /\ Goto(w, "IDLE")
    /\ UNCHANGED <<repoVars, exchangeVars, phaseVars, tgVars, restarts, lateEntries>>

HaltPhase(w) ==
    /\ pc[w] \in {"HALT", "HALT_MISMATCH"}
    /\ MarkExecutionStatus(IF pc[w] = "HALT" THEN "HALTED_EXECUTION_FAILURE"
                           ELSE "HALTED_RECONCILIATION_MISMATCH")
    /\ Goto(w, "IDLE")
    /\ UNCHANGED <<repoVars, exchangeVars, tgVars, restarts, lateEntries>>

(***************************************************************************)
(* Validation of the first trade by a worker started after it              *)
(***************************************************************************)

\* Mutant: the worker that made the trade validates it.
ValidateWithoutRestart(w) ==
    /\ pc[w] = "IDLE"
    /\ slot # NoProposal
    /\ phase = "EXECUTED_AWAITING_RESTART_VALIDATION"
    /\ pc' = [pc EXCEPT ![w] = IF ReconcileMatch(slot) THEN "ENABLE" ELSE "KILL_MISMATCH"]
    /\ job' = [job EXCEPT ![w] = slot]
    /\ UNCHANGED <<repoVars, exchangeVars, phaseVars, wasAutomatic, tgVars, restarts,
                   lateEntries>>

ValidateFirstTrade(w) ==
    /\ pc[w] = "IDLE"
    /\ slot # NoProposal
    /\ phase = "EXECUTED_AWAITING_RESTART_VALIDATION"
    /\ w \in startedAfter
    /\ pc' = [pc EXCEPT ![w] = IF ReconcileMatch(slot) THEN "ENABLE" ELSE "KILL_MISMATCH"]
    /\ job' = [job EXCEPT ![w] = slot]
    /\ UNCHANGED <<repoVars, exchangeVars, phaseVars, wasAutomatic, tgVars, restarts,
                   lateEntries>>

\* enable_automatic_execution_after_first_validation, or its refusal.
EnableAutomaticMode(w) ==
    /\ pc[w] = "ENABLE"
    /\ \/ EnableAutomaticReady /\ EnableAutomatic /\ Goto(w, "VALIDATED")
       \/ ~EnableAutomaticReady /\ UNCHANGED repoVars /\ Goto(w, "IDLE")
    /\ UNCHANGED <<exchangeVars, phaseVars, tgVars, restarts, lateEntries>>

MarkValidated(w) ==
    /\ pc[w] = "VALIDATED"
    /\ MarkExecutionStatus("FIRST_EXECUTION_VALIDATED")
    /\ Goto(w, "IDLE")
    /\ UNCHANGED <<repoVars, exchangeVars, tgVars, restarts, lateEntries>>

\* The process dies (SIGTERM cancels the task at its current await, and no
\* handler of the cycle catches that) and is started again.
RestartWorker(w) ==
    /\ restarts < MaxRestarts
    /\ restarts' = restarts + 1
    /\ pc' = [pc EXCEPT ![w] = "IDLE"]
    /\ job' = [job EXCEPT ![w] = NoProposal]
    /\ wasAutomatic' = [wasAutomatic EXCEPT ![w] = FALSE]
    /\ startedAfter' = startedAfter \cup {w}
    /\ UNCHANGED <<repoVars, exchangeVars, phase, slot, notified, tgVars, lateEntries>>

(***************************************************************************)
(* The Telegram bot; its handlers call the database synchronously, one at  *)
(* a time                                                                  *)
(***************************************************************************)
TgGoto(label) == tg' = label /\ UNCHANGED <<tgJob, cancelConfirmed>>

TgBegin(label, p) == tg' = label /\ tgJob' = p /\ UNCHANGED cancelConfirmed

TgDone == tg' = "IDLE" /\ tgJob' = NoProposal

TelegramReads(p) ==
    /\ tg = "IDLE"
    /\ \/ ApproveReadable(p) /\ TgBegin("APPROVE", p)
       \/ CancelReadable(p) /\ TgBegin("CANCEL", p)
    /\ UNCHANGED <<repoVars, exchangeVars, phaseVars, workerVars, restarts, lateEntries>>

TelegramApproves ==
    /\ tg = "APPROVE"
    /\ ApproveCommit(tgJob)
    /\ TgGoto("APPROVE_PHASE")
    /\ UNCHANGED <<exchangeVars, phaseVars, workerVars, restarts, lateEntries>>

\* mark_approved_for_execution, or mark_approved_dry_run in an unarmed bot.
TelegramApprovesPhase ==
    /\ tg = "APPROVE_PHASE"
    /\ IF slot = tgJob
       THEN \E s \in {"APPROVED_FOR_EXECUTION", "APPROVED_DRY_RUN"} : SetPhase(s)
       ELSE UNCHANGED phaseVars
    /\ TgDone
    /\ UNCHANGED <<repoVars, exchangeVars, workerVars, cancelConfirmed, restarts,
                   lateEntries>>

TelegramCancels ==
    /\ tg = "CANCEL"
    /\ CancelCommit(tgJob)
    /\ TgGoto("CANCEL_PHASE")
    /\ UNCHANGED <<exchangeVars, phaseVars, workerVars, restarts, lateEntries>>

\* The phase record is cancelled and the administrator is told so.
TelegramCancelsPhase ==
    /\ tg = "CANCEL_PHASE"
    /\ IF slot = tgJob
       THEN SetPhase("CANCELLED") /\ cancelConfirmed' = cancelConfirmed \cup {tgJob}
       ELSE UNCHANGED <<phaseVars, cancelConfirmed>>
    /\ TgDone
    /\ UNCHANGED <<repoVars, exchangeVars, workerVars, restarts, lateEntries>>

TelegramEmergency ==
    /\ tg = "IDLE"
    /\ ActivateKillSwitch
    /\ UNCHANGED <<exchangeVars, phaseVars, workerVars, tgVars, restarts, lateEntries>>

RestartTelegram ==
    /\ tg # "IDLE"
    /\ restarts < MaxRestarts
    /\ restarts' = restarts + 1
    /\ TgDone
    /\ UNCHANGED <<repoVars, exchangeVars, phaseVars, workerVars, cancelConfirmed,
                   lateEntries>>

(***************************************************************************)
(* The specification                                                       *)
(***************************************************************************)
CoordinatorStep(w) == Notify(w) \/ \E p \in Proposals : ReadAccount(w, p)

ScanStep(w) == ReleaseSlot(w) \/ SignalWins(w) \/ SaveReady(w) \/ ScanEnds(w)

ClaimStep(w) == BeginExecution(w) \/ ReadClaim(w) \/ CommitClaim(w) \/ ClaimFails(w)

SubmitStep(w) ==
    \/ StageAdvances(w) \/ StageFails(w) \/ LeverageRefused(w) \/ LossLimitReached(w)
    \/ PostEntry(w) \/ EntryRefused(w) \/ EntryTimesOut(w) \/ EntryAccepted(w)
    \/ FillConfirmed(w) \/ PollRejected(w) \/ FillNotConfirmed(w)

SecureStep(w) ==
    \/ ProtectionInstalled(w) \/ RecordProtection(w)
    \/ ProtectionUnanswered(w) \/ ProtectionFails(w)
    \/ EmergencyCloseAccepted(w) \/ EmergencyCloseFails(w)

OutcomeStep(w) ==
    \/ ReconcileMatches(w) \/ ReconcileFails(w) \/ KillAfterFailure(w) \/ HaltPhase(w)
    \/ ValidateFirstTrade(w) \/ EnableAutomaticMode(w) \/ MarkValidated(w)

\* One step of a running worker's loop, other than accepting a new signal.
ExecutionStep(w) ==
    ScanStep(w) \/ ClaimStep(w) \/ SubmitStep(w) \/ SecureStep(w) \/ OutcomeStep(w)

TelegramStep ==
    \/ \E p \in Proposals : TelegramReads(p)
    \/ TelegramApproves \/ TelegramApprovesPhase
    \/ TelegramCancels \/ TelegramCancelsPhase
    \/ TelegramEmergency \/ RestartTelegram

BybitStep(p) ==
    /\ ExchangeStep(p)
    /\ UNCHANGED <<repoVars, phaseVars, workerVars, tgVars, restarts, lateEntries>>

ApprovalAges(p) ==
    /\ ApprovalExpires(p)
    /\ UNCHANGED <<exchangeVars, phaseVars, workerVars, tgVars, restarts, lateEntries>>

Next ==
    \/ \E w \in Workers : CoordinatorStep(w) \/ ExecutionStep(w) \/ RestartWorker(w)
    \/ TelegramStep
    \/ \E p \in Proposals : BybitStep(p) \/ ApprovalAges(p)

Spec == Init /\ [][Next]_vars

\* The worker's loop runs again after every failure and Railway restarts a dead
\* container: a worker that can step eventually does.  Nothing is assumed of the
\* administrator, of signals or of the exchange.
FairSpec == Spec /\ \A w \in Workers : WF_vars(ExecutionStep(w))
(***************************************************************************)
(* Properties                                                              *)
(***************************************************************************)

\* A naked position is never forgotten by the durable state: while a position is
\* open without native protection, its ledger row is unresolved and the entry
\* lock is taken, or the emergency close was accepted.
NakedPositionHoldsLock ==
    \A p \in OpenPositions :
        protected[p] \/ (Unresolved(p) /\ inProgress) \/ ledger[p] = "EMERGENCY_CLOSED"

\* The kill switch is read before several awaits and the POST comes after them,
\* so one entry may still leave; with one worker no second one ever does.
AtMostOneLateEntry == lateEntries <= 1

\* The exchange never holds more positions than the profile allows, nor two on
\* one symbol, although positions, orders and POST are separate requests.
PositionLimits ==
    /\ Cardinality(OpenPositions) <= MaxPositions
    /\ \A p, q \in OpenPositions : SymbolOf[p] = SymbolOf[q] => p = q

\* The execution path implements the abstract ledger: claim before send, send
\* once, one unresolved entry at a time, rows only move forward.
Abstract == INSTANCE ExecutionLedger WITH sent <- {p \in Proposals : posts[p] > 0}

ImplementsLedger == Abstract!Spec

\* Automatic mode starts only after a restart, from the trade the phase record
\* still holds, with that trade's ledger row protected and nothing else pending
\* (enable_automatic_execution_after_first_validation trusts the validation that
\* its caller made one await earlier).
AutomaticOnlyAfterRestart ==
    [][~automatic /\ automatic' =>
        /\ restarts > 0
        /\ slot # NoProposal
        /\ ledger[slot] = "FILLED_PROTECTED"
        /\ \A p \in Proposals : ~Unresolved(p)]_vars

\* A claimed entry is settled, or the system stops itself: even when the worker
\* dies between claim and outcome, the next one finds the claim and activates
\* the kill switch.  (A cancellation committed over the claim takes the phase
\* record away from the worker; see CancelledMeansNotSent.)
UnresolvedFailsClosed ==
    \A p \in Proposals :
        Unresolved(p) ~> (~Unresolved(p) \/ killSwitch \/ phase = "CANCELLED")

\* Every approval handed to the worker is consumed: the phase record leaves
\* APPROVED_FOR_EXECUTION.
ApprovalIsConsumed ==
    (phase = "APPROVED_FOR_EXECUTION") ~> (phase # "APPROVED_FOR_EXECUTION")

\* What the bot tells the administrator after a cancellation: no order was sent
\* (src/app/telegram/runner.py:190).
CancelledMeansNotSent == \A p \in cancelConfirmed : posts[p] = 0

\* After a confirmed fill the position gets native protection or is closed:
\* where nothing fails, an open position whose fill was recorded does not end
\* naked with an unknown outcome (README.md:190).
ConfirmedFillIsSecured ==
    \A p \in OpenPositions :
        fillRecorded[p] /\ ledger[p] = "UNKNOWN" => protected[p]
=============================================================================
