----------------------------- MODULE AIExecution -----------------------------
(***************************************************************************)
(* The autonomous path: AIAutonomousTrader and                             *)
(* AIAutonomousExecutionService of src/app/ai/live_trader.py on the same   *)
(* repository, guard and exchange as the administrator-approved path.      *)
(*                                                                         *)
(* Every five-minute slot is scanned once (begin_scan's primary key).  A   *)
(* scan reads market and account, asks the model for one decision per      *)
(* symbol, and works through the candidates one after another.  There is   *)
(* no entry lock, no phase record and no recovery: what a process that     *)
(* dies leaves unresolved stays so, and the next slot is scanned.          *)
(*                                                                         *)
(* A proposal stands for one decision of one scan (its id is derived from  *)
(* scan, symbol and action).                                               *)
(***************************************************************************)
EXTENDS EntryGuard

CONSTANTS
    Workers,            \* worker processes; a deployment can overlap two
    Slots,              \* bound on five-minute slots, which are numbered from 1
    ScanOf,             \* the slot of each proposal's scan
    NoProposal,         \* no candidate in hand
    MaxRestarts,        \* bound on process deaths
    Faulty              \* network, API and market refusals can happen

ASSUME AIAssumption ==
    /\ NoProposal \notin Proposals
    /\ Slots \in Nat \ {0}
    /\ ScanOf \in [Proposals -> 1 .. Slots]
    /\ MaxPositions \in Nat
    /\ MaxRestarts \in Nat
    /\ Faulty \in BOOLEAN

VARIABLES
    slotNow,            \* the five-minute slot of the wall clock
    scan,               \* AILiveScanRecord.status by slot
    disposition,        \* AILiveDecisionRecord.disposition by proposal
    pc, scanning, job,  \* where each worker is, in which scan, with which candidate
    todo,               \* candidates of its batch not yet looked at
    freeSlots,          \* its free_slots
    openSymbols,        \* its open_symbols
    restarts,           \* deaths so far
    abandoned           \* entries in hand when their process died

scanVars   == <<slotNow, scan, disposition>>
workerVars == <<pc, scanning, job, todo, freeSlots, openSymbols>>
lifeVars   == <<restarts, abandoned>>
vars == <<repoVars, exchangeVars, scanVars, workerVars, lifeVars>>

ScanStatus == {"NONE", "RUNNING", "COMPLETED", "FAILED"}

Disposition ==
    {"NONE", "WAIT", "CANDIDATE", "BLOCKED_MAX_POSITIONS", "BLOCKED_EXISTING_POSITION",
     "SUBMITTING", "BLOCKED", "FAILED_CLOSED", "FILLED_PROTECTED"}

WorkerPc ==
    {"IDLE", "READ", "DECIDE", "BATCH", "SAVED", "CLAIM", "CLAIM_COMMIT", "CREATE",
     "RESPONSE", "POLL", "PROTECT", "CLOSE", "RECONCILE", "OPENED", "REFUSED", "KILL",
     "FAIL"} \cup (SubmitStage \ {"BLOCKED"})

TypeOK ==
    /\ RepoTypeOK
    /\ ExchangeTypeOK
    /\ slotNow \in 1 .. Slots
    /\ scan \in [1 .. Slots -> ScanStatus]
    /\ disposition \in [Proposals -> Disposition]
    /\ pc \in [Workers -> WorkerPc]
    /\ scanning \in [Workers -> 0 .. Slots]
    /\ job \in [Workers -> Proposals \cup {NoProposal}]
    /\ todo \in [Workers -> SUBSET Proposals]
    /\ freeSlots \in [Workers -> 0 .. MaxPositions]
    /\ openSymbols \in [Workers -> SUBSET Symbols]
    /\ restarts \in 0 .. MaxRestarts
    /\ abandoned \subseteq Proposals

Init ==
    /\ RepoInit
    /\ ExchangeInit
    /\ slotNow = 1
    /\ scan = [s \in 1 .. Slots |-> "NONE"]
    /\ disposition = [p \in Proposals |-> "NONE"]
    /\ pc = [w \in Workers |-> "IDLE"]
    /\ scanning = [w \in Workers |-> 0]
    /\ job = [w \in Workers |-> NoProposal]
    /\ todo = [w \in Workers |-> {}]
    /\ freeSlots = [w \in Workers |-> 0]
    /\ openSymbols = [w \in Workers |-> {}]
    /\ restarts = 0
    /\ abandoned = {}

Goto(w, label) ==
    /\ pc' = [pc EXCEPT ![w] = label]
    /\ UNCHANGED <<scanning, job, todo, freeSlots, openSymbols>>

\* The cycle returns: its locals are gone.
EndCycle(w) ==
    /\ pc' = [pc EXCEPT ![w] = "IDLE"]
    /\ scanning' = [scanning EXCEPT ![w] = 0]
    /\ job' = [job EXCEPT ![w] = NoProposal]
    /\ todo' = [todo EXCEPT ![w] = {}]
    /\ freeSlots' = [freeSlots EXCEPT ![w] = 0]
    /\ openSymbols' = [openSymbols EXCEPT ![w] = {}]

(***************************************************************************)
(* AIAutonomousTrader.cycle                                                *)
(***************************************************************************)

\* begin_scan inserts the slot's row, whose id is its primary key; a slot that has one,
\* whatever its status, is not scanned again.
BeginScan(w) ==
    /\ pc[w] = "IDLE"
    /\ scan[slotNow] = "NONE"
    /\ scan' = [scan EXCEPT ![slotNow] = "RUNNING"]
    /\ pc' = [pc EXCEPT ![w] = "READ"]
    /\ scanning' = [scanning EXCEPT ![w] = slotNow]
    /\ UNCHANGED <<job, todo, freeSlots, openSymbols, repoVars, exchangeVars, slotNow,
                   disposition, lifeVars>>

\* The account snapshot the whole batch is judged by.
ReadMarket(w) ==
    LET n == Cardinality(OpenPositions)
    IN
    /\ pc[w] = "READ"
    /\ pc' = [pc EXCEPT ![w] = "DECIDE"]
    /\ freeSlots' = [freeSlots EXCEPT ![w] = IF n < MaxPositions THEN MaxPositions - n ELSE 0]
    /\ openSymbols' = [openSymbols EXCEPT ![w] = {SymbolOf[p] : p \in OpenPositions}]
    /\ UNCHANGED <<scanning, job, todo, repoVars, exchangeVars, scanVars, lifeVars>>

\* The model answers with any valid set of decisions; complete_scan stores them all.
CompleteScan(w) ==
    LET decided == {p \in Proposals : ScanOf[p] = scanning[w]}
    IN
    /\ pc[w] = "DECIDE"
    /\ \E chosen \in SUBSET decided :
          /\ todo' = [todo EXCEPT ![w] = chosen]
          /\ disposition' = [p \in Proposals |->
                               IF p \in chosen THEN "CANDIDATE"
                               ELSE IF p \in decided THEN "WAIT" ELSE disposition[p]]
    /\ scan' = [scan EXCEPT ![scanning[w]] = "COMPLETED"]
    /\ pc' = [pc EXCEPT ![w] = "BATCH"]
    /\ UNCHANGED <<scanning, job, freeSlots, openSymbols, repoVars, exchangeVars, slotNow,
                   lifeVars>>

\* A read fails, no fresh fee rates, or the answer is invalid: fail_scan, no order.
FailScan(w) ==
    /\ pc[w] \in {"READ", "DECIDE"}
    /\ Faulty
    /\ scan' = [scan EXCEPT ![scanning[w]] = "FAILED"]
    /\ EndCycle(w)
    /\ UNCHANGED <<repoVars, exchangeVars, slotNow, disposition, lifeVars>>

(***************************************************************************)
(* _execute_candidates; its order of the candidates is any order           *)
(***************************************************************************)
SetDisposition(p, d) ==
    /\ disposition' = [disposition EXCEPT ![p] = d]
    /\ UNCHANGED <<slotNow, scan>>

Take(w, p, label) ==
    /\ pc[w] = "BATCH"
    /\ p \in todo[w]
    /\ todo' = [todo EXCEPT ![w] = @ \ {p}]
    /\ job' = [job EXCEPT ![w] = p]
    /\ pc' = [pc EXCEPT ![w] = label]
    /\ UNCHANGED <<scanning, freeSlots, openSymbols>>

Skips(w, p) == freeSlots[w] = 0 \/ SymbolOf[p] \in openSymbols[w]

SkipCandidate(w, p) ==
    /\ Take(w, p, "BATCH")
    /\ Skips(w, p)
    /\ SetDisposition(p, IF freeSlots[w] = 0 THEN "BLOCKED_MAX_POSITIONS"
                         ELSE "BLOCKED_EXISTING_POSITION")
    /\ UNCHANGED <<repoVars, exchangeVars, lifeVars>>

\* Cooldown, trend, sizing, cost or balance refuse the candidate; the next one follows.
CandidateRefused(w, p) ==
    /\ Take(w, p, "BATCH")
    /\ ~Skips(w, p)
    /\ Faulty
    /\ SetDisposition(p, "BLOCKED")
    /\ UNCHANGED <<repoVars, exchangeVars, lifeVars>>

SaveProposal(w, p) ==
    /\ Take(w, p, "SAVED")
    /\ ~Skips(w, p)
    /\ SaveAIProposal(p)
    /\ UNCHANGED <<exchangeVars, scanVars, lifeVars>>

MarkSubmitting(w) ==
    /\ pc[w] = "SAVED"
    /\ SetDisposition(job[w], "SUBMITTING")
    /\ Goto(w, "CLAIM")
    /\ UNCHANGED <<repoVars, exchangeVars, lifeVars>>

BatchEnds(w) ==
    /\ pc[w] = "BATCH"
    /\ todo[w] = {}
    /\ EndCycle(w)
    /\ UNCHANGED <<repoVars, exchangeVars, scanVars, lifeVars>>

\* Any exception but a refusal breaks the loop.
FailureBreaks(w) ==
    /\ pc[w] = "FAIL"
    /\ SetDisposition(job[w], "FAILED_CLOSED")
    /\ EndCycle(w)
    /\ UNCHANGED <<repoVars, exchangeVars, lifeVars>>

RefusalContinues(w) ==
    /\ pc[w] = "REFUSED"
    /\ SetDisposition(job[w], "BLOCKED")
    /\ Goto(w, "BATCH")
    /\ UNCHANGED <<repoVars, exchangeVars, lifeVars>>

RecordOpened(w) ==
    /\ pc[w] = "OPENED"
    /\ SetDisposition(job[w], "FILLED_PROTECTED")
    /\ pc' = [pc EXCEPT ![w] = "BATCH"]
    /\ freeSlots' = [freeSlots EXCEPT ![w] = @ - 1]
    /\ openSymbols' = [openSymbols EXCEPT ![w] = @ \cup {SymbolOf[job[w]]}]
    /\ UNCHANGED <<scanning, job, todo, repoVars, exchangeVars, lifeVars>>

(***************************************************************************)
(* AIAutonomousExecutionService.execute                                    *)
(***************************************************************************)
ReadClaim(w) ==
    /\ pc[w] = "CLAIM"
    /\ ClaimAIReadable(job[w])
    /\ Goto(w, "CLAIM_COMMIT")
    /\ UNCHANGED <<repoVars, exchangeVars, scanVars, lifeVars>>

\* A refused claim leaves the proposal APPROVED; nothing picks it up again.
ClaimRefused(w) ==
    /\ pc[w] = "CLAIM"
    /\ ~ClaimAIReadable(job[w])
    /\ Goto(w, "REFUSED")
    /\ UNCHANGED <<repoVars, exchangeVars, scanVars, lifeVars>>

CommitClaim(w) ==
    /\ pc[w] = "CLAIM_COMMIT"
    /\ ClaimAICommit(job[w])
    /\ Goto(w, "PREPARE")
    /\ UNCHANGED <<exchangeVars, scanVars, lifeVars>>

StageAdvances(w) ==
    /\ pc[w] \in SubmitStage
    /\ StagePasses(pc[w], job[w])
    /\ Goto(w, AfterStage[pc[w]])
    /\ UNCHANGED <<repoVars, exchangeVars, scanVars, lifeVars>>

\* The guard refuses (ControlledLiveBlocked): REJECTED, and the batch goes on.  In
\* PREPARE it is the guard of the leverage request.
GuardRefuses(w) ==
    /\ pc[w] \in SubmitStage
    /\ Faulty \/ (pc[w] # "PREPARE" /\ ~StagePasses(pc[w], job[w]))
    /\ MarkAI(job[w], "REJECTED", "REJECTED")
    /\ Goto(w, "REFUSED")
    /\ UNCHANGED <<exchangeVars, scanVars, lifeVars>>

\* The leverage request is refused (OrderRejected): REJECTED, and the batch ends.
LeverageRefused(w) ==
    /\ pc[w] = "PREPARE"
    /\ Faulty
    /\ MarkAI(job[w], "REJECTED", "REJECTED")
    /\ Goto(w, "FAIL")
    /\ UNCHANGED <<exchangeVars, scanVars, lifeVars>>

\* Mutant: an unknown outcome does not trip the kill switch.
UnknownWithoutKill(w) ==
    /\ MarkAI(job[w], "UNKNOWN", "UNKNOWN")
    /\ Goto(w, "FAIL")
    /\ UNCHANGED <<exchangeVars, scanVars, lifeVars>>

\* mark_ai_unknown; activate_kill_switch is a transaction of its own.
OutcomeUnknown(w) ==
    /\ MarkAI(job[w], "UNKNOWN", "UNKNOWN")
    /\ Goto(w, "KILL")
    /\ UNCHANGED <<exchangeVars, scanVars, lifeVars>>

\* A read of the guard fails, or the order exists already.
StageFails(w) ==
    /\ pc[w] \in SubmitStage
    /\ Faulty \/ (pc[w] = "PREPARE" /\ ~StagePasses(pc[w], job[w]))
    /\ OutcomeUnknown(w)

PostEntry(w) ==
    /\ pc[w] = "CREATE"
    /\ PostCreate(job[w])
    /\ Goto(w, "RESPONSE")
    /\ UNCHANGED <<repoVars, scanVars, lifeVars>>

\* Refused by the exchange, at once or when polled: the batch ends, no kill switch.
EntryRejected(w) ==
    /\ \/ pc[w] = "RESPONSE" /\ order[job[w]] = "REFUSED"
       \/ pc[w] = "POLL" /\ order[job[w]] = "REJECTED"
    /\ MarkAI(job[w], "REJECTED", "REJECTED")
    /\ Goto(w, "FAIL")
    /\ UNCHANGED <<exchangeVars, scanVars, lifeVars>>

EntryAccepted(w) ==
    /\ pc[w] = "RESPONSE"
    /\ OrderVisible(job[w])
    /\ Goto(w, "POLL")
    /\ UNCHANGED <<repoVars, exchangeVars, scanVars, lifeVars>>

\* Mutant: a request without an answer is sent again.
RetryAfterTimeout(w) ==
    /\ pc[w] = "RESPONSE"
    /\ Faulty
    /\ Goto(w, "CREATE")
    /\ UNCHANGED <<repoVars, exchangeVars, scanVars, lifeVars>>

EntryTimesOut(w) ==
    /\ pc[w] = "RESPONSE"
    /\ Faulty
    /\ OutcomeUnknown(w)

FillConfirmed(w) ==
    /\ pc[w] = "POLL"
    /\ order[job[w]] \in {"FILLED", "PARTIAL"}
    /\ MarkAIFilled(job[w])
    /\ Goto(w, "PROTECT")
    /\ UNCHANGED <<exchangeVars, scanVars, lifeVars>>

\* Still open after the last poll, ended without a fill, or a poll failed.
FillNotConfirmed(w) ==
    /\ pc[w] = "POLL"
    /\ order[job[w]] \in {"NEW", "CANCELLED"} \/ Faulty
    /\ OutcomeUnknown(w)

\* The stop is set and confirmed, or set and the answer lost.
ProtectionInstalled(w) ==
    /\ pc[w] = "PROTECT"
    /\ PersistentChecks(job[w])
    /\ SetTradingStop(job[w])
    /\ Goto(w, "RECONCILE") \/ (Faulty /\ Goto(w, "CLOSE"))
    /\ UNCHANGED <<repoVars, scanVars, lifeVars>>

\* Mutant: the guard's refusal leaves execute as it is.
ProtectionRefusalEscapes(w) ==
    /\ pc[w] = "PROTECT"
    /\ Faulty \/ ~PersistentChecks(job[w]) \/ position[job[w]] # "OPEN"
    /\ Goto(w, "REFUSED")
    /\ UNCHANGED <<repoVars, exchangeVars, scanVars, lifeVars>>

ProtectionFails(w) ==
    /\ pc[w] = "PROTECT"
    /\ Faulty \/ ~PersistentChecks(job[w]) \/ position[job[w]] # "OPEN"
    /\ Goto(w, "CLOSE")
    /\ UNCHANGED <<repoVars, exchangeVars, scanVars, lifeVars>>

EmergencyCloseAccepted(w) ==
    /\ pc[w] = "CLOSE"
    /\ position[job[w]] # "OPEN" \/ PersistentChecks(job[w])
    /\ MarkAI(job[w], "EMERGENCY_CLOSED", "EMERGENCY_CLOSED")
    /\ Goto(w, "KILL")
    /\ UNCHANGED <<exchangeVars, scanVars, lifeVars>>

EmergencyCloseFails(w) ==
    /\ pc[w] = "CLOSE"
    /\ Faulty \/ (position[job[w]] = "OPEN" /\ ~PersistentChecks(job[w]))
    /\ OutcomeUnknown(w)

\* The snapshot has the fill, and on its symbol a position of the filled quantity.
SnapshotMatches(p) ==
    /\ position[p] = "OPEN"
    /\ \A q \in OpenPositions : SymbolOf[q] = SymbolOf[p] => q = p

ReconcileMatches(w) ==
    /\ pc[w] = "RECONCILE"
    /\ SnapshotMatches(job[w])
    /\ MarkAI(job[w], "PROTECTED", "FILLED_PROTECTED")
    /\ Goto(w, "OPENED")
    /\ UNCHANGED <<exchangeVars, scanVars, lifeVars>>

\* The execution list may also lag behind the fill.
ReconcileMismatch(w) ==
    /\ pc[w] = "RECONCILE"
    /\ Faulty \/ ~SnapshotMatches(job[w])
    /\ OutcomeUnknown(w)

\* The snapshot itself fails: no handler, the row stays SUBMITTED.
SnapshotFails(w) ==
    /\ pc[w] = "RECONCILE"
    /\ Faulty
    /\ Goto(w, "FAIL")
    /\ UNCHANGED <<repoVars, exchangeVars, scanVars, lifeVars>>

KillAfterFailure(w) ==
    /\ pc[w] = "KILL"
    /\ ActivateKillSwitch
    /\ Goto(w, "FAIL")
    /\ UNCHANGED <<exchangeVars, scanVars, lifeVars>>

(***************************************************************************)
(* Processes, clock, administrator and exchange                            *)
(***************************************************************************)

\* The worker has the entry in hand.
Handles(w, p) == job[w] = p /\ pc[w] \notin {"IDLE", "BATCH"}

\* The process dies at any point and is started again; start-up touches no AI row.
Restart(w) ==
    /\ restarts < MaxRestarts
    /\ pc[w] # "IDLE"
    /\ restarts' = restarts + 1
    /\ abandoned' = abandoned \cup {p \in Proposals : Handles(w, p)}
    /\ EndCycle(w)
    /\ UNCHANGED <<repoVars, exchangeVars, scanVars>>

NextSlot ==
    /\ slotNow < Slots
    /\ slotNow' = slotNow + 1
    /\ UNCHANGED <<repoVars, exchangeVars, scan, disposition, workerVars, lifeVars>>

TelegramEmergency ==
    /\ ActivateKillSwitch
    /\ UNCHANGED <<exchangeVars, scanVars, workerVars, lifeVars>>

ApprovalAges(p) ==
    /\ ApprovalExpires(p)
    /\ UNCHANGED <<exchangeVars, scanVars, workerVars, lifeVars>>

BybitStep(p) ==
    /\ ExchangeStep(p)
    /\ UNCHANGED <<repoVars, scanVars, workerVars, lifeVars>>

CycleStep(w) == ReadMarket(w) \/ CompleteScan(w) \/ FailScan(w)

BatchStep(w) ==
    \/ \E p \in Proposals :
          SkipCandidate(w, p) \/ CandidateRefused(w, p) \/ SaveProposal(w, p)
    \/ MarkSubmitting(w) \/ BatchEnds(w) \/ FailureBreaks(w) \/ RefusalContinues(w)
    \/ RecordOpened(w)

SubmitStep(w) ==
    \/ ReadClaim(w) \/ ClaimRefused(w) \/ CommitClaim(w)
    \/ StageAdvances(w) \/ GuardRefuses(w) \/ LeverageRefused(w) \/ StageFails(w)
    \/ PostEntry(w) \/ EntryRejected(w) \/ EntryAccepted(w) \/ EntryTimesOut(w)

SecureStep(w) ==
    \/ FillConfirmed(w) \/ FillNotConfirmed(w)
    \/ ProtectionInstalled(w) \/ ProtectionFails(w)
    \/ EmergencyCloseAccepted(w) \/ EmergencyCloseFails(w)
    \/ ReconcileMatches(w) \/ ReconcileMismatch(w) \/ SnapshotFails(w)
    \/ KillAfterFailure(w)

\* One step of a cycle that has begun.
WorkerStep(w) == CycleStep(w) \/ BatchStep(w) \/ SubmitStep(w) \/ SecureStep(w)

Next ==
    \/ \E w \in Workers : BeginScan(w) \/ WorkerStep(w) \/ Restart(w)
    \/ NextSlot \/ TelegramEmergency
    \/ \E p \in Proposals : ApprovalAges(p) \/ BybitStep(p)

Spec == Init /\ [][Next]_vars

\* The clock runs, the loop calls cycle every minute, a cycle that has begun goes on, and
\* requests are answered or time out.
FairSpec ==
    /\ Spec
    /\ WF_vars(NextSlot)
    /\ \A w \in Workers : WF_vars(BeginScan(w) \/ WorkerStep(w))

(***************************************************************************)
(* Properties                                                              *)
(***************************************************************************)

\* The promises both execution paths share hold here too, though no entry lock and no
\* phase record guards this one: no entry is posted twice, and REJECTED and
\* FILLED_PROTECTED rows stay true whatever the exchange does later (EntryGuard).
EntriesAreHonest == AtMostOneEntry /\ LedgerNeverFlatters

\* The decision rows agree with the exchange: a candidate shown as waiting or blocked
\* was never sent, one shown as FILLED_PROTECTED is so in the ledger.
DispositionIsHonest ==
    \A p \in Proposals :
        /\ posts[p] > 0 =>
              disposition[p] \in {"SUBMITTING", "FAILED_CLOSED", "FILLED_PROTECTED"}
        /\ disposition[p] = "FILLED_PROTECTED" => ledger[p] = "FILLED_PROTECTED"

\* An entry out of its worker's hands is settled, or trading is stopped, unless the
\* process died with it.  The one exception is a snapshot that failed: the row stays
\* SUBMITTED, but the position has its stop or is gone.
SettledOrStopped ==
    \A p \in Proposals :
        Unresolved(p) /\ p \notin abandoned /\ (\A w \in Workers : ~Handles(w, p)) =>
            \/ killSwitch
            \/ ledger[p] = "SUBMITTED" /\ (position[p] = "OPEN" => protected[p])

\* What the documentation says of the AI path (README.md:328): the gateway still owns
\* reconciliation and the kill switch.  An entry left unresolved, by a restart too, is
\* reconciled or stops trading, given that further slots are scanned.
UnresolvedIsReconciled ==
    \A p \in Proposals :
        Unresolved(p) /\ slotNow < Slots ~> ~Unresolved(p) \/ killSwitch
=============================================================================
